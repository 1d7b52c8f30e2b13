-------------------------- MODULE IntercAllocProofs --------------------------
(***************************************************************************)
(* Proofs about the allocation hooks (IntercAlloc), for any number of      *)
(* threads, blocks, buckets and entries, whichever allocator fails and     *)
(* whatever the threads do in one bucket: types; and, until a thread       *)
(* writes over what another one goes by, that free and realloc tell routed *)
(* blocks from libc's and walk no freed entry, that the map leaks no       *)
(* entry, and that its lists implement the abstract table (SegTable).      *)
(***************************************************************************)
EXTENDS IntercAlloc, WellFoundedInduction, TLAPS

-----------------------------------------------------------------------------
(* Type correctness. *)

(* The records that are built belong to their types, and the fields that   *)
(* are read have theirs.                                                   *)
LEMMA BlockType ==
  /\ Free \in Blocks
  /\ \A by \in {"numa", "libc"}, sz \in Sizes \cup {0} :
       [by |-> by, size |-> sz] \in Blocks
  BY DEF Free, Blocks

LEMMA CellType ==
  /\ NoEntry \in Cells
  /\ \A a \in Addrs \cup {Nil}, sz \in Sizes \cup {0} :
       [addr |-> a, size |-> sz] \in Cells
  /\ \A c \in Cells : c.addr \in Addrs \cup {Nil} /\ c.size \in Sizes \cup {0}
  BY DEF NoEntry, Cells

LEMMA CallType ==
  /\ NoCall \in Calls
  /\ \A op \in {"malloc", "realloc", "free"}, p \in Addrs \cup {Nil},
       sz \in Sizes \cup {0} : [op |-> op, ptr |-> p, size |-> sz] \in Calls
  /\ \A c \in Calls : c.ptr \in Addrs \cup {Nil} /\ c.size \in Sizes \cup {0}
  BY DEF NoCall, Calls

LEMMA CursorType ==
  /\ NoCursor \in Cursors
  /\ \A d, e, f \in Entries \cup {Nil} : [pp |-> d, e |-> e, nxt |-> f] \in Cursors
  /\ \A c \in Cursors :
       {c.pp, c.e, c.nxt} \subseteq Entries \cup {Nil}
  /\ \A c \in Cursors, e \in Entries \cup {Nil} :
       [c EXCEPT !.e = e] \in Cursors /\ [c EXCEPT !.nxt = e] \in Cursors
  BY DEF NoCursor, Cursors

LEMMA InitTypeOK == Init => TypeOK
  BY ZenonT(60), BlockType, CellType, CallType, CursorType DEF Init, TypeOK, Locations

(* A thread is in a place its hook leads to, with the arguments it needs:  *)
(* what makes the type invariant inductive.                                *)
InMalloc == {"malloc", "numa_alloc", "record", "rec_write", "libc_alloc", "done"}

WellCalled(t) ==
  /\ pc[t] = "idle" => call[t].op = "none"
  /\ pc[t] \in InMalloc => call[t].op \in {"malloc", "realloc"}
  /\ pc[t] \in {"free", "libc_free"} => call[t].op = "free"
  /\ pc[t] = "libc_realloc" => call[t].op = "realloc"
  /\ pc[t] \in {"find", "compare", "unlink", "numa_free"} => call[t].op \in {"free", "realloc"}
  /\ call[t].op \in {"free", "realloc"} => call[t].ptr \in Addrs
  /\ pc[t] \in {"record", "rec_write"} => new[t] \in Addrs
  /\ pc[t] \in {"rec_write", "compare", "unlink"} => cursor[t].e \in Entries
  /\ pc[t] = "numa_free" /\ call[t].op = "realloc" => new[t] \in Addrs

TypeInv == TypeOK /\ \A t \in Threads : WellCalled(t)

LEMMA InitTypeInv == Init => TypeInv
  BY InitTypeOK DEF TypeInv, Init, WellCalled, InMalloc, NoCall

(* What Return, Begin and Take do to the variables they set. *)
LEMMA ReturnType ==
  ASSUME TypeInv, NEW t \in Threads, NEW from, NEW gained \in SUBSET Addrs,
         Return(t, from, gained)
  PROVE  /\ held' \in SUBSET Addrs
         /\ pc' \in [Threads -> Locations]
         /\ call' \in [Threads -> Calls]
         /\ old' \in [Threads -> Sizes \cup {0}]
         /\ new' \in [Threads -> Addrs \cup {Nil}]
         /\ cursor' \in [Threads -> Cursors]
         /\ \A u \in Threads : WellCalled(u)'
<1> USE CallType, CursorType DEF TypeInv, TypeOK, Return, Goto, Locations
<1>1. /\ held' \in SUBSET Addrs
      /\ pc' \in [Threads -> Locations]
      /\ call' \in [Threads -> Calls]
      /\ old' \in [Threads -> Sizes \cup {0}]
      /\ new' \in [Threads -> Addrs \cup {Nil}]
      /\ cursor' \in [Threads -> Cursors]
  OBVIOUS
<1>2. ASSUME NEW u \in Threads PROVE WellCalled(u)'
  BY DEF WellCalled, InMalloc, NoCall
<1> QED BY <1>1, <1>2

LEMMA BeginType ==
  ASSUME TypeInv, NEW t \in Threads,
         NEW op \in {"malloc", "realloc", "free"}, NEW p \in Addrs \cup {Nil},
         NEW sz \in Sizes \cup {0}, NEW to \in {"malloc", "find", "free"},
         Begin(t, op, p, sz, to), held' \in SUBSET Addrs,
         to = "malloc" <=> op = "malloc", to = "free" <=> op = "free",
         op # "malloc" => p \in Addrs
  PROVE  TypeInv'
<1>1. [op |-> op, ptr |-> p, size |-> sz] \in Calls
  BY CallType
<1>2. TypeOK'
  BY <1>1 DEF TypeInv, TypeOK, Begin, Goto, Locations, table, flags, history
<1>3. ASSUME NEW u \in Threads PROVE WellCalled(u)'
  BY <1>1 DEF TypeInv, TypeOK, Begin, Goto, WellCalled, InMalloc
<1> QED BY <1>2, <1>3 DEF TypeInv

LEMMA TakeType ==
  ASSUME TypeInv, NEW t \in Threads, NEW a \in Addrs, NEW by \in {"numa", "libc"},
         Take(t, a, by)
  PROVE  /\ block' \in [Addrs -> Blocks]
         /\ new' \in [Threads -> Addrs \cup {Nil}]
         /\ new' = [new EXCEPT ![t] = a]
<1>1. call[t].size \in Sizes \cup {0}
  BY CallType DEF TypeInv, TypeOK
<1>2. [by |-> by, size |-> call[t].size] \in Blocks
  BY <1>1, BlockType
<1> QED BY <1>2 DEF TypeInv, TypeOK, Take

LEMMA AppTypeInv ==
  ASSUME TypeInv, NEW t \in Threads, App(t)
  PROVE  TypeInv'
<1> USE DEF TypeInv, TypeOK
<1>1. ASSUME NEW sz \in Sizes, CallMalloc(t, sz) PROVE TypeInv'
  BY <1>1, BeginType DEF CallMalloc
<1>2. ASSUME NEW p \in Addrs, CallFree(t, p) PROVE TypeInv'
  BY <1>2, BeginType DEF CallFree
<1>3. ASSUME NEW p \in Addrs \cup {Nil}, NEW sz \in Sizes, CallRealloc(t, p, sz)
      PROVE  TypeInv'
  <2>1. CASE p \in held /\ Begin(t, "realloc", p, sz, "find")
    BY <1>3, <2>1, BeginType DEF CallRealloc
  <2>2. CASE Begin(t, "malloc", Nil, sz, "malloc")
    BY <1>3, <2>2, BeginType DEF CallRealloc
  <2> QED BY <1>3, <2>1, <2>2 DEF CallRealloc
<1> QED BY <1>1, <1>2, <1>3 DEF App

LEMMA HookTypeInv ==
  ASSUME TypeInv, NEW t \in Threads, Hook(t)
  PROVE  TypeInv'
<1> USE AllocAssumption DEF TypeInv, TypeOK, Goto, Locations, heap, table, flags,
                            history, WellCalled, InMalloc
<1>1. CASE MallocDecide(t)
  BY <1>1 DEF MallocDecide, FlagAfter, Routes
<1>2. CASE NumaAlloc(t)
  <2>1. ASSUME NEW a \in Addrs, Take(t, a, "numa"), Goto(t, "numa_alloc", "record")
        PROVE  TypeInv'
    BY <1>2, <2>1, TakeType DEF NumaAlloc
  <2>2. ASSUME Goto(t, "numa_alloc", "libc_alloc"), UNCHANGED <<block, new>>
        PROVE  TypeInv'
    BY <1>2, <2>2 DEF NumaAlloc
  <2> QED BY <1>2, <2>1, <2>2 DEF NumaAlloc
<1>3. CASE LibcAlloc(t)
  <2>1. ASSUME NEW a \in Addrs, Take(t, a, "libc") PROVE TypeInv'
    BY <1>3, <2>1, TakeType DEF LibcAlloc
  <2>2. ASSUME UNCHANGED <<block, new>> PROVE TypeInv'
    BY <1>3, <2>2 DEF LibcAlloc
  <2> QED BY <1>3, <2>1, <2>2 DEF LibcAlloc
<1>4. CASE MallocReturn(t)
  <2>1. {new[t]} \ {Nil} \in SUBSET Addrs
    OBVIOUS
  <2>2. Return(t, "done", {new[t]} \ {Nil})
    BY <1>4 DEF MallocReturn
  <2> QED BY <1>4, <2>1, <2>2, ReturnType DEF MallocReturn
<1>5. CASE RecordPrepare(t)
  <2>1. NewEntry(t) \in Cells
    BY CellType, CallType DEF NewEntry
  <2>2. CASE "entry" \in Failures /\ Goto(t, "record", "done")
             /\ unrecorded' = unrecorded \cup {new[t]}
             /\ UNCHANGED <<live, entry, next, cursor>>
    BY <1>5, <2>2 DEF RecordPrepare
  <2>3. ASSUME Goto(t, "record", "rec_write"), NEW e \in Entries \ live,
               live' = live \cup {e},
               entry' = [entry EXCEPT ![e] = NewEntry(t)],
               next' = [next EXCEPT ![e] = Successor(t, e)],
               cursor' = [cursor EXCEPT ![t] = [pp |-> Nil, e |-> e, nxt |-> Nil]],
               unrecorded' = unrecorded
        PROVE  TypeInv'
    <3>1. [pp |-> Nil, e |-> e, nxt |-> Nil] \in Cursors
      BY CursorType
    <3>2. next' \in [Entries -> Entries \cup {Nil}]
      BY <2>3 DEF Successor
    <3>3. cursor' \in [Threads -> Cursors]
      BY <2>3, <3>1
    <3>4. entry' \in [Entries -> Cells] /\ live' \in SUBSET Entries
      BY <2>1, <2>3
    <3>5. TypeOK'
      BY <1>5, <2>3, <3>2, <3>3, <3>4 DEF RecordPrepare
    <3>6. ASSUME NEW u \in Threads PROVE WellCalled(u)'
      BY <1>5, <2>3 DEF RecordPrepare
    <3> QED BY <3>5, <3>6
  <2> QED BY <1>5, <2>2, <2>3 DEF RecordPrepare
<1>6. CASE RecordWrite(t)
  BY <1>6, CursorType DEF RecordWrite
<1>7. CASE Find(t)
  <2>1. pc[t] = "find" /\ call[t].ptr \in Addrs /\ cursor[t] \in Cursors
    BY <1>7 DEF Find, FindMiss, FindEntry
  <2>2. Target(t) \in Entries \cup {Nil} /\ cursor[t].pp \in Entries \cup {Nil}
    BY <2>1, CursorType DEF Target
  <2>3. CASE FindMiss(t)
    BY <2>1, <2>3, CursorType DEF FindMiss
  <2>4. CASE FindEntry(t)
    <3>1. Target(t) \in Entries /\ [cursor[t] EXCEPT !.e = Target(t)] \in Cursors
      BY <2>1, <2>2, <2>4, CursorType DEF FindEntry
    <3>2. cursor' = [cursor EXCEPT ![t] = [cursor[t] EXCEPT !.e = Target(t)]]
      BY <2>4 DEF FindEntry
    <3>3. cursor'[t].e = Target(t)
      BY <2>1, <3>2 DEF Cursors
    <3> QED BY <2>1, <2>4, <3>1, <3>2, <3>3 DEF FindEntry
  <2> QED BY <1>7, <2>3, <2>4 DEF Find
<1>15. CASE Compare(t)
  <2>1. pc[t] = "compare" /\ call[t].ptr \in Addrs /\ cursor[t] \in Cursors
        /\ cursor[t].e \in Entries
    BY <1>15 DEF Compare, CompareNext, CompareHit
  <2>2. CASE CompareNext(t)
    BY <2>1, <2>2, CursorType DEF CompareNext, Advance
  <2>3. CASE CompareHit(t)
    <3> DEFINE e == cursor[t].e
    <3>1. [cursor[t] EXCEPT !.nxt = next[e]] \in Cursors
      BY <2>1, CursorType
    <3>2. entry[e].size \in Sizes \cup {0}
      BY <2>1, CellType
    <3>3. /\ cursor' = [cursor EXCEPT ![t] = [cursor[t] EXCEPT !.nxt = next[e]]]
          /\ old' = [old EXCEPT ![t] = entry[e].size]
      BY <2>3 DEF CompareHit
    <3>4. cursor'[t].e = e
      BY <2>1, <3>3 DEF Cursors
    <3> HIDE DEF e
    <3> QED BY <2>1, <2>3, <3>1, <3>2, <3>3, <3>4 DEF CompareHit
  <2> QED BY <1>15, <2>2, <2>3 DEF Compare
<1>8. CASE Unlink(t)
  BY <1>8, CellType, CursorType DEF Unlink, HeadAfter, NextAfter, Released
<1>9. CASE FreeDecide(t)
  BY <1>9 DEF FreeDecide
<1>10. CASE LibcFree(t)
  <2>1. Return(t, "libc_free", {}) /\ {} \in SUBSET Addrs
    BY <1>10 DEF LibcFree
  <2>2. block' \in [Addrs -> Blocks]
    BY <1>10, BlockType DEF LibcFree
  <2> QED BY <1>10, <2>1, <2>2, ReturnType DEF LibcFree
<1>11. CASE ReallocCopy(t)
  BY <1>11 DEF ReallocCopy
<1>12. CASE ReallocFail(t)
  <2>1. Return(t, "done", {call[t].ptr}) /\ {call[t].ptr} \in SUBSET Addrs
    BY <1>12 DEF ReallocFail
  <2> QED BY <1>12, <2>1, ReturnType DEF ReallocFail
<1>13. CASE NumaFree(t)
  <2> DEFINE gained == IF call[t].op = "realloc" THEN {new[t]} ELSE {}
  <2>1. Return(t, "numa_free", gained) /\ gained \in SUBSET Addrs
    BY <1>13 DEF NumaFree, Return
  <2> HIDE DEF gained
  <2> QED BY <1>13, <2>1, ReturnType, BlockType DEF NumaFree
<1>14. CASE LibcRealloc(t)
  <2>1. ASSUME NEW a \in Addrs, Return(t, "libc_realloc", {a}),
               block' = [block EXCEPT ![call[t].ptr] = Free,
                           ![a] = [by |-> "libc", size |-> call[t].size]],
               unrecorded' = unrecorded \ {call[t].ptr}
        PROVE  TypeInv'
    <3>1. [by |-> "libc", size |-> call[t].size] \in Blocks
      BY BlockType, CallType
    <3>2. block' \in [Addrs -> Blocks]
      BY <2>1, <3>1, BlockType
    <3>3. {a} \in SUBSET Addrs
      OBVIOUS
    <3> QED BY <1>14, <2>1, <3>2, <3>3, ReturnType DEF LibcRealloc
  <2>2. ASSUME Return(t, "libc_realloc", {call[t].ptr}), UNCHANGED <<block, unrecorded>>
        PROVE  TypeInv'
    <3>1. {call[t].ptr} \in SUBSET Addrs
      BY <2>2 DEF Return
    <3> QED BY <1>14, <2>2, <3>1, ReturnType DEF LibcRealloc
  <2> QED BY <1>14, <2>1, <2>2 DEF LibcRealloc
<1> QED
  BY <1>1, <1>2, <1>3, <1>4, <1>5, <1>6, <1>7, <1>8, <1>9, <1>10, <1>11, <1>12,
     <1>13, <1>14, <1>15 DEF Hook

LEMMA NextTypeInv == TypeInv /\ [Next]_vars => TypeInv'
<1> SUFFICES ASSUME TypeInv, [Next]_vars PROVE TypeInv'
  OBVIOUS
<1>1. CASE PublishRules
  BY <1>1 DEF PublishRules, TypeInv, TypeOK, heap, table, history, WellCalled
<1>2. CASE \E t \in Threads : App(t) \/ Hook(t)
  BY <1>2, AppTypeInv, HookTypeInv
<1>3. CASE UNCHANGED vars
  BY <1>3 DEF vars, heap, table, flags, history, TypeInv, TypeOK, WellCalled
<1> QED BY <1>1, <1>2, <1>3 DEF Next

(* Every variable keeps its type, whatever may fail and whatever overlaps. *)
THEOREM TypeCorrect == Spec => []TypeOK
<1>1. TypeInv => TypeOK
  BY DEF TypeInv
<1> QED BY InitTypeInv, NextTypeInv, <1>1, PTL DEF Spec

-----------------------------------------------------------------------------
(* Freed blocks and freed entries: the inductive invariant of the time     *)
(* until a thread is overtaken.                                            *)

(* The entries in the map: all but those a thread is about to link.        *)
Linked == live \ {cursor[t].e : t \in {u \in Threads : pc[u] = "rec_write"}}
BucketOf(e) == Hash[entry[e].addr]

HasPtr(t) == call[t].op \in {"free", "realloc"}

(* A block belongs to the application, to the hook that was given it, or   *)
(* to the hook that got it from an allocator, and to one of them only.     *)
Ownership ==
  /\ \A a \in held : block[a].by # "free"
  /\ \A t \in Threads : HasPtr(t) =>
       call[t].ptr \notin held /\ block[call[t].ptr].by # "free"
  /\ \A t \in Threads : new[t] # Nil => new[t] \notin held /\ block[new[t]].by # "free"
  /\ \A t, u \in Threads : HasPtr(t) /\ HasPtr(u) /\ call[t].ptr = call[u].ptr => t = u
  /\ \A t, u \in Threads : new[t] # Nil /\ new[t] = new[u] => t = u
  /\ \A t, u \in Threads : HasPtr(u) => new[t] # call[u].ptr

(* The fast path of free is safe. *)
FlagRaised ==
  /\ \A a \in Addrs : block[a].by = "numa" => routing_ever_used
  /\ \A t \in Threads : pc[t] = "numa_alloc" => routing_ever_used

(* A thread with a routed block that is not yet, or no longer, in the map. *)
ToRecord(t) == pc[t] \in {"record", "rec_write"}
Removed(t) == pc[t] = "numa_free" \/ (pc[t] \in InMalloc /\ call[t].op = "realloc")

(* An entry of the map describes a routed block, and is its only one.      *)
EntriesAreBlocks ==
  /\ \A e \in Linked :
       /\ entry[e].addr \in Addrs
       /\ block[entry[e].addr] = [by |-> "numa", size |-> entry[e].size]
  /\ \A e, f \in Linked : entry[e].addr = entry[f].addr => e = f

(* The other way round: a routed block has an entry, or a thread has it in *)
(* hand, or the hooks left it unrecorded.                                  *)
BlocksAreEntries ==
  \A a \in Addrs : block[a].by = "numa" =>
    \/ a \in unrecorded
    \/ \E e \in Linked : entry[e].addr = a
    \/ \E t \in Threads : ToRecord(t) /\ new[t] = a
    \/ \E t \in Threads : Removed(t) /\ call[t].ptr = a

(* What a thread knows in each place. *)
Knows(t) ==
  /\ Removed(t) =>
       /\ block[call[t].ptr] = [by |-> "numa", size |-> old[t]]
       /\ \A e \in Linked : entry[e].addr # call[t].ptr
  /\ ToRecord(t) =>
       /\ block[new[t]] = [by |-> "numa", size |-> call[t].size]
       /\ \A e \in Linked : entry[e].addr # new[t]
  /\ pc[t] = "rec_write" =>
       /\ cursor[t].e \in live
       /\ entry[cursor[t].e] = [addr |-> new[t], size |-> call[t].size]
       /\ next[cursor[t].e] = addr_hash[Hash[new[t]]]
  /\ pc[t] \notin {"find", "compare", "unlink"} => cursor[t].pp = Nil
  /\ pc[t] \notin {"rec_write", "compare", "unlink"} => cursor[t].e = Nil
  /\ pc[t] \in {"libc_free", "libc_realloc"} =>
       \A e \in Linked : entry[e].addr # call[t].ptr

OneCellEach ==
  \A t, u \in Threads :
    pc[t] = "rec_write" /\ pc[u] = "rec_write" /\ cursor[t].e = cursor[u].e => t = u

(* Each bucket is a list: some rank falls along next, from the head on,    *)
(* and skips no entry of the bucket.                                       *)
HeadFirst(r, b) ==
  /\ addr_hash[b] = Nil => \A e \in Linked : BucketOf(e) # b
  /\ addr_hash[b] # Nil =>
       /\ addr_hash[b] \in Linked /\ BucketOf(addr_hash[b]) = b
       /\ \A e \in Linked : BucketOf(e) = b => r[e] <= r[addr_hash[b]]

NextBelow(r, e) ==
  /\ next[e] = Nil => \A f \in Linked : BucketOf(f) = BucketOf(e) => r[e] <= r[f]
  /\ next[e] # Nil =>
       /\ next[e] \in Linked /\ BucketOf(next[e]) = BucketOf(e)
       /\ r[next[e]] < r[e]
       /\ \A f \in Linked : BucketOf(f) = BucketOf(e) => r[f] <= r[next[e]] \/ r[e] <= r[f]

Lists(r) ==
  /\ \A b \in Buckets : HeadFirst(r, b)
  /\ \A e \in Linked : NextBelow(r, e)
  /\ \A e, f \in Linked : BucketOf(e) = BucketOf(f) /\ r[e] = r[f] => e = f

(* A traversal has passed no entry of the block it looks for.              *)
Traversal(r, t) ==
  pc[t] = "find" /\ cursor[t].pp # Nil =>
    /\ cursor[t].pp \in Linked /\ BucketOf(cursor[t].pp) = Hash[call[t].ptr]
    /\ \A f \in Linked : entry[f].addr = call[t].ptr => r[f] < r[cursor[t].pp]

(* pp leads to the entry the thread has in hand.                           *)
InFront(t) ==
  /\ cursor[t].pp = Nil => addr_hash[Hash[call[t].ptr]] = cursor[t].e
  /\ cursor[t].pp # Nil =>
       /\ cursor[t].pp \in Linked /\ BucketOf(cursor[t].pp) = Hash[call[t].ptr]
       /\ next[cursor[t].pp] = cursor[t].e

(* A thread that has read an entry has passed none of its block; what pp   *)
(* leads to matters only if the entry is the one.                          *)
AtCompare(r, t) ==
  pc[t] = "compare" =>
    /\ cursor[t].e \in Linked /\ BucketOf(cursor[t].e) = Hash[call[t].ptr]
    /\ \A f \in Linked : entry[f].addr = call[t].ptr => r[f] <= r[cursor[t].e]
    /\ entry[cursor[t].e].addr = call[t].ptr => InFront(t)

(* A thread about to unlink stands in front of the entry.                  *)
AtEntry(t) ==
  pc[t] = "unlink" =>
    /\ cursor[t].e \in Linked /\ entry[cursor[t].e].addr = call[t].ptr
    /\ cursor[t].nxt = next[cursor[t].e] /\ old[t] = entry[cursor[t].e].size
    /\ InFront(t)

(* What t has read of the map still holds of it. *)
Reads(r, t) == Traversal(r, t) /\ AtCompare(r, t) /\ AtEntry(t)

TableInv(r) == Lists(r) /\ \A t \in Threads : Reads(r, t)

(* Everything but the order of the entries. *)
SafeInv ==
  /\ TypeInv
  /\ Ownership
  /\ FlagRaised
  /\ EntriesAreBlocks
  /\ BlocksAreEntries
  /\ \A t \in Threads : Knows(t)
  /\ OneCellEach

Ranks == [Entries -> Nat]

-----------------------------------------------------------------------------
(* A step of t leaves the locals of the others alone. *)
OthersSame(t) ==
  \A u \in Threads \ {t} :
    /\ pc'[u] = pc[u] /\ call'[u] = call[u] /\ old'[u] = old[u]
    /\ new'[u] = new[u] /\ cursor'[u] = cursor[u]

LEMMA StepOthersSame ==
  ASSUME TypeInv, NEW t \in Threads, App(t) \/ Hook(t)
  PROVE  OthersSame(t)
<1> USE DEF TypeInv, TypeOK, OthersSame, Goto, Return, Begin
<1>1. CASE App(t)
  BY <1>1 DEF App, CallMalloc, CallFree, CallRealloc
<1>2. CASE MallocDecide(t) \/ MallocReturn(t) \/ FreeDecide(t) \/ LibcFree(t)
  BY <1>2 DEF MallocDecide, MallocReturn, FreeDecide, LibcFree
<1>3. CASE NumaAlloc(t) \/ LibcAlloc(t)
  BY <1>3 DEF NumaAlloc, LibcAlloc, Take
<1>4. CASE RecordPrepare(t) \/ RecordWrite(t)
  BY <1>4 DEF RecordPrepare, RecordWrite
<1>5. CASE Find(t) \/ Compare(t) \/ Unlink(t)
  BY <1>5 DEF Find, FindMiss, FindEntry, Compare, CompareNext, CompareHit, Unlink
<1>6. CASE ReallocCopy(t) \/ ReallocFail(t) \/ NumaFree(t) \/ LibcRealloc(t)
  BY <1>6 DEF ReallocCopy, ReallocFail, NumaFree, LibcRealloc
<1> QED BY <1>1, <1>2, <1>3, <1>4, <1>5, <1>6 DEF Hook

(* What the place of t says of its next step. *)
LEMMA StepAt ==
  ASSUME NEW t \in Threads, App(t) \/ Hook(t)
  PROVE  /\ pc[t] = "record" => RecordPrepare(t)
         /\ pc[t] = "rec_write" => RecordWrite(t)
         /\ pc[t] = "unlink" => Unlink(t)
         /\ pc[t] = "numa_free" => NumaFree(t)
<1> USE DEF Goto, Return, Begin
<1>1. CASE App(t)
  BY <1>1 DEF App, CallMalloc, CallFree, CallRealloc
<1>2. CASE Hook(t)
  BY <1>2 DEF Hook, MallocDecide, NumaAlloc, LibcAlloc, MallocReturn, Find, FindMiss,
     FindEntry, Compare, CompareNext, CompareHit, FreeDecide, RecordPrepare, RecordWrite, Unlink, LibcFree, ReallocCopy, ReallocFail, NumaFree, LibcRealloc
<1> QED BY <1>1, <1>2

(* Steps that read the map, or do not use it, keep its lists.              *)
LEMMA TableFrame ==
  ASSUME TypeInv, NEW t \in Threads, OthersSame(t), UNCHANGED table,
         pc[t] # "rec_write", pc'[t] # "rec_write", TypeOK'
  PROVE  /\ Linked' = Linked
         /\ \A e \in Entries : BucketOf(e)' = BucketOf(e)
         /\ \A r \in Ranks : Lists(r) => Lists(r)'
<1>1. Linked' = Linked
  BY DEF TypeInv, TypeOK, OthersSame, table, Linked
<1>2. \A e \in Entries : BucketOf(e)' = BucketOf(e)
  BY DEF table, BucketOf
<1>3. \A r \in Ranks : Lists(r) => Lists(r)'
  BY <1>1 DEF table, Lists, HeadFirst, NextBelow, BucketOf
<1> QED BY <1>1, <1>2, <1>3

(* So they keep the invariant of the map, if what t reads of it holds.     *)
LEMMA TableInvFrame ==
  ASSUME TypeInv, NEW t \in Threads, OthersSame(t), UNCHANGED table,
         pc[t] # "rec_write", pc'[t] # "rec_write", TypeInv',
         NEW r \in Ranks, TableInv(r), Reads(r, t)'
  PROVE  TableInv(r)'
<1>1. /\ Linked' = Linked /\ Lists(r)'
      /\ \A e \in Entries : BucketOf(e)' = BucketOf(e)
  BY TableFrame DEF TypeInv, TableInv
<1>2. ASSUME NEW u \in Threads PROVE Reads(r, u)'
  <2>1. CASE u = t
    BY <2>1
  <2>2. CASE u # t
    <3>1. /\ Reads(r, u) /\ cursor[u] \in Cursors
          /\ pc'[u] = pc[u] /\ call'[u] = call[u] /\ old'[u] = old[u] /\ cursor'[u] = cursor[u]
      BY <2>2 DEF TypeInv, TypeOK, TableInv, OthersSame
    <3>2. Traversal(r, u)'
      BY <1>1, <3>1 DEF table, Reads, Traversal, BucketOf
    <3>3. InFront(u)' <=> InFront(u)
      BY <1>1, <3>1 DEF table, InFront, BucketOf
    <3>4. AtCompare(r, u)' /\ AtEntry(u)'
      BY <1>1, <3>1, <3>3 DEF table, Reads, AtCompare, AtEntry, BucketOf
    <3> QED BY <3>2, <3>4 DEF Reads
  <2> QED BY <2>1, <2>2
<1> QED BY <1>1, <1>2 DEF TableInv

(* What a search of t learns about its own thread. *)
LEMMA FindTable ==
  ASSUME SafeInv, NEW r \in Ranks, TableInv(r), NEW t \in Threads, Find(t), TypeInv'
  PROVE  TableInv(r)'
<1>1. /\ OthersSame(t) /\ UNCHANGED table /\ pc[t] = "find"
      /\ call'[t] = call[t] /\ call[t].ptr \in Addrs
  BY StepOthersSame DEF SafeInv, TypeInv, TypeOK, WellCalled, Hook, Find, FindMiss, FindEntry, Goto
<1> DEFINE b == Hash[call[t].ptr]
           e == Target(t)
<1>2. b \in Buckets /\ e \in Entries \cup {Nil} /\ cursor[t].pp \in Entries \cup {Nil}
  BY <1>1, AllocAssumption, CursorType DEF SafeInv, TypeInv, TypeOK, Target
<1>3. e # Nil => /\ e \in Linked /\ BucketOf(e) = b
                 /\ \A f \in Linked : entry[f].addr = call[t].ptr => r[f] <= r[e]
  <2>1. CASE cursor[t].pp = Nil
    BY <1>1, <1>2, <2>1 DEF Target, TableInv, Lists, HeadFirst, BucketOf
  <2>2. CASE cursor[t].pp # Nil
    <3>1. /\ cursor[t].pp \in Linked /\ BucketOf(cursor[t].pp) = b
          /\ \A f \in Linked : entry[f].addr = call[t].ptr => r[f] < r[cursor[t].pp]
      BY <1>1, <2>2 DEF TableInv, Reads, Traversal
    <3>2. e = next[cursor[t].pp] /\ NextBelow(r, cursor[t].pp)
      BY <2>2, <3>1 DEF Target, TableInv, Lists
    <3>3. Linked \subseteq Entries
      BY DEF Linked, SafeInv, TypeInv, TypeOK
    <3>4. ASSUME e # Nil, NEW f \in Linked, entry[f].addr = call[t].ptr PROVE r[f] <= r[e]
      BY <3>1, <3>2, <3>3, <3>4 DEF NextBelow, BucketOf, Ranks
    <3> QED BY <3>1, <3>2, <3>4 DEF NextBelow
  <2> QED BY <2>1, <2>2
<1>4. CASE FindMiss(t)
  <2>1. pc'[t] \in {"libc_free", "libc_realloc"}
    BY <1>4 DEF FindMiss, Goto, SafeInv, TypeInv, TypeOK
  <2> QED BY <1>1, <2>1, TableInvFrame DEF SafeInv, Reads, Traversal, AtCompare, AtEntry
<1>5. CASE FindEntry(t)
  <2>1. /\ pc'[t] = "compare" /\ e # Nil
        /\ cursor'[t].e = e /\ cursor'[t].pp = cursor[t].pp
    BY <1>5 DEF FindEntry, Goto, SafeInv, TypeInv, TypeOK, Cursors
  <2>2. Linked' = Linked /\ \A f \in Entries : BucketOf(f)' = BucketOf(f)
    BY <1>1, <2>1, TableFrame DEF SafeInv, TypeInv
  <2>3. InFront(t)'
    <3>1. cursor[t].pp = Nil => addr_hash[b] = e
      BY DEF Target
    <3>2. cursor[t].pp # Nil =>
            cursor[t].pp \in Linked /\ BucketOf(cursor[t].pp) = b /\ next[cursor[t].pp] = e
      BY <1>1 DEF Target, TableInv, Reads, Traversal
    <3> QED BY <1>1, <1>2, <2>1, <2>2, <3>1, <3>2 DEF InFront, table
  <2>4. AtCompare(r, t)'
    BY <1>1, <1>2, <1>3, <2>1, <2>2, <2>3 DEF AtCompare, table
  <2>5. Reads(r, t)'
    BY <2>1, <2>4 DEF Reads, Traversal, AtEntry
  <2> QED BY <1>1, <2>1, <2>5, TableInvFrame DEF SafeInv
<1> QED BY <1>4, <1>5 DEF Find

LEMMA CompareTable ==
  ASSUME SafeInv, NEW r \in Ranks, TableInv(r), NEW t \in Threads, Compare(t), TypeInv'
  PROVE  TableInv(r)'
<1> DEFINE e == cursor[t].e
<1>1. /\ OthersSame(t) /\ UNCHANGED table /\ pc[t] = "compare" /\ pc'[t] # "rec_write"
      /\ call'[t] = call[t] /\ call[t].ptr \in Addrs
      /\ cursor[t].pp \in Entries \cup {Nil}
  BY StepOthersSame, CursorType DEF SafeInv, TypeInv, TypeOK, WellCalled, Hook, Compare,
     CompareNext, CompareHit, Goto
<1>2. /\ e \in Linked /\ e \in Entries /\ BucketOf(e) = Hash[call[t].ptr]
      /\ \A f \in Linked : entry[f].addr = call[t].ptr => r[f] <= r[e]
      /\ entry[e].addr = call[t].ptr => InFront(t)
  BY <1>1 DEF TableInv, Reads, AtCompare, Linked, SafeInv, TypeInv, TypeOK
<1>3. Linked' = Linked /\ \A f \in Entries : BucketOf(f)' = BucketOf(f)
  BY <1>1, TableFrame DEF SafeInv, TypeInv
<1>4. CASE CompareNext(t)
  <2>1. pc'[t] = "find" /\ cursor'[t].pp = e /\ entry[e].addr # call[t].ptr
    BY <1>4 DEF CompareNext, Advance, Goto, SafeInv, TypeInv, TypeOK
  <2>2. ASSUME NEW f \in Linked, entry[f].addr = call[t].ptr PROVE r[f] < r[e]
    <3>1. f \in Entries /\ BucketOf(f) = BucketOf(e)
      BY <1>2, <2>2 DEF Linked, SafeInv, TypeInv, TypeOK, BucketOf
    <3>2. r[f] <= r[e] /\ f # e
      BY <1>2, <2>1, <2>2
    <3>3. r[f] # r[e]
      BY <1>2, <2>2, <3>1, <3>2 DEF TableInv, Lists
    <3> QED BY <1>2, <3>1, <3>2, <3>3 DEF Ranks
  <2>3. Reads(r, t)'
    BY <1>1, <1>2, <1>3, <2>1, <2>2 DEF Reads, Traversal, AtCompare, AtEntry, table
  <2> QED BY <1>1, <2>3, TableInvFrame DEF SafeInv
<1>5. CASE CompareHit(t)
  <2>1. /\ pc'[t] = "unlink" /\ entry[e].addr = call[t].ptr
        /\ cursor'[t].pp = cursor[t].pp /\ cursor'[t].e = e /\ cursor'[t].nxt = next[e]
        /\ old'[t] = entry[e].size
    BY <1>5 DEF CompareHit, Goto, SafeInv, TypeInv, TypeOK, Cursors
  <2>2. InFront(t)'
    BY <1>1, <1>2, <1>3, <2>1 DEF InFront, table
  <2>3. AtEntry(t)'
    BY <1>1, <1>2, <1>3, <2>1, <2>2 DEF AtEntry, table
  <2>4. Reads(r, t)'
    BY <2>1, <2>3 DEF Reads, Traversal, AtCompare
  <2> QED BY <1>1, <2>4, TableInvFrame DEF SafeInv
<1> QED BY <1>4, <1>5 DEF Compare

(* A new entry is filled: it is not in the map yet. *)
LEMMA PrepareTable ==
  ASSUME SafeInv, NEW r \in Ranks, TableInv(r), NEW t \in Threads,
         RecordPrepare(t), pc'[t] = "rec_write", TypeInv'
  PROVE  Linked' = Linked /\ TableInv(r)'
<1>1. OthersSame(t) /\ pc[t] = "record" /\ pc'[t] = "rec_write"
  BY StepOthersSame DEF SafeInv, TypeInv, TypeOK, Hook, RecordPrepare, Goto
<1>2. PICK e \in Entries \ live :
        /\ live' = live \cup {e}
        /\ entry' = [entry EXCEPT ![e] = NewEntry(t)]
        /\ next' = [next EXCEPT ![e] = Successor(t, e)]
        /\ cursor' = [cursor EXCEPT ![t] = [pp |-> Nil, e |-> e, nxt |-> Nil]]
        /\ addr_hash' = addr_hash
  BY <1>1 DEF RecordPrepare, Goto, SafeInv, TypeInv, TypeOK
<1>3. cursor'[t].e = e /\ Linked \subseteq live /\ live \subseteq Entries /\ e \notin Linked
  BY <1>2 DEF Linked, SafeInv, TypeInv, TypeOK
<1>4. Linked' = Linked
  BY <1>1, <1>2, <1>3 DEF Linked, OthersSame
<1>5. \A f \in Linked : entry'[f] = entry[f] /\ next'[f] = next[f] /\ BucketOf(f)' = BucketOf(f)
  BY <1>2, <1>3 DEF SafeInv, TypeInv, TypeOK, BucketOf
<1>6. Lists(r)'
  <2>1. ASSUME NEW b \in Buckets PROVE HeadFirst(r, b)'
    BY <1>2, <1>4, <1>5 DEF TableInv, Lists, HeadFirst
  <2>2. ASSUME NEW f \in Linked PROVE NextBelow(r, f)'
    BY <1>4, <1>5 DEF TableInv, Lists, NextBelow
  <2> QED BY <1>4, <1>5, <2>1, <2>2 DEF TableInv, Lists
<1>7. ASSUME NEW u \in Threads PROVE Reads(r, u)'
  <2>1. CASE u = t
    BY <1>1, <2>1 DEF Reads, Traversal, AtCompare, AtEntry
  <2>2. CASE u # t
    <3>1. /\ Reads(r, u)
          /\ pc'[u] = pc[u] /\ call'[u] = call[u] /\ old'[u] = old[u] /\ cursor'[u] = cursor[u]
      BY <1>1, <2>2 DEF TableInv, OthersSame
    <3>2. Traversal(r, u)'
      BY <1>4, <1>5, <3>1 DEF Reads, Traversal
    <3>3. InFront(u) => InFront(u)'
      BY <1>2, <1>4, <1>5, <3>1 DEF InFront
    <3>4. AtCompare(r, u)'
      BY <1>4, <1>5, <3>1, <3>3 DEF Reads, AtCompare
    <3>5. AtEntry(u)'
      BY <1>4, <1>5, <3>1, <3>3 DEF Reads, AtEntry
    <3> QED BY <3>2, <3>4, <3>5 DEF Reads
  <2> QED BY <2>1, <2>2
<1> QED BY <1>4, <1>6, <1>7 DEF TableInv

(* The new entry becomes the head of its bucket, which no other thread     *)
(* goes by.                                                                *)
LEMMA WriteTable ==
  ASSUME SafeInv, NEW r \in Ranks, TableInv(r), NEW t \in Threads,
         RecordWrite(t), TypeInv', ~overtaken'
  PROVE  /\ Linked' = Linked \cup {cursor[t].e}
         /\ \E s \in Ranks : TableInv(s)'
<1> DEFINE c == cursor[t].e
           b == Hash[new[t]]
           h == addr_hash[b]
<1>1. /\ OthersSame(t) /\ pc[t] = "rec_write" /\ pc'[t] = "done"
      /\ addr_hash' = [addr_hash EXCEPT ![b] = c]
      /\ UNCHANGED <<entry, next, live>>
  BY StepOthersSame DEF SafeInv, TypeInv, TypeOK, Hook, RecordWrite, Goto
<1>2. /\ c \in Entries /\ c \in live /\ b \in Buckets /\ BucketOf(c) = b /\ c \notin Linked
      /\ entry[c].addr = new[t] /\ next[c] = h /\ Linked \subseteq Entries
      /\ \A f \in Linked : entry[f].addr # new[t]
  <2>1. /\ Knows(t) /\ c \in Entries /\ new[t] \in Addrs /\ live \subseteq Entries
    BY <1>1 DEF SafeInv, TypeInv, TypeOK, WellCalled
  <2>2. c \in live /\ entry[c] = [addr |-> new[t], size |-> call[t].size] /\ next[c] = h
    BY <1>1, <2>1 DEF Knows
  <2>3. \A f \in Linked : entry[f].addr # new[t]
    BY <1>1, <2>1 DEF Knows, ToRecord
  <2>4. b \in Buckets
    BY <2>1, AllocAssumption
  <2>5. c \notin Linked /\ Linked \subseteq Entries
    BY <1>1, <2>1 DEF Linked
  <2> QED BY <2>1, <2>2, <2>3, <2>4, <2>5 DEF BucketOf
<1>3. Linked' = Linked \cup {c}
  BY <1>1, <1>2 DEF SafeInv, OneCellEach, Linked, OthersSame
<1>4. \A f \in Entries : BucketOf(f)' = BucketOf(f)
  BY <1>1 DEF BucketOf
<1>5. h # Nil => /\ h \in Linked /\ BucketOf(h) = b
                 /\ \A f \in Linked : BucketOf(f) = b => r[f] <= r[h]
  BY <1>2 DEF TableInv, Lists, HeadFirst
<1>6. h = Nil => \A f \in Linked : BucketOf(f) # b
  BY <1>2 DEF TableInv, Lists, HeadFirst
<1>7. PICK s \in Ranks : /\ \A f \in Linked : s[f] = r[f]
                         /\ h # Nil => s[c] = r[h] + 1
  <2>1. [r EXCEPT ![c] = IF h = Nil THEN 0 ELSE r[h] + 1] \in Ranks
    BY <1>2, <1>5 DEF Ranks
  <2> QED BY <1>2, <2>1 DEF Ranks
<1>8. \A f \in Linked : BucketOf(f) = b => s[f] < s[c]
  BY <1>2, <1>5, <1>6, <1>7 DEF Ranks
<1>9. ASSUME NEW d \in Buckets PROVE HeadFirst(s, d)'
  <2>1. CASE d = b
    <3>1. addr_hash'[d] = c /\ c # Nil
      BY <1>1, <1>2, <2>1, AllocAssumption DEF SafeInv, TypeInv, TypeOK, WellCalled, Linked, Knows
    <3> QED BY <1>2, <1>3, <1>4, <1>7, <1>8, <2>1, <3>1 DEF HeadFirst, Ranks
  <2>2. CASE d # b
    BY <1>1, <1>2, <1>3, <1>4, <1>7, <2>2 DEF HeadFirst, TableInv, Lists, SafeInv, TypeInv, TypeOK
  <2> QED BY <2>1, <2>2
<1>10. ASSUME NEW f \in Linked' PROVE NextBelow(s, f)'
  <2>1. CASE f = c
    <3>1. next'[f] = h
      BY <1>1, <1>2, <2>1
    <3>2. CASE h = Nil
      BY <1>2, <1>3, <1>4, <1>6, <1>7, <2>1, <3>1, <3>2 DEF NextBelow, Ranks
    <3>3. CASE h # Nil
      <4>1. h \in Linked' /\ Hash[entry'[h].addr] = BucketOf(f)' /\ s[h] < s[f]
        <5>1. h \in Linked /\ h \in Entries /\ BucketOf(h) = b
          BY <1>2, <1>5, <3>3
        <5>2. s[h] < s[c]
          BY <1>8, <5>1
        <5> QED BY <1>1, <1>2, <1>3, <1>4, <2>1, <5>1, <5>2 DEF BucketOf
      <4>2. ASSUME NEW g \in Linked', BucketOf(g)' = BucketOf(f)'
            PROVE  s[g] <= s[h] \/ s[f] <= s[g]
        <5>1. CASE g = c
          <6>1. s[c] \in Nat
            BY <1>2, <1>7 DEF Ranks
          <6> QED BY <2>1, <5>1, <6>1
        <5>2. CASE g \in Linked
          <6>1. BucketOf(g) = b
            BY <1>2, <1>4, <2>1, <4>2, <5>2
          <6>2. r[g] <= r[h] /\ s[g] = r[g] /\ s[h] = r[h]
            BY <1>5, <1>7, <3>3, <5>2, <6>1
          <6> QED BY <6>2
        <5> QED BY <1>3, <5>1, <5>2
      <4> QED BY <3>1, <3>3, <4>1, <4>2 DEF NextBelow, BucketOf
    <3> QED BY <3>2, <3>3
  <2>2. CASE f \in Linked
    <3>1. NextBelow(r, f) /\ next'[f] = next[f] /\ f # c
      BY <1>1, <1>2, <2>2 DEF TableInv, Lists
    <3>2. \A g \in Linked' : BucketOf(g)' = BucketOf(f)' =>
            (g \in Linked /\ BucketOf(g) = BucketOf(f) /\ s[g] = r[g]) \/ s[f] < s[g]
      BY <1>2, <1>3, <1>4, <1>7, <1>8, <2>2
    <3>3. s[f] \in Nat /\ \A g \in Linked' : s[g] \in Nat
      BY <1>2, <1>3, <1>7, <2>2 DEF Ranks
    <3>4. CASE next[f] = Nil
      BY <1>2, <1>7, <2>2, <3>1, <3>2, <3>3, <3>4 DEF NextBelow
    <3>5. CASE next[f] # Nil
      BY <1>2, <1>3, <1>4, <1>7, <2>2, <3>1, <3>2, <3>3, <3>5 DEF NextBelow
    <3> QED BY <3>4, <3>5
  <2> QED BY <1>3, <2>1, <2>2
<1>11. ASSUME NEW f \in Linked', NEW g \in Linked', BucketOf(f)' = BucketOf(g)', s[f] = s[g]
       PROVE  f = g
  <2>1. f \in Entries /\ g \in Entries /\ BucketOf(f) = BucketOf(g)
    BY <1>2, <1>3, <1>4, <1>11
  <2>2. s[f] \in Nat /\ s[g] \in Nat
    BY <2>1, <1>7 DEF Ranks
  <2> QED BY <1>2, <1>3, <1>7, <1>8, <1>11, <2>1, <2>2 DEF TableInv, Lists
<1>12. Lists(s)'
  BY <1>9, <1>10, <1>11 DEF Lists
<1>13. \A u \in Threads \ {t} : ~GoesByHead(u, b)
  BY DEF RecordWrite
<1>14. ASSUME NEW u \in Threads PROVE Reads(s, u)'
  <2>1. CASE u = t
    BY <1>1, <2>1 DEF Reads, Traversal, AtCompare, AtEntry
  <2>2. CASE u # t
    <3>1. /\ Reads(r, u)
          /\ pc'[u] = pc[u] /\ call'[u] = call[u] /\ old'[u] = old[u] /\ cursor'[u] = cursor[u]
      BY <1>1, <2>2 DEF TableInv, OthersSame
    <3>2. pc[u] \in {"find", "compare", "unlink"} =>
            /\ Hash[call[u].ptr] \in Buckets /\ call[u].ptr \in Addrs
            /\ call[u].ptr # new[t]
      BY AllocAssumption DEF SafeInv, TypeInv, WellCalled, Ownership, HasPtr
    <3>3. Traversal(s, u)'
      BY <1>1, <1>2, <1>3, <1>4, <1>7, <3>1, <3>2 DEF Reads, Traversal
    <3>4. WillUnlink(u) /\ InFront(u) => InFront(u)'
      <4> SUFFICES ASSUME WillUnlink(u), InFront(u) PROVE InFront(u)'
        OBVIOUS
      <4>1. Hash[call[u].ptr] \in Buckets /\ (cursor[u].pp = Nil => Hash[call[u].ptr] # b)
        BY <1>13, <2>2, <3>2 DEF GoesByHead, WillUnlink
      <4>2. cursor[u].pp = Nil => addr_hash'[Hash[call[u].ptr]] = addr_hash[Hash[call[u].ptr]]
        BY <1>1, <4>1 DEF SafeInv, TypeInv, TypeOK
      <4> QED BY <1>1, <1>2, <1>3, <1>4, <3>1, <4>2 DEF InFront
    <3>5. AtCompare(s, u)'
      <4> SUFFICES ASSUME pc[u] = "compare" PROVE AtCompare(s, u)'
        BY <3>1 DEF AtCompare
      <4>1. /\ cursor[u].e \in Linked /\ BucketOf(cursor[u].e) = Hash[call[u].ptr]
            /\ \A f \in Linked : entry[f].addr = call[u].ptr => r[f] <= r[cursor[u].e]
            /\ entry[cursor[u].e].addr = call[u].ptr => WillUnlink(u) /\ InFront(u)
        BY <3>1 DEF Reads, AtCompare, WillUnlink
      <4> QED BY <1>1, <1>2, <1>3, <1>4, <1>7, <3>1, <3>2, <3>4, <4>1 DEF AtCompare
    <3>6. AtEntry(u)'
      BY <1>1, <1>3, <3>1, <3>4 DEF Reads, AtEntry, WillUnlink
    <3> QED BY <3>3, <3>5, <3>6 DEF Reads
  <2> QED BY <2>1, <2>2
<1> QED BY <1>3, <1>7, <1>12, <1>14 DEF TableInv

(* The entry leaves the list it is in, and no other thread goes by it or   *)
(* by what led to it.                                                      *)
LEMMA UnlinkTable ==
  ASSUME SafeInv, NEW r \in Ranks, TableInv(r), NEW t \in Threads,
         Unlink(t), TypeInv', ~overtaken'
  PROVE  Linked' = Linked \ {cursor[t].e} /\ TableInv(r)'
<1> DEFINE b == Hash[call[t].ptr]
<1>1. PICK e, pp \in Entries \cup {Nil}, nxt \in Entries \cup {Nil} :
        e = cursor[t].e /\ pp = cursor[t].pp /\ nxt = cursor[t].nxt
  BY CursorType DEF SafeInv, TypeInv, TypeOK
<1>2. /\ OthersSame(t) /\ pc[t] = "unlink" /\ pc'[t] \in {"numa_free", "malloc"}
      /\ call[t].ptr \in Addrs /\ b \in Buckets
  <2>1. TypeInv /\ Hook(t)
    BY DEF SafeInv, Hook
  <2>2. OthersSame(t)
    BY <2>1, StepOthersSame
  <2>3. pc[t] = "unlink" /\ pc'[t] \in {"numa_free", "malloc"}
    BY <2>1 DEF TypeInv, TypeOK, Unlink, Goto
  <2>4. call[t].ptr \in Addrs /\ b \in Buckets
    BY <2>1, <2>3, AllocAssumption DEF TypeInv, WellCalled
  <2> QED BY <2>2, <2>3, <2>4
<1>3. /\ addr_hash' = [addr_hash EXCEPT ![b] = IF pp = Nil THEN nxt ELSE addr_hash[b]]
      /\ next' = [(IF pp = Nil THEN next ELSE [next EXCEPT ![pp] = nxt]) EXCEPT ![e] = Nil]
      /\ live' = live \ {e}
      /\ entry' = [entry EXCEPT ![e] = NoEntry]
  BY <1>1 DEF Unlink, HeadAfter, NextAfter, Released
<1>4. /\ e \in Linked /\ entry[e].addr = call[t].ptr /\ nxt = next[e] /\ BucketOf(e) = b
      /\ pp = Nil => addr_hash[b] = e
      /\ pp # Nil => pp \in Linked /\ BucketOf(pp) = b /\ next[pp] = e
  BY <1>1, <1>2 DEF TableInv, Reads, AtEntry, InFront, BucketOf
<1>5. /\ Linked \subseteq Entries /\ \A f \in Linked : r[f] \in Nat /\ f # Nil
      /\ Nil \notin Entries
  BY AllocAssumption DEF SafeInv, TypeInv, TypeOK, Linked, Ranks
<1>6. Linked' = Linked \ {e}
  BY <1>2, <1>3 DEF Linked, OthersSame
<1>7. /\ \A d \in Buckets : HeadFirst(r, d)
      /\ \A f \in Linked : NextBelow(r, f)
      /\ \A f, g \in Linked : BucketOf(f) = BucketOf(g) /\ r[f] = r[g] => f = g
  BY DEF TableInv, Lists
<1>8. pp # Nil => r[e] < r[pp] /\ pp # e
  BY <1>4, <1>5, <1>7 DEF NextBelow
<1>9. \A f \in Linked' :
        /\ entry'[f] = entry[f] /\ BucketOf(f)' = BucketOf(f)
        /\ f # pp => next'[f] = next[f]
        /\ f = pp => next'[f] = nxt
  BY <1>3, <1>4, <1>5, <1>6, <1>8 DEF BucketOf, SafeInv, TypeInv, TypeOK
<1>10. nxt # Nil => /\ nxt \in Linked' /\ BucketOf(nxt) = b /\ r[nxt] < r[e]
                    /\ \A f \in Linked : BucketOf(f) = b => r[f] <= r[nxt] \/ r[e] <= r[f]
  BY <1>4, <1>5, <1>6, <1>7 DEF NextBelow
<1>11. nxt = Nil => \A f \in Linked : BucketOf(f) = b => r[e] <= r[f]
  BY <1>4, <1>5, <1>6, <1>7 DEF NextBelow
<1>12. ASSUME NEW d \in Buckets PROVE HeadFirst(r, d)'
  <2>1. CASE d # b
    <3>1. addr_hash'[d] = addr_hash[d]
      BY <1>2, <1>3, <2>1 DEF SafeInv, TypeInv, TypeOK
    <3>2. addr_hash[d] # Nil => addr_hash[d] \in Linked'
      BY <1>4, <1>6, <1>7, <2>1 DEF HeadFirst
    <3> QED BY <1>4, <1>6, <1>7, <1>9, <2>1, <3>1, <3>2 DEF HeadFirst, BucketOf
  <2>2. CASE d = b /\ pp = Nil
    <3>1. addr_hash'[d] = nxt
      BY <1>2, <1>3, <2>2 DEF SafeInv, TypeInv, TypeOK
    <3>2. \A f \in Linked' : BucketOf(f) = b => r[f] < r[e]
      <4>1. \A f \in Linked : BucketOf(f) = b => r[f] <= r[e]
        BY <1>2, <1>4, <1>5, <1>7, <2>2 DEF HeadFirst
      <4> QED BY <1>4, <1>5, <1>6, <1>7, <4>1
    <3>3. CASE nxt = Nil
      BY <1>4, <1>5, <1>6, <1>9, <1>11, <2>2, <3>1, <3>2, <3>3 DEF HeadFirst
    <3>4. CASE nxt # Nil
      <4>1. nxt \in Linked' /\ BucketOf(nxt)' = b
        BY <1>9, <1>10, <3>4
      <4>2. \A f \in Linked' : BucketOf(f)' = b => r[f] <= r[nxt]
        BY <1>5, <1>6, <1>4, <1>9, <1>10, <3>2, <3>4
      <4> QED BY <2>2, <3>1, <3>4, <4>1, <4>2 DEF HeadFirst, BucketOf
    <3> QED BY <3>3, <3>4
  <2>3. CASE d = b /\ pp # Nil
    <3>1. addr_hash'[d] = addr_hash[d]
      BY <1>2, <1>3, <2>3 DEF SafeInv, TypeInv, TypeOK
    <3>2. HeadFirst(r, b) /\ addr_hash[d] # Nil /\ addr_hash[d] \in Linked
      BY <1>2, <1>4, <1>7, <2>3 DEF HeadFirst
    <3>3. r[pp] <= r[addr_hash[d]]
      BY <1>4, <2>3, <3>2 DEF HeadFirst
    <3>4. addr_hash[d] \in Linked'
      BY <1>4, <1>5, <1>6, <1>8, <2>3, <3>2, <3>3
    <3> QED BY <1>4, <1>6, <1>9, <2>3, <3>1, <3>2, <3>4 DEF HeadFirst, BucketOf
  <2> QED BY <2>1, <2>2, <2>3
<1>13. ASSUME NEW f \in Linked' PROVE NextBelow(r, f)'
  <2>1. f \in Linked /\ f # e /\ NextBelow(r, f)
    BY <1>6, <1>7
  <2>2. CASE f # pp
    <3>1. next'[f] = next[f]
      BY <1>9, <2>2
    <3>2. next[f] # e
      <4> SUFFICES ASSUME next[f] = e PROVE FALSE
        OBVIOUS
      <4>1. r[e] < r[f] /\ BucketOf(f) = b
        BY <1>4, <1>5, <2>1 DEF NextBelow
      <4>2. CASE pp = Nil
        <5>1. r[f] <= r[e]
          BY <1>2, <1>4, <1>5, <1>7, <2>1, <4>1, <4>2 DEF HeadFirst
        <5> QED BY <1>4, <1>5, <2>1, <4>1, <5>1
      <4>3. CASE pp # Nil
        <5>1. r[f] <= r[e] \/ r[pp] <= r[f]
          BY <1>4, <1>5, <1>7, <2>1, <4>1, <4>3 DEF NextBelow
        <5>2. r[pp] <= r[e] \/ r[f] <= r[pp]
          BY <1>4, <1>5, <2>1, <4>1, <4>3 DEF NextBelow
        <5>3. r[f] # r[pp]
          BY <1>4, <1>7, <2>1, <2>2, <4>1, <4>3
        <5> QED BY <1>4, <1>5, <1>8, <2>1, <4>1, <4>3, <5>1, <5>2, <5>3
      <4> QED BY <4>2, <4>3
    <3>3. next[f] # Nil =>
            next[f] \in Linked' /\ Hash[entry'[next[f]].addr] = Hash[entry'[f].addr]
      BY <1>6, <1>9, <2>1, <3>2 DEF NextBelow, BucketOf
    <3> QED BY <1>6, <1>9, <2>1, <3>1, <3>3 DEF NextBelow, BucketOf
  <2>3. CASE f = pp
    <3>1. next'[f] = nxt /\ BucketOf(f) = b /\ next[f] = e
      BY <1>4, <1>5, <1>9, <2>1, <2>3
    <3>2. \A g \in Linked' : BucketOf(g)' = b =>
            g \in Linked /\ BucketOf(g) = b /\ g # e /\ r[g] # r[e] /\ (r[g] <= r[e] \/ r[f] <= r[g])
      BY <1>4, <1>5, <1>6, <1>7, <1>9, <2>1, <3>1 DEF NextBelow
    <3>3. BucketOf(f)' = b
      BY <1>9, <3>1
    <3>4. CASE nxt = Nil
      <4>1. \A g \in Linked' : BucketOf(g)' = b => r[f] <= r[g]
        BY <1>4, <1>5, <1>11, <2>1, <3>2, <3>4
      <4> QED BY <3>1, <3>3, <3>4, <4>1 DEF NextBelow
    <3>5. CASE nxt # Nil
      <4>1. nxt \in Linked' /\ BucketOf(nxt)' = b /\ r[nxt] < r[f]
        BY <1>4, <1>5, <1>6, <1>8, <1>9, <1>10, <2>1, <2>3, <3>5
      <4>2. \A g \in Linked' : BucketOf(g)' = b => r[g] <= r[nxt] \/ r[f] <= r[g]
        BY <1>4, <1>5, <1>10, <2>1, <3>2, <3>5
      <4> QED BY <3>1, <3>3, <3>5, <4>1, <4>2 DEF NextBelow, BucketOf
    <3> QED BY <3>4, <3>5
  <2> QED BY <2>2, <2>3
<1>14. Lists(r)'
  BY <1>6, <1>7, <1>9, <1>12, <1>13 DEF Lists
<1>15. \A u \in Threads \ {t} :
         /\ pp = Nil => ~GoesByHead(u, b)
         /\ pp # Nil => ~GoesByNext(u, pp)
         /\ ~GoesByEntry(u, e)
  BY <1>1 DEF Unlink, UnlinkOvertakes
<1>16. ASSUME NEW u \in Threads PROVE Reads(r, u)'
  <2>1. CASE u = t
    BY <1>2, <2>1 DEF Reads, Traversal, AtCompare, AtEntry
  <2>2. CASE u # t
    <3>1. /\ Reads(r, u)
          /\ pc'[u] = pc[u] /\ call'[u] = call[u] /\ old'[u] = old[u] /\ cursor'[u] = cursor[u]
      BY <1>2, <2>2 DEF TableInv, OthersSame
    <3>2. pc[u] \in {"find", "compare", "unlink"} =>
            /\ Hash[call[u].ptr] \in Buckets /\ call[u].ptr # call[t].ptr
      BY <1>2, <2>2, AllocAssumption DEF SafeInv, TypeInv, WellCalled, Ownership, HasPtr
    <3>3. Traversal(r, u)'
      <4> SUFFICES ASSUME pc[u] = "find", cursor[u].pp # Nil PROVE Traversal(r, u)'
        BY <3>1 DEF Traversal
      <4>1. cursor[u].pp # e
        BY <1>15, <2>2 DEF GoesByEntry
      <4>2. /\ cursor[u].pp \in Linked /\ BucketOf(cursor[u].pp) = Hash[call[u].ptr]
            /\ \A f \in Linked : entry[f].addr = call[u].ptr => r[f] < r[cursor[u].pp]
        BY <3>1 DEF Reads, Traversal
      <4>3. cursor[u].pp \in Linked' /\ BucketOf(cursor[u].pp)' = Hash[call[u].ptr]
        BY <1>6, <1>9, <3>1, <4>1, <4>2 DEF BucketOf
      <4>4. \A f \in Linked' : entry'[f].addr = call[u].ptr => r[f] < r[cursor[u].pp]
        BY <1>6, <1>9, <4>2
      <4> QED BY <3>1, <4>3, <4>4 DEF Traversal, BucketOf
    <3>4. WillUnlink(u) /\ InFront(u) /\ cursor[u].e # e => InFront(u)'
      <4> SUFFICES ASSUME WillUnlink(u), InFront(u), cursor[u].e # e PROVE InFront(u)'
        OBVIOUS
      <4>1. Hash[call[u].ptr] \in Buckets
        BY <3>2 DEF WillUnlink
      <4>2. CASE cursor[u].pp = Nil
        <5>1. addr_hash'[Hash[call[u].ptr]] = addr_hash[Hash[call[u].ptr]]
          BY <1>2, <1>3, <1>15, <2>2, <4>1, <4>2 DEF GoesByHead, SafeInv, TypeInv, TypeOK
        <5> QED BY <3>1, <4>2, <5>1 DEF InFront
      <4>3. CASE cursor[u].pp # Nil
        <5>1. /\ cursor[u].pp \in Linked /\ BucketOf(cursor[u].pp) = Hash[call[u].ptr]
              /\ next[cursor[u].pp] = cursor[u].e
          BY <4>3 DEF InFront
        <5>2. cursor[u].pp # e
          BY <1>15, <2>2 DEF GoesByEntry
        <5>3. cursor[u].pp # pp
          BY <1>4, <4>3, <5>1
        <5> QED BY <1>6, <1>9, <3>1, <4>3, <5>1, <5>2, <5>3 DEF InFront
      <4> QED BY <4>2, <4>3
    <3>5. AtCompare(r, u)'
      <4> SUFFICES ASSUME pc[u] = "compare" PROVE AtCompare(r, u)'
        BY <3>1 DEF AtCompare
      <4>1. /\ cursor[u].e \in Linked /\ BucketOf(cursor[u].e) = Hash[call[u].ptr]
            /\ \A f \in Linked : entry[f].addr = call[u].ptr => r[f] <= r[cursor[u].e]
            /\ entry[cursor[u].e].addr = call[u].ptr => WillUnlink(u) /\ InFront(u)
        BY <3>1 DEF Reads, AtCompare, WillUnlink
      <4>2. cursor[u].e # e
        BY <1>15, <2>2 DEF GoesByEntry
      <4> QED BY <1>6, <1>9, <3>1, <3>4, <4>1, <4>2 DEF AtCompare
    <3>6. AtEntry(u)'
      <4> SUFFICES ASSUME pc[u] = "unlink" PROVE AtEntry(u)'
        BY <3>1 DEF AtEntry
      <4>1. /\ cursor[u].e \in Linked /\ entry[cursor[u].e].addr = call[u].ptr
            /\ cursor[u].nxt = next[cursor[u].e] /\ old[u] = entry[cursor[u].e].size
            /\ InFront(u) /\ WillUnlink(u)
        BY <3>1 DEF Reads, AtEntry, WillUnlink
      <4>2. cursor[u].e # e
        BY <1>4, <3>2, <4>1
      <4>3. cursor[u].e # pp
        BY <1>5, <1>15, <2>2, <4>1 DEF GoesByNext
      <4> QED BY <1>6, <1>9, <3>1, <3>4, <4>1, <4>2, <4>3 DEF AtEntry
    <3> QED BY <3>3, <3>5, <3>6 DEF Reads
  <2> QED BY <2>1, <2>2
<1> QED BY <1>1, <1>6, <1>14, <1>16 DEF TableInv

-----------------------------------------------------------------------------
(* The blocks. *)

(* A step of t takes a free block, or gives back or resizes the block it   *)
(* was called with; otherwise it leaves the heap alone.                    *)
LEMMA HeapStep ==
  ASSUME TypeInv, NEW t \in Threads, App(t) \/ Hook(t)
  PROVE  \/ block' = block
         \/ \E a \in Addrs, by \in {"numa", "libc"} :
              /\ block[a].by = "free"
              /\ block' = [block EXCEPT ![a] = [by |-> by, size |-> call[t].size]]
         \/ pc[t] = "libc_free" /\ block' = [block EXCEPT ![call[t].ptr] = Free]
         \/ pc[t] = "numa_free" /\ block' = [block EXCEPT ![call[t].ptr] = Free]
         \/ /\ pc[t] = "libc_realloc"
            /\ \E a \in Addrs :
                 /\ block[a].by = "free" \/ a = call[t].ptr
                 /\ block' = [block EXCEPT ![call[t].ptr] = Free,
                                ![a] = [by |-> "libc", size |-> call[t].size]]
<1> USE DEF heap, Goto, Return, Begin, Free
<1>1. CASE App(t)
  BY <1>1 DEF App, CallMalloc, CallFree, CallRealloc
<1>2. CASE NumaAlloc(t) \/ LibcAlloc(t)
  BY <1>2 DEF NumaAlloc, LibcAlloc, Take
<1>3. CASE LibcFree(t) \/ NumaFree(t)
  BY <1>3 DEF LibcFree, NumaFree
<1>4. CASE LibcRealloc(t)
  BY <1>4 DEF LibcRealloc
<1>5. CASE MallocDecide(t) \/ MallocReturn(t) \/ RecordPrepare(t) \/ RecordWrite(t)
  BY <1>5 DEF MallocDecide, MallocReturn, RecordPrepare, RecordWrite
<1>6. CASE Find(t) \/ Compare(t) \/ Unlink(t) \/ FreeDecide(t) \/ ReallocCopy(t)
           \/ ReallocFail(t)
  BY <1>6 DEF Find, FindMiss, FindEntry, Compare, CompareNext, CompareHit, Unlink, FreeDecide, ReallocCopy, ReallocFail
<1> QED BY <1>1, <1>2, <1>3, <1>4, <1>5, <1>6 DEF Hook

(* The blocks of the others, and those in the map, are not touched.        *)
LEMMA BlocksKept ==
  ASSUME SafeInv, NEW t \in Threads, App(t) \/ Hook(t)
  PROVE  /\ \A u \in Threads \ {t} :
              /\ HasPtr(u) => block'[call[u].ptr] = block[call[u].ptr]
              /\ new[u] # Nil => block'[new[u]] = block[new[u]]
         /\ \A e \in Linked : block'[entry[e].addr] = block[entry[e].addr]
         /\ \A a \in held : block'[a] = block[a]
<1> DEFINE p == call[t].ptr
<1>1. TypeInv /\ TypeOK /\ WellCalled(t) /\ Ownership /\ Knows(t) /\ EntriesAreBlocks
  BY DEF SafeInv, TypeInv
<1>2. ASSUME NEW a \in Addrs, block[a].by # "free", a # p
      PROVE  block'[a] = block[a]
  BY <1>1, <1>2, HeapStep DEF TypeOK
<1>3. ASSUME NEW u \in Threads \ {t} PROVE
        /\ HasPtr(u) => block'[call[u].ptr] = block[call[u].ptr]
        /\ new[u] # Nil => block'[new[u]] = block[new[u]]
  <2>1. CASE HasPtr(t)
    <3>1. HasPtr(u) => call[u].ptr # p /\ call[u].ptr \in Addrs /\ block[call[u].ptr].by # "free"
      BY <1>1, <2>1 DEF Ownership, SafeInv, TypeInv, WellCalled, HasPtr
    <3>2. new[u] # Nil => new[u] # p /\ new[u] \in Addrs /\ block[new[u]].by # "free"
      BY <1>1, <2>1 DEF Ownership, TypeOK
    <3> QED BY <1>2, <3>1, <3>2
  <2>2. CASE ~HasPtr(t)
    <3>1. pc[t] \notin {"libc_free", "numa_free", "libc_realloc"}
      BY <1>1, <2>2 DEF WellCalled, HasPtr
    <3>2. ASSUME NEW a \in Addrs, block[a].by # "free" PROVE block'[a] = block[a]
      BY <1>1, <3>1, <3>2, HeapStep DEF TypeOK
    <3>3. HasPtr(u) => call[u].ptr \in Addrs /\ block[call[u].ptr].by # "free"
      BY <1>1 DEF Ownership, SafeInv, TypeInv, WellCalled, HasPtr
    <3>4. new[u] # Nil => new[u] \in Addrs /\ block[new[u]].by # "free"
      BY <1>1 DEF Ownership, TypeOK
    <3> QED BY <3>2, <3>3, <3>4
  <2> QED BY <2>1, <2>2
<1>4. ASSUME NEW a \in Addrs, block[a].by = "numa",
             pc[t] \in {"libc_free", "numa_free", "libc_realloc"} => a # p
      PROVE  block'[a] = block[a]
  BY <1>1, <1>4, HeapStep DEF TypeOK
<1>5. ASSUME NEW e \in Linked PROVE block'[entry[e].addr] = block[entry[e].addr]
  <2>1. entry[e].addr \in Addrs /\ block[entry[e].addr] = [by |-> "numa", size |-> entry[e].size]
    BY <1>1, <1>5 DEF EntriesAreBlocks
  <2>2. pc[t] \in {"libc_free", "numa_free", "libc_realloc"} => entry[e].addr # p
    BY <1>1 DEF Knows, Removed
  <2> QED BY <1>4, <2>1, <2>2
<1>6. ASSUME NEW a \in held PROVE block'[a] = block[a]
  <2>1. a \in Addrs /\ block[a].by # "free"
    BY <1>1 DEF TypeOK, Ownership
  <2>2. pc[t] \in {"libc_free", "numa_free", "libc_realloc"} => a # p
    BY <1>1 DEF WellCalled, Ownership, HasPtr
  <2> QED BY <1>1, <2>1, <2>2, HeapStep DEF TypeOK
<1> QED BY <1>3, <1>5, <1>6

(* No step gives a block a second owner. *)
LEMMA StepOwnership ==
  ASSUME SafeInv, NEW t \in Threads, App(t) \/ Hook(t), TypeInv'
  PROVE  Ownership'
<1>1. TypeOK /\ WellCalled(t) /\ Ownership /\ OthersSame(t) /\ TypeOK'
  BY StepOthersSame DEF SafeInv, TypeInv
<1>2. ASSUME UNCHANGED <<block, held, call, new>> PROVE Ownership'
  BY <1>1, <1>2 DEF Ownership, HasPtr
<1>3. CASE MallocDecide(t) \/ RecordPrepare(t) \/ RecordWrite(t) \/ Find(t)
           \/ Compare(t) \/ Unlink(t) \/ FreeDecide(t) \/ ReallocCopy(t)
  BY <1>2, <1>3 DEF MallocDecide, RecordPrepare, RecordWrite, Find, FindMiss, FindEntry,
     Compare, CompareNext, CompareHit, Unlink, FreeDecide, ReallocCopy, heap
<1>4. ASSUME NEW p \in held, held' = held \ {p}, UNCHANGED <<block, new>>,
              HasPtr(t)', call'[t].ptr = p
       PROVE  Ownership'
  <2>1. /\ \A u \in Threads \ {t} : call'[u] = call[u] /\ (HasPtr(u)' <=> HasPtr(u))
        /\ block[p].by # "free"
        /\ \A u \in Threads : new[u] # p /\ (HasPtr(u) => call[u].ptr # p)
    BY <1>1, AllocAssumption DEF Ownership, OthersSame, HasPtr, TypeOK
  <2>2. \A u \in Threads : HasPtr(u)' =>
          call'[u].ptr \notin held' /\ block'[call'[u].ptr].by # "free"
    BY <1>1, <1>4, <2>1 DEF Ownership
  <2>3. \A u, v \in Threads :
          HasPtr(u)' /\ HasPtr(v)' /\ call'[u].ptr = call'[v].ptr => u = v
    BY <1>1, <1>4, <2>1 DEF Ownership
  <2>4. \A u, v \in Threads : HasPtr(v)' => new'[u] # call'[v].ptr
    BY <1>1, <1>4, <2>1 DEF Ownership
  <2> QED BY <1>1, <1>4, <2>2, <2>3, <2>4 DEF Ownership
<1>5. CASE App(t)
  <2>1. ASSUME NEW sz \in Sizes, CallMalloc(t, sz) PROVE Ownership'
    BY <1>1, <2>1 DEF CallMalloc, Begin, Ownership, HasPtr, OthersSame, TypeOK
  <2>2. ASSUME NEW p \in Addrs, CallFree(t, p) PROVE Ownership'
    <3>1. /\ held' = held \ {p} /\ p \in held /\ UNCHANGED <<block, new>>
          /\ call'[t] = [op |-> "free", ptr |-> p, size |-> 0]
      BY <1>1, <2>2 DEF CallFree, Begin, TypeOK
    <3> QED BY <1>4, <3>1 DEF HasPtr
  <2>3. ASSUME NEW p \in Addrs \cup {Nil}, NEW sz \in Sizes, CallRealloc(t, p, sz)
        PROVE  Ownership'
    <3>1. CASE p \in held /\ Begin(t, "realloc", p, sz, "find")
      <4>1. /\ held' = held \ {p} /\ p \in held /\ UNCHANGED <<block, new>>
            /\ call'[t] = [op |-> "realloc", ptr |-> p, size |-> sz]
        BY <1>1, <2>3, <3>1 DEF CallRealloc, Begin, TypeOK
      <4> QED BY <1>4, <4>1 DEF HasPtr
    <3>2. CASE Begin(t, "malloc", Nil, sz, "malloc")
      BY <1>1, <2>3, <3>2 DEF CallRealloc, Begin, Ownership, HasPtr, TypeOK
    <3> QED BY <2>3, <3>1, <3>2 DEF CallRealloc
  <2> QED BY <1>5, <2>1, <2>2, <2>3 DEF App
<1>6. ASSUME NEW a \in Addrs, NEW by \in {"numa", "libc"}, Take(t, a, by),
             UNCHANGED <<held, call>>
      PROVE  Ownership'
  <2>1. /\ block[a].by = "free" /\ block'[a].by # "free" /\ new' = [new EXCEPT ![t] = a]
        /\ \A c \in Addrs \ {a} : block'[c] = block[c]
    BY <1>1, <1>6 DEF Take, Free, TypeOK
  <2>2. a \notin held /\ \A u \in Threads : new[u] # a /\ (HasPtr(u) => call[u].ptr # a)
    BY <1>1, <2>1, AllocAssumption DEF Ownership
  <2>3. /\ \A u \in Threads : HasPtr(u) => call[u].ptr \in Addrs
        /\ \A u \in Threads : new[u] # Nil => new[u] \in Addrs
    BY DEF SafeInv, TypeInv, TypeOK, WellCalled, HasPtr
  <2> QED BY SMTT(30), <1>1, <1>6, <2>1, <2>2, <2>3 DEF Ownership, HasPtr, TypeOK
<1>7. CASE NumaAlloc(t) \/ LibcAlloc(t)
  BY <1>2, <1>6, <1>7 DEF NumaAlloc, LibcAlloc
<1>8. \A u \in Threads : /\ HasPtr(u) => call[u].ptr \in Addrs
                         /\ new[u] # Nil => new[u] \in Addrs
  BY DEF SafeInv, TypeInv, TypeOK, WellCalled, HasPtr
<1>9. ASSUME NEW from, NEW gained \in SUBSET Addrs, Return(t, from, gained),
             \A a \in gained : /\ block'[a].by # "free"
                               /\ \A u \in Threads \ {t} : new[u] # a /\ (HasPtr(u) => call[u].ptr # a)
      PROVE  Ownership'
  <2>1. /\ held' = held \cup gained /\ new'[t] = Nil /\ ~HasPtr(t)'
        /\ \A u \in Threads \ {t} : call'[u] = call[u] /\ new'[u] = new[u]
    BY <1>1, <1>9 DEF Return, TypeOK, HasPtr, NoCall
  <2>2. \A a \in held : block'[a].by # "free"
    BY <1>1, BlocksKept DEF Ownership
  <2>3. \A u \in Threads \ {t} :
          /\ HasPtr(u) => call[u].ptr \notin held' /\ block'[call[u].ptr].by # "free"
          /\ new[u] # Nil => new[u] \notin held' /\ block'[new[u]].by # "free"
    BY <1>1, <1>9, <2>1, BlocksKept DEF Ownership
  <2>4. /\ \A u \in Threads : HasPtr(u)' => u # t /\ HasPtr(u)
        /\ \A u \in Threads : new'[u] # Nil => u # t /\ new[u] # Nil
    BY <1>1, <2>1 DEF HasPtr
  <2>5. \A a \in held' : block'[a].by # "free"
    BY <1>9, <2>1, <2>2
  <2>6. /\ \A u, v \in Threads :
             HasPtr(u)' /\ HasPtr(v)' /\ call'[u].ptr = call'[v].ptr => u = v
        /\ \A u, v \in Threads : new'[u] # Nil /\ new'[u] = new'[v] => u = v
    BY <1>1, <2>1, <2>4 DEF Ownership
  <2>7. \A u, v \in Threads : HasPtr(v)' => new'[u] # call'[v].ptr
    BY <1>1, <1>8, <2>1, <2>4, AllocAssumption DEF Ownership
  <2> QED BY <2>1, <2>3, <2>4, <2>5, <2>6, <2>7 DEF Ownership
<1>10. CASE MallocReturn(t)
  <2>1. Return(t, "done", {new[t]} \ {Nil}) /\ block' = block
    BY <1>10 DEF MallocReturn
  <2>2. {new[t]} \ {Nil} \in SUBSET Addrs
    BY <1>1 DEF TypeOK
  <2> QED BY <1>1, <1>9, <2>1, <2>2 DEF Ownership
<1>11. CASE LibcFree(t)
  BY <1>9, <1>11 DEF LibcFree
<1>12. CASE ReallocFail(t)
  <2>1. /\ Return(t, "done", {call[t].ptr}) /\ block' = block /\ HasPtr(t)
    BY <1>12 DEF ReallocFail, HasPtr
  <2> QED BY <1>1, <1>8, <1>9, <2>1 DEF Ownership
<1>13. CASE NumaFree(t)
  <2>1. /\ Return(t, "numa_free", IF call[t].op = "realloc" THEN {new[t]} ELSE {})
        /\ block' = [block EXCEPT ![call[t].ptr] = Free] /\ pc[t] = "numa_free" /\ HasPtr(t)
    BY <1>1, <1>13 DEF NumaFree, Return, Goto, WellCalled, HasPtr
  <2>2. call[t].op = "realloc" => /\ new[t] \in Addrs /\ new[t] # Nil /\ new[t] # call[t].ptr
                                  /\ block'[new[t]] = block[new[t]]
    BY <1>1, <2>1, AllocAssumption DEF WellCalled, Ownership, TypeOK
  <2> QED BY <1>1, <1>9, <2>1, <2>2 DEF Ownership
<1>14. CASE LibcRealloc(t)
  <2>1. HasPtr(t) /\ call[t].ptr \in Addrs /\ block[call[t].ptr].by # "free"
    BY <1>1, <1>8, <1>14 DEF LibcRealloc, Return, Goto, WellCalled, HasPtr, Ownership
  <2>2. ASSUME NEW a \in Addrs, block[a] = Free \/ a = call[t].ptr,
               Return(t, "libc_realloc", {a}),
               block' = [block EXCEPT ![call[t].ptr] = Free,
                           ![a] = [by |-> "libc", size |-> call[t].size]]
        PROVE  Ownership'
    <3>1. block'[a].by = "libc"
      BY <1>1, <2>2 DEF TypeOK
    <3>2. \A u \in Threads \ {t} : new[u] # a /\ (HasPtr(u) => call[u].ptr # a)
      BY <1>1, <2>1, <2>2, AllocAssumption DEF Ownership, Free
    <3> QED BY <1>9, <2>2, <3>1, <3>2
  <2>3. ASSUME Return(t, "libc_realloc", {call[t].ptr}), block' = block PROVE Ownership'
    BY <1>1, <1>9, <2>1, <2>3 DEF Ownership
  <2> QED BY <1>14, <2>2, <2>3 DEF LibcRealloc
<1> QED
  BY <1>3, <1>5, <1>7, <1>10, <1>11, <1>12, <1>13, <1>14 DEF Hook

(* The flag is up before the first routed block exists. *)
LEMMA StepFlagRaised ==
  ASSUME SafeInv, NEW t \in Threads, App(t) \/ Hook(t), TypeInv'
  PROVE  FlagRaised'
<1>1. TypeOK /\ FlagRaised /\ Knows(t) /\ OthersSame(t) /\ TypeOK'
  BY StepOthersSame DEF SafeInv, TypeInv
<1>2. ASSUME UNCHANGED block, routing_ever_used => routing_ever_used',
             pc'[t] = "numa_alloc" => routing_ever_used'
      PROVE  FlagRaised'
  BY <1>1, <1>2 DEF FlagRaised, OthersSame
<1>3. CASE App(t)
  BY <1>1, <1>2, <1>3 DEF App, CallMalloc, CallFree, CallRealloc, Begin, Goto, flags, TypeOK
<1>4. CASE MallocDecide(t)
  BY <1>1, <1>2, <1>4 DEF MallocDecide, Goto, FlagAfter, heap, TypeOK
<1>5. CASE NumaAlloc(t) \/ LibcAlloc(t)
  <2>1. ASSUME NEW a \in Addrs, Take(t, a, "numa"), pc[t] = "numa_alloc"
        PROVE  routing_ever_used
    BY <1>1, <2>1 DEF FlagRaised
  <2>2. routing_ever_used' = routing_ever_used /\ pc'[t] # "numa_alloc"
    BY <1>1, <1>5 DEF NumaAlloc, LibcAlloc, Goto, flags, TypeOK
  <2>3. \A a \in Addrs : block'[a].by = "numa" /\ block'[a] # block[a] => routing_ever_used
    BY <1>1, <1>5, <2>1 DEF NumaAlloc, LibcAlloc, Take, Goto, TypeOK
  <2> QED BY <1>1, <2>2, <2>3 DEF FlagRaised, OthersSame
<1>6. CASE MallocReturn(t) \/ FreeDecide(t) \/ ReallocCopy(t) \/ ReallocFail(t)
  BY <1>1, <1>2, <1>6 DEF MallocReturn, FreeDecide, ReallocCopy, ReallocFail, Return, Goto,
     heap, flags, TypeOK
<1>7. CASE RecordPrepare(t) \/ RecordWrite(t) \/ Find(t) \/ Compare(t) \/ Unlink(t)
  BY <1>1, <1>2, <1>7 DEF RecordPrepare, RecordWrite, Find, FindMiss, FindEntry, Compare,
     CompareNext, CompareHit, Unlink, Goto, heap, flags, TypeOK
<1>8. CASE LibcFree(t) \/ NumaFree(t) \/ LibcRealloc(t)
  <2>1. pc'[t] = "idle" /\ routing_ever_used' = routing_ever_used
    BY <1>1, <1>8 DEF LibcFree, NumaFree, LibcRealloc, Return, Goto, flags, TypeOK
  <2>2. ASSUME NEW a \in Addrs, block'[a].by = "numa" PROVE block[a].by = "numa"
    <3>1. CASE LibcFree(t) \/ NumaFree(t)
      BY <1>1, <2>2, <3>1 DEF LibcFree, NumaFree, Free, TypeOK
    <3>2. CASE LibcRealloc(t)
      <4>1. ASSUME NEW c \in Addrs,
                   block' = [block EXCEPT ![call[t].ptr] = Free,
                               ![c] = [by |-> "libc", size |-> call[t].size]]
            PROVE  block'[a].by = "libc" \/ block'[a] = Free \/ block'[a] = block[a]
        BY <1>1, <4>1 DEF TypeOK
      <4>2. block'[a].by = "libc" \/ block'[a] = Free \/ block'[a] = block[a]
        BY <3>2, <4>1 DEF LibcRealloc
      <4> QED BY <2>2, <4>2 DEF Free
    <3> QED BY <1>8, <3>1, <3>2
  <2> QED BY <1>1, <2>1, <2>2 DEF FlagRaised, OthersSame
<1> QED BY <1>3, <1>4, <1>5, <1>6, <1>7, <1>8 DEF Hook

-----------------------------------------------------------------------------
(* The map. *)

(* Two threads never fill the same new entry. *)
LEMMA StepOneCellEach ==
  ASSUME SafeInv, NEW t \in Threads, App(t) \/ Hook(t), TypeInv'
  PROVE  OneCellEach'
<1>1. TypeOK /\ OneCellEach /\ OthersSame(t) /\ TypeOK'
  BY StepOthersSame DEF SafeInv, TypeInv
<1>2. CASE pc'[t] # "rec_write"
  BY <1>1, <1>2 DEF OneCellEach, OthersSame
<1>3. CASE pc'[t] = "rec_write"
  <2>1. RecordPrepare(t)
    BY <1>1, <1>3 DEF App, CallMalloc, CallFree, CallRealloc, Begin, Hook, MallocDecide,
       NumaAlloc, LibcAlloc, MallocReturn, RecordWrite, Find, FindMiss, FindEntry, Compare,
       CompareNext, CompareHit, Unlink, FreeDecide, LibcFree, ReallocCopy, ReallocFail,
       NumaFree, LibcRealloc, Return, Goto, TypeOK
  <2>2. cursor'[t].e \notin live
    BY <1>1, <1>3, <2>1 DEF RecordPrepare, Goto, TypeOK
  <2>3. \A u \in Threads : pc[u] = "rec_write" => cursor[u].e \in live
    BY DEF SafeInv, Knows
  <2> QED BY <1>1, <2>2, <2>3 DEF OneCellEach, OthersSame
<1> QED BY <1>2, <1>3

(* What a step does to the map as a whole. *)
LEMMA TableStep ==
  ASSUME SafeInv, NEW r \in Ranks, TableInv(r),
         NEW t \in Threads, App(t) \/ Hook(t), TypeInv', ~overtaken'
  PROVE  /\ pc[t] \notin {"rec_write", "unlink"} => Linked' = Linked
         /\ pc[t] = "rec_write" => Linked' = Linked \cup {cursor[t].e}
         /\ pc[t] = "unlink" => Linked' = Linked \ {cursor[t].e}
         /\ \A e \in Linked' : entry'[e] = entry[e]
         /\ \E s \in Ranks : TableInv(s)'
<1>1. TypeInv /\ TypeOK /\ OthersSame(t) /\ Knows(t) /\ Linked \subseteq Entries
      /\ Linked \subseteq live
  BY StepOthersSame DEF SafeInv, TypeInv, TypeOK, Linked
<1>2. CASE RecordPrepare(t) /\ pc'[t] = "rec_write"
  <2>1. pc[t] = "record" /\ Linked' = Linked /\ TableInv(r)'
    BY <1>2, PrepareTable DEF RecordPrepare
  <2>2. PICK e \in Entries \ live : entry' = [entry EXCEPT ![e] = NewEntry(t)]
    BY <1>1, <1>2 DEF RecordPrepare, Goto, TypeOK
  <2>3. \A f \in Linked' : entry'[f] = entry[f]
    BY <1>1, <2>1, <2>2 DEF TypeOK
  <2> QED BY <2>1, <2>3
<1>3. CASE RecordWrite(t)
  <2>1. pc[t] = "rec_write" /\ entry' = entry
    BY <1>3 DEF RecordWrite, Goto
  <2> QED BY <1>3, <2>1, WriteTable
<1>4. CASE Unlink(t)
  <2>1. pc[t] = "unlink" /\ entry' = [entry EXCEPT ![cursor[t].e] = NoEntry]
    BY <1>4 DEF Unlink, Goto
  <2>2. Linked' = Linked \ {cursor[t].e} /\ TableInv(r)'
    BY <1>4, UnlinkTable
  <2> QED BY <1>1, <2>1, <2>2 DEF TypeOK
<1>5. CASE Find(t) \/ Compare(t)
  <2>1. UNCHANGED table /\ pc[t] \in {"find", "compare"} /\ pc'[t] # "rec_write" /\ TableInv(r)'
    BY <1>1, <1>5, FindTable, CompareTable DEF Find, FindMiss, FindEntry, Compare, CompareNext,
       CompareHit, Goto, TypeOK
  <2> QED BY <1>1, <2>1, TableFrame DEF table, TypeInv
<1>6. CASE /\ ~(RecordPrepare(t) /\ pc'[t] = "rec_write")
           /\ ~(RecordWrite(t) \/ Find(t) \/ Compare(t) \/ Unlink(t))
  <2>1. /\ UNCHANGED table /\ pc[t] \notin {"rec_write", "unlink"}
        /\ pc'[t] \notin {"rec_write", "compare", "unlink"}
        /\ pc'[t] = "find" => cursor'[t].pp = Nil
    <3>1. CASE App(t)
      BY <1>1, <3>1 DEF App, CallMalloc, CallFree, CallRealloc, Begin, Goto, TypeOK, Knows
    <3>2. CASE MallocDecide(t) \/ NumaAlloc(t) \/ LibcAlloc(t) \/ MallocReturn(t)
      BY <1>1, <3>2 DEF MallocDecide, NumaAlloc, LibcAlloc, MallocReturn, Return, Goto, TypeOK
    <3>3. CASE FreeDecide(t) \/ LibcFree(t) \/ ReallocCopy(t)
      BY <1>1, <3>3 DEF FreeDecide, LibcFree, ReallocCopy, Return, Goto, TypeOK, Knows
    <3>4. CASE ReallocFail(t) \/ NumaFree(t) \/ LibcRealloc(t)
      BY <1>1, <3>4 DEF ReallocFail, NumaFree, LibcRealloc, Return, Goto, TypeOK
    <3>5. CASE RecordPrepare(t)
      BY <1>1, <1>6, <3>5 DEF RecordPrepare, Goto, TypeOK, table
    <3> QED BY <1>6, <3>1, <3>2, <3>3, <3>4, <3>5 DEF Hook
  <2>2. Linked' = Linked
    BY <1>1, <2>1, TableFrame DEF TypeInv
  <2>3. TableInv(r)'
    BY <1>1, <2>1, TableInvFrame DEF Reads, Traversal, AtCompare, AtEntry
  <2> QED BY <2>1, <2>2, <2>3 DEF table
<1> QED BY <1>2, <1>3, <1>4, <1>5, <1>6

(* An entry in the map describes a routed block, and is its only entry. *)
LEMMA StepEntriesAreBlocks ==
  ASSUME SafeInv, NEW r \in Ranks, TableInv(r),
         NEW t \in Threads, App(t) \/ Hook(t), TypeInv', ~overtaken'
  PROVE  EntriesAreBlocks'
<1>1. EntriesAreBlocks /\ Knows(t) /\ TypeOK /\ WellCalled(t)
  BY DEF SafeInv, TypeInv
<1>2. \A e \in Linked' : entry'[e] = entry[e]
  BY TableStep
<1>3. ASSUME NEW e \in Linked, entry'[e] = entry[e]
      PROVE  /\ entry'[e].addr \in Addrs
             /\ block'[entry'[e].addr] = [by |-> "numa", size |-> entry'[e].size]
  BY <1>1, <1>3, BlocksKept DEF EntriesAreBlocks
<1>4. CASE pc[t] = "rec_write"
  <2> DEFINE c == cursor[t].e
  <2>1. /\ Linked' = Linked \cup {c} /\ entry[c] = [addr |-> new[t], size |-> call[t].size]
        /\ block[new[t]] = [by |-> "numa", size |-> call[t].size]
        /\ \A e \in Linked : entry[e].addr # new[t]
        /\ new[t] \in Addrs
    BY <1>1, <1>4, TableStep DEF Knows, ToRecord, WellCalled
  <2>2. block' = block
    BY <1>4, StepAt DEF RecordWrite, heap
  <2>3. entry'[c] = entry[c]
    BY <1>2, <2>1
  <2>4. /\ entry'[c].addr \in Addrs
        /\ block'[entry'[c].addr] = [by |-> "numa", size |-> entry'[c].size]
    BY <2>1, <2>2, <2>3
  <2>5. \A e \in Linked' : e \in Linked \/ e = c
    BY <2>1
  <2>6. \A e, f \in Linked' : entry'[e].addr = entry'[f].addr => e = f
    BY <1>1, <1>2, <2>1, <2>5 DEF EntriesAreBlocks
  <2> HIDE DEF c
  <2> QED BY <1>2, <1>3, <2>4, <2>5, <2>6 DEF EntriesAreBlocks
<1>5. CASE pc[t] # "rec_write"
  <2>1. Linked' \subseteq Linked
    BY <1>5, TableStep
  <2>2. \A e, f \in Linked' : entry'[e].addr = entry'[f].addr => e = f
    BY <1>1, <1>2, <2>1 DEF EntriesAreBlocks
  <2> QED BY <1>2, <1>3, <2>1, <2>2 DEF EntriesAreBlocks
<1> QED BY <1>4, <1>5

(* A removed block stays with its thread until it is given back, or the    *)
(* realloc fails and leaves it unrecorded.                                 *)
LEMMA StaysWith ==
  ASSUME SafeInv, NEW t \in Threads, App(t) \/ Hook(t), TypeInv'
  PROVE  /\ pc[t] = "record" => new'[t] = new[t]
         /\ Removed(t) /\ pc[t] # "numa_free" =>
              \/ Removed(t)' /\ call'[t] = call[t] /\ old'[t] = old[t]
              \/ ~Removed(t)' /\ call[t].ptr \in unrecorded'
         /\ pc[t] = "numa_free" => block'[call[t].ptr].by = "free"
         /\ pc[t] = "unlink" => Removed(t)' /\ call'[t] = call[t] /\ old'[t] = old[t]
<1> USE DEF Return, Goto, TypeOK
<1>1. TypeOK /\ WellCalled(t) /\ Knows(t)
  BY DEF SafeInv, TypeInv
<1>2. CASE App(t)
  BY <1>1, <1>2 DEF App, CallMalloc, CallFree, CallRealloc, Begin, Removed, InMalloc
<1>3. CASE MallocDecide(t) \/ NumaAlloc(t) \/ LibcAlloc(t) \/ MallocReturn(t)
  BY <1>1, <1>3 DEF MallocDecide, NumaAlloc, LibcAlloc, MallocReturn, Removed, InMalloc
<1>4. CASE RecordPrepare(t) \/ RecordWrite(t)
  BY <1>1, <1>4 DEF RecordPrepare, RecordWrite, Removed, InMalloc
<1>5. CASE Find(t) \/ Compare(t)
  BY <1>1, <1>5 DEF Find, FindMiss, FindEntry, Compare, CompareNext, CompareHit, Removed, InMalloc
<1>6. CASE Unlink(t)
  BY <1>1, <1>6 DEF Unlink, Removed, InMalloc, WellCalled
<1>7. CASE FreeDecide(t) \/ LibcFree(t) \/ LibcRealloc(t)
  BY <1>1, <1>7 DEF FreeDecide, LibcFree, LibcRealloc, Removed, InMalloc
<1>8. CASE ReallocCopy(t) \/ ReallocFail(t)
  BY <1>1, <1>8 DEF ReallocCopy, ReallocFail, Removed, InMalloc, NoCall
<1>9. CASE NumaFree(t)
  BY <1>1, <1>9 DEF NumaFree, Removed, InMalloc, WellCalled, Free
<1> QED BY <1>2, <1>3, <1>4, <1>5, <1>6, <1>7, <1>8, <1>9 DEF Hook

(* A new block that is routed has a thread that will record it. *)
LEMMA NewBlocks ==
  ASSUME SafeInv, NEW t \in Threads, App(t) \/ Hook(t), TypeInv',
         NEW a \in Addrs, block'[a].by = "numa", block[a].by # "numa"
  PROVE  /\ pc[t] = "numa_alloc" /\ pc'[t] = "record"
         /\ new'[t] = a /\ block[a].by = "free"
         /\ call'[t] = call[t] /\ block'[a] = [by |-> "numa", size |-> call[t].size]
<1> USE DEF Return, Goto, TypeOK, heap
<1>1. TypeOK
  BY DEF SafeInv, TypeInv
<1>2. block'[a] # block[a] /\ block'[a] # Free
  BY DEF Free
<1>3. CASE NumaAlloc(t)
  BY <1>1, <1>2, <1>3 DEF NumaAlloc, Take, Free
<1>4. CASE LibcAlloc(t)
  BY <1>1, <1>2, <1>4 DEF LibcAlloc, Take
<1>5. CASE LibcFree(t) \/ NumaFree(t)
  BY <1>1, <1>2, <1>5 DEF LibcFree, NumaFree
<1>6. CASE LibcRealloc(t)
  <2>1. ASSUME NEW c \in Addrs,
               block' = [block EXCEPT ![call[t].ptr] = Free,
                           ![c] = [by |-> "libc", size |-> call[t].size]]
        PROVE  block'[a].by = "libc" \/ block'[a] = Free \/ block'[a] = block[a]
    BY <1>1, <2>1
  <2> QED BY <1>2, <1>6, <2>1 DEF LibcRealloc
<1>7. CASE App(t)
  BY <1>2, <1>7 DEF App, CallMalloc, CallFree, CallRealloc, Begin
<1>8. CASE MallocDecide(t) \/ MallocReturn(t) \/ RecordPrepare(t) \/ RecordWrite(t)
           \/ Find(t) \/ Compare(t)
  BY <1>2, <1>8 DEF MallocDecide, MallocReturn, RecordPrepare, RecordWrite, Find, FindMiss,
     FindEntry, Compare, CompareNext, CompareHit
<1>9. CASE Unlink(t) \/ FreeDecide(t) \/ ReallocCopy(t) \/ ReallocFail(t)
  BY <1>2, <1>9 DEF Unlink, FreeDecide, ReallocCopy, ReallocFail
<1> QED BY <1>3, <1>4, <1>5, <1>6, <1>7, <1>8, <1>9 DEF Hook

(* Only a block that is given back stops being an unrecorded one. *)
LEMMA StaysUnrecorded ==
  ASSUME SafeInv, NEW t \in Threads, App(t) \/ Hook(t), TypeInv',
         NEW a \in unrecorded, block'[a].by = "numa"
  PROVE  a \in unrecorded'
<1> USE DEF Return, Goto, TypeOK, Free, history
<1>1. TypeOK /\ WellCalled(t)
  BY DEF SafeInv, TypeInv
<1>2. CASE App(t)
  BY <1>2 DEF App, CallMalloc, CallFree, CallRealloc, Begin
<1>3. CASE MallocDecide(t) \/ NumaAlloc(t) \/ LibcAlloc(t) \/ MallocReturn(t)
  BY <1>3 DEF MallocDecide, NumaAlloc, LibcAlloc, MallocReturn
<1>4. CASE RecordPrepare(t) \/ RecordWrite(t) \/ Unlink(t)
  BY <1>4 DEF RecordPrepare, RecordWrite, Unlink
<1>5. CASE Find(t) \/ Compare(t)
  BY <1>5 DEF Find, FindMiss, FindEntry, Compare, CompareNext, CompareHit
<1>6. CASE FreeDecide(t) \/ ReallocCopy(t) \/ ReallocFail(t)
  BY <1>6 DEF FreeDecide, ReallocCopy, ReallocFail
<1>7. CASE LibcFree(t) \/ NumaFree(t)
  BY <1>1, <1>7 DEF LibcFree, NumaFree
<1>8. CASE LibcRealloc(t)
  <2>1. CASE UNCHANGED <<block, unrecorded>>
    BY <2>1
  <2>2. ASSUME NEW c \in Addrs, unrecorded' = unrecorded \ {call[t].ptr},
               block' = [block EXCEPT ![call[t].ptr] = Free,
                           ![c] = [by |-> "libc", size |-> call[t].size]]
        PROVE  a \in unrecorded'
    <3>1. a = call[t].ptr => block'[a].by # "numa"
      BY <1>1, <2>2
    <3> QED BY <2>2, <3>1
  <2> QED BY <1>8, <2>1, <2>2 DEF LibcRealloc
<1> QED BY <1>2, <1>3, <1>4, <1>5, <1>6, <1>7, <1>8 DEF Hook

(* A routed block is in the map, or a thread has it in hand, or the hooks  *)
(* left it unrecorded.                                                     *)
LEMMA StepBlocksAreEntries ==
  ASSUME SafeInv, NEW r \in Ranks, TableInv(r),
         NEW t \in Threads, App(t) \/ Hook(t), TypeInv', ~overtaken'
  PROVE  BlocksAreEntries'
<1>1. BlocksAreEntries /\ Knows(t) /\ TypeOK /\ OthersSame(t)
  BY StepOthersSame DEF SafeInv, TypeInv
<1>2. \A u \in Threads \ {t} :
        /\ ToRecord(u)' <=> ToRecord(u)
        /\ Removed(u)' <=> Removed(u)
        /\ new'[u] = new[u] /\ call'[u] = call[u]
  BY <1>1 DEF OthersSame, ToRecord, Removed
<1>3. ASSUME NEW a \in Addrs, block'[a].by = "numa"
      PROVE  \/ a \in unrecorded'
             \/ \E e \in Linked' : entry'[e].addr = a
             \/ \E u \in Threads : ToRecord(u)' /\ new'[u] = a
             \/ \E u \in Threads : Removed(u)' /\ call'[u].ptr = a
  <2>1. CASE block[a].by # "numa"
    BY <1>3, <2>1, NewBlocks DEF ToRecord
  <2>2. ASSUME NEW e \in Linked, entry[e].addr = a
        PROVE  (e \in Linked' /\ entry'[e].addr = a) \/ (Removed(t)' /\ call'[t].ptr = a)
    <3>1. CASE pc[t] = "unlink" /\ e = cursor[t].e
      BY <2>2, <3>1, StaysWith DEF TableInv, Reads, AtEntry
    <3>2. CASE ~(pc[t] = "unlink" /\ e = cursor[t].e)
      <4>1. e \in Linked'
        BY <2>2, <3>2, TableStep
      <4>2. entry'[e] = entry[e]
        BY <4>1, TableStep
      <4> QED BY <2>2, <4>1, <4>2
    <3> QED BY <3>1, <3>2
  <2>3. ASSUME NEW u \in Threads, ToRecord(u), new[u] = a
        PROVE  \/ a \in unrecorded' \/ (ToRecord(u)' /\ new'[u] = a)
               \/ \E e \in Linked' : entry'[e].addr = a
    <3>1. CASE u # t
      BY <1>2, <2>3, <3>1
    <3>2. CASE u = t /\ pc[t] = "record"
      <4>1. pc'[t] = "rec_write" \/ new[t] \in unrecorded'
        BY <1>1, <3>2, StepAt DEF RecordPrepare, Goto, TypeOK
      <4> QED BY <2>3, <3>2, <4>1, StaysWith DEF ToRecord
    <3>3. CASE u = t /\ pc[t] = "rec_write"
      <4>1. cursor[t].e \in Linked' /\ entry[cursor[t].e].addr = a
        BY <1>1, <2>3, <3>3, TableStep DEF Knows
      <4> QED BY <4>1, TableStep
    <3> QED BY <2>3, <3>1, <3>2, <3>3 DEF ToRecord
  <2>4. ASSUME NEW u \in Threads, Removed(u), call[u].ptr = a
        PROVE  a \in unrecorded' \/ (Removed(u)' /\ call'[u].ptr = a)
    <3>1. CASE u # t
      BY <1>2, <2>4, <3>1
    <3>2. CASE u = t
      BY <1>3, <2>4, <3>2, StaysWith
    <3> QED BY <3>1, <3>2
  <2>5. CASE block[a].by = "numa"
    <3>1. \/ a \in unrecorded
          \/ \E e \in Linked : entry[e].addr = a
          \/ \E u \in Threads : ToRecord(u) /\ new[u] = a
          \/ \E u \in Threads : Removed(u) /\ call[u].ptr = a
      BY <1>1, <2>5 DEF BlocksAreEntries
    <3>2. a \in unrecorded => a \in unrecorded'
      BY <1>3, StaysUnrecorded
    <3> QED BY <2>2, <2>3, <2>4, <3>1, <3>2
  <2> QED BY <2>1, <2>5
<1> QED BY <1>3 DEF BlocksAreEntries

(* Only three steps write the map. *)
LEMMA TableWriters ==
  ASSUME NEW t \in Threads, App(t) \/ Hook(t),
         ~RecordPrepare(t), ~RecordWrite(t), ~Unlink(t)
  PROVE  UNCHANGED table
BY DEF App, CallMalloc, CallFree, CallRealloc, Begin, Hook, MallocDecide, NumaAlloc, LibcAlloc,
   MallocReturn, Find, FindMiss, FindEntry, Compare, CompareNext, CompareHit, FreeDecide,
   LibcFree, ReallocCopy, ReallocFail, NumaFree, LibcRealloc

(* A new entry stays as it was filled, and the head it will be chained to  *)
(* stays the head, because no thread writes over it.                       *)
LEMMA CellKept ==
  ASSUME SafeInv, NEW r \in Ranks, TableInv(r), NEW t \in Threads, App(t) \/ Hook(t),
         ~overtaken', NEW u \in Threads \ {t}, pc[u] = "rec_write"
  PROVE  /\ cursor[u].e \in live'
         /\ entry'[cursor[u].e] = entry[cursor[u].e]
         /\ next'[cursor[u].e] = next[cursor[u].e]
         /\ addr_hash'[Hash[new[u]]] = addr_hash[Hash[new[u]]]
<1> DEFINE c == cursor[u].e
           d == Hash[new[u]]
<1>1. /\ TypeOK /\ c \in live /\ c \in Entries /\ c \notin Linked
      /\ new[u] \in Addrs /\ d \in Buckets /\ GoesByHead(u, d)
  BY AllocAssumption DEF SafeInv, TypeInv, TypeOK, Knows, WellCalled, Linked, GoesByHead
<1>2. CASE RecordPrepare(t)
  <2>1. ASSUME NEW e \in Entries \ live, live' = live \cup {e},
               entry' = [entry EXCEPT ![e] = NewEntry(t)],
               next' = [next EXCEPT ![e] = Successor(t, e)],
               addr_hash' = addr_hash
        PROVE  /\ c \in live' /\ entry'[c] = entry[c] /\ next'[c] = next[c]
               /\ addr_hash'[d] = addr_hash[d]
    BY <1>1, <2>1 DEF TypeOK
  <2> QED BY <1>1, <1>2, <2>1 DEF RecordPrepare
<1>3. CASE RecordWrite(t)
  <2>1. Hash[new[t]] # d
    BY <1>1, <1>3 DEF RecordWrite
  <2> QED BY <1>1, <1>3, <2>1 DEF RecordWrite, TypeOK
<1>4. CASE Unlink(t)
  <2>1. pc[t] = "unlink" /\ cursor[t].pp = Nil => Hash[call[t].ptr] # d
    BY <1>1, <1>4 DEF Unlink, UnlinkOvertakes
  <2>2. pc[t] = "unlink" /\ Hash[call[t].ptr] \in Buckets
    BY <1>4, AllocAssumption DEF Unlink, Goto, SafeInv, TypeInv, WellCalled
  <2>3. cursor[t].e # c /\ cursor[t].pp # c
    BY <1>1, <2>2, AllocAssumption DEF TableInv, Reads, AtEntry, InFront
  <2>4. addr_hash'[d] = addr_hash[d]
    BY <1>1, <1>4, <2>1, <2>2 DEF Unlink, HeadAfter, TypeOK
  <2> QED BY <1>1, <1>4, <2>3, <2>4 DEF Unlink, NextAfter, Released, TypeOK
<1>5. CASE UNCHANGED table
  BY <1>1, <1>5 DEF table
<1> QED BY <1>2, <1>3, <1>4, <1>5, TableWriters

(* A step of t does not invalidate what another thread knows. *)
LEMMA OthersKnow ==
  ASSUME SafeInv, NEW r \in Ranks, TableInv(r), NEW t \in Threads, App(t) \/ Hook(t),
         TypeInv', ~overtaken', NEW u \in Threads \ {t}
  PROVE  Knows(u)'
<1>1. /\ TypeOK /\ Knows(u) /\ Knows(t) /\ WellCalled(u) /\ WellCalled(t) /\ Ownership
      /\ pc'[u] = pc[u] /\ call'[u] = call[u] /\ old'[u] = old[u]
      /\ new'[u] = new[u] /\ cursor'[u] = cursor[u]
  BY StepOthersSame DEF SafeInv, TypeInv, OthersSame
<1>2. /\ HasPtr(u) => block'[call[u].ptr] = block[call[u].ptr]
      /\ new[u] # Nil => block'[new[u]] = block[new[u]]
  BY BlocksKept
<1>3. /\ ToRecord(u) => new[u] # Nil
      /\ Removed(u) => HasPtr(u)
      /\ pc[u] \in {"libc_free", "libc_realloc"} => HasPtr(u)
  BY <1>1, AllocAssumption DEF ToRecord, Removed, WellCalled, HasPtr, InMalloc
<1>4. /\ \A e \in Linked' : e \in Linked \/ (pc[t] = "rec_write" /\ e = cursor[t].e)
      /\ \A e \in Linked' : entry'[e] = entry[e]
  BY TableStep
<1>5. pc[t] = "rec_write" => entry[cursor[t].e].addr = new[t] /\ new[t] # Nil
  BY <1>1, AllocAssumption DEF Knows, WellCalled
<1>6. Removed(u) => \A e \in Linked' : entry'[e].addr # call[u].ptr
  BY <1>1, <1>3, <1>4, <1>5 DEF Knows, Ownership
<1>7. ToRecord(u) => \A e \in Linked' : entry'[e].addr # new[u]
  BY <1>1, <1>3, <1>4, <1>5 DEF Knows, Ownership
<1>8. Removed(u)' <=> Removed(u)
  BY <1>1 DEF Removed
<1>9. ToRecord(u)' <=> ToRecord(u)
  BY <1>1 DEF ToRecord
<1>10. pc[u] \in {"libc_free", "libc_realloc"} =>
         \A e \in Linked' : entry'[e].addr # call[u].ptr
  BY <1>1, <1>3, <1>4, <1>5 DEF Knows, Ownership
<1> QED BY <1>1, <1>2, <1>3, <1>6, <1>7, <1>8, <1>9, <1>10, CellKept DEF Knows

(* A removed block stays out of the map until it is given back. *)
LEMMA RemovedKnows ==
  ASSUME SafeInv, NEW r \in Ranks, TableInv(r), NEW t \in Threads, App(t) \/ Hook(t),
         TypeInv', ~overtaken', Removed(t), pc[t] # "numa_free", Removed(t)'
  PROVE  /\ block'[call'[t].ptr] = [by |-> "numa", size |-> old'[t]]
         /\ \A e \in Linked' : entry'[e].addr # call'[t].ptr
<1> DEFINE p == call[t].ptr
<1>1. /\ TypeOK /\ Knows(t) /\ WellCalled(t) /\ Ownership
      /\ call'[t] = call[t] /\ old'[t] = old[t]
      /\ HasPtr(t) /\ p \in Addrs /\ pc[t] \in InMalloc
  BY StaysWith DEF SafeInv, TypeInv, WellCalled, HasPtr, Removed
<1>2. block[p] = [by |-> "numa", size |-> old[t]] /\ \A e \in Linked : entry[e].addr # p
  BY <1>1 DEF Knows
<1>3. block'[p] = block[p]
  <2>1. pc[t] \notin {"libc_free", "numa_free", "libc_realloc"}
    BY <1>1 DEF InMalloc
  <2>2. block[p].by = "numa"
    BY <1>2
  <2>3. ASSUME NEW a \in Addrs, NEW by \in {"numa", "libc"}, block[a].by = "free",
               block' = [block EXCEPT ![a] = [by |-> by, size |-> call[t].size]]
        PROVE  block'[p] = block[p]
    <3>1. a # p
      BY <2>2, <2>3
    <3> QED BY <1>1, <2>3, <3>1 DEF TypeOK
  <2>4. \/ block' = block
        \/ \E a \in Addrs, by \in {"numa", "libc"} :
             /\ block[a].by = "free"
             /\ block' = [block EXCEPT ![a] = [by |-> by, size |-> call[t].size]]
    <3> HIDE DEF p
    <3> QED BY <2>1, HeapStep DEF SafeInv
  <2> QED BY <2>3, <2>4
<1>4. \A e \in Linked' : entry'[e].addr # p
  <2>1. /\ \A e \in Linked' : e \in Linked \/ (pc[t] = "rec_write" /\ e = cursor[t].e)
        /\ \A e \in Linked' : entry'[e] = entry[e]
    BY TableStep
  <2>2. pc[t] = "rec_write" => entry[cursor[t].e].addr = new[t] /\ new[t] # p
    BY <1>1 DEF Knows, Ownership
  <2> QED BY <1>2, <2>1, <2>2
<1> QED BY <1>1, <1>2, <1>3, <1>4

(* A block that is not found in the map has no entry there. *)
LEMMA MissKnows ==
  ASSUME SafeInv, NEW r \in Ranks, TableInv(r), NEW t \in Threads, pc[t] = "find", FindMiss(t)
  PROVE  \A e \in Linked : entry[e].addr # call[t].ptr
<1> DEFINE p == call[t].ptr
<1>1. TypeOK /\ WellCalled(t) /\ p \in Addrs /\ Hash[p] \in Buckets
  BY AllocAssumption DEF SafeInv, TypeInv, WellCalled
<1>2. Linked \subseteq Entries /\ \A e \in Linked : r[e] \in Nat
  BY <1>1 DEF Linked, TypeOK, Ranks
<1> SUFFICES ASSUME NEW e \in Linked, entry[e].addr = p PROVE FALSE
  OBVIOUS
<1>3. CASE cursor[t].pp = Nil
  BY <1>1, <1>3 DEF FindMiss, Target, TableInv, Lists, HeadFirst, BucketOf
<1>4. CASE cursor[t].pp # Nil
  <2>1. /\ cursor[t].pp \in Linked /\ BucketOf(cursor[t].pp) = Hash[p]
        /\ r[e] < r[cursor[t].pp] /\ next[cursor[t].pp] = Nil
    BY <1>4 DEF FindMiss, Target, TableInv, Reads, Traversal
  <2>2. r[cursor[t].pp] <= r[e]
    BY <2>1 DEF TableInv, Lists, NextBelow, BucketOf
  <2> QED BY <1>2, <2>1, <2>2
<1> QED BY <1>3, <1>4

(* The step gives a thread the knowledge of the place it leads to. *)
LEMMA SelfKnows ==
  ASSUME SafeInv, NEW r \in Ranks, TableInv(r), NEW t \in Threads, App(t) \/ Hook(t),
         TypeInv', ~overtaken'
  PROVE  Knows(t)'
<1>1. TypeOK /\ Knows(t) /\ WellCalled(t) /\ Ownership /\ TypeOK'
  BY DEF SafeInv, TypeInv
<1>2. Removed(t)' =>
        /\ block'[call'[t].ptr] = [by |-> "numa", size |-> old'[t]]
        /\ \A e \in Linked' : entry'[e].addr # call'[t].ptr
  <2>1. CASE Removed(t) /\ pc[t] # "numa_free"
    BY <2>1, RemovedKnows
  <2>2. CASE pc[t] = "unlink"
    <3>1. AtEntry(t) /\ EntriesAreBlocks
      BY DEF TableInv, Reads, SafeInv
    <3>2. block' = block /\ call'[t] = call[t] /\ old'[t] = old[t]
      BY <2>2, StepAt, StaysWith DEF Unlink, heap
    <3>3. Linked' = Linked \ {cursor[t].e} /\ \A e \in Linked' : entry'[e] = entry[e]
      BY <2>2, TableStep
    <3> QED BY <2>2, <3>1, <3>2, <3>3 DEF AtEntry, EntriesAreBlocks
  <2>3. CASE ~Removed(t) /\ pc[t] # "unlink"
    <3>1. CASE App(t)
      BY <1>1, <2>3, <3>1 DEF App, CallMalloc, CallFree, CallRealloc, Begin, Goto, TypeOK,
         Removed, InMalloc
    <3>2. CASE Hook(t)
      BY ZenonT(60), <1>1, <2>3, <3>2 DEF Hook, MallocDecide, NumaAlloc, LibcAlloc, MallocReturn,
         RecordPrepare, RecordWrite, Find, FindMiss, FindEntry, Compare, CompareNext,
         CompareHit, Unlink, FreeDecide, LibcFree, ReallocCopy, ReallocFail, NumaFree, LibcRealloc, Return, Goto, TypeOK,
         Removed, InMalloc, WellCalled, NoCall
    <3> QED BY <3>1, <3>2
  <2>4. CASE pc[t] = "numa_free"
    <3>1. pc'[t] = "idle"
      BY <1>1, <2>4, StepAt DEF NumaFree, Return, Goto, TypeOK
    <3> QED BY <3>1 DEF Removed, InMalloc
  <2> QED BY <2>1, <2>2, <2>3, <2>4
<1>3. CASE RecordPrepare(t)
  <2>1. CASE pc'[t] = "rec_write"
    <3>1. PICK e \in Entries \ live :
            /\ live' = live \cup {e}
            /\ entry' = [entry EXCEPT ![e] = NewEntry(t)]
            /\ next' = [next EXCEPT ![e] = Successor(t, e)]
            /\ cursor' = [cursor EXCEPT ![t] = [pp |-> Nil, e |-> e, nxt |-> Nil]]
            /\ UNCHANGED <<block, addr_hash, call, new>>
      BY <1>1, <1>3, <2>1 DEF RecordPrepare, Goto, heap, TypeOK
    <3>2. pc[t] = "record"
      BY <1>3 DEF RecordPrepare
    <3>3. /\ cursor'[t].e = e /\ cursor'[t].pp = Nil /\ e \in live'
          /\ entry'[e] = NewEntry(t) /\ next'[e] = Successor(t, e)
      BY <1>1, <3>1 DEF TypeOK
    <3>4. /\ Linked' = Linked /\ \A f \in Linked' : entry'[f] = entry[f]
      BY <3>2, TableStep
    <3> QED BY <1>1, <1>2, <2>1, <3>1, <3>2, <3>3, <3>4 DEF Knows, ToRecord, NewEntry, Successor
  <2>2. CASE pc'[t] # "rec_write"
    <3>1. pc[t] = "record" /\ pc'[t] = "done" /\ cursor' = cursor
      BY <1>1, <1>3, <2>2 DEF RecordPrepare, Goto, TypeOK
    <3> QED BY <1>1, <1>2, <3>1 DEF Knows, ToRecord
  <2> QED BY <2>1, <2>2
<1>4. CASE NumaAlloc(t)
  <2>1. CASE pc'[t] = "record"
    <3>1. PICK a \in Addrs : Take(t, a, "numa")
      BY <1>1, <1>4, <2>1 DEF NumaAlloc, Goto, TypeOK
    <3>2. /\ block[a].by = "free" /\ new'[t] = a /\ call'[t] = call[t]
          /\ block'[a] = [by |-> "numa", size |-> call[t].size]
          /\ cursor'[t] = cursor[t] /\ pc[t] = "numa_alloc"
      <4>1. /\ UNCHANGED <<call, cursor>> /\ pc[t] = "numa_alloc"
        BY <1>4 DEF NumaAlloc, Goto
      <4>2. /\ block[a] = Free /\ new' = [new EXCEPT ![t] = a]
            /\ block' = [block EXCEPT ![a] = [by |-> "numa", size |-> call[t].size]]
        BY <3>1 DEF Take
      <4> QED BY <1>1, <4>1, <4>2 DEF TypeOK, Free
    <3>3. Linked' = Linked /\ \A e \in Linked' : entry'[e] = entry[e]
      BY <3>2, TableStep
    <3>4. \A e \in Linked : block[entry[e].addr] = [by |-> "numa", size |-> entry[e].size]
      BY DEF SafeInv, EntriesAreBlocks
    <3>5. ASSUME NEW e \in Linked PROVE block[entry[e].addr].by = "numa"
      <4>1. block[entry[e].addr] = [by |-> "numa", size |-> entry[e].size]
        BY <3>4
      <4> QED BY <4>1
    <3>6. \A e \in Linked' : entry'[e].addr # a
      BY <3>2, <3>3, <3>5
    <3> QED BY <1>1, <1>2, <2>1, <3>2, <3>6 DEF Knows, ToRecord
  <2>2. CASE pc'[t] = "libc_alloc"
    <3>1. cursor'[t] = cursor[t] /\ pc[t] = "numa_alloc"
      BY <1>4 DEF NumaAlloc, Goto
    <3> QED BY <1>1, <1>2, <2>2, <3>1 DEF Knows, ToRecord
  <2> QED BY <1>1, <1>4, <2>1, <2>2 DEF NumaAlloc, Goto, TypeOK
<1>5. CASE LibcAlloc(t) \/ RecordWrite(t)
  <2>1. pc'[t] = "done" /\ cursor'[t].pp = Nil /\ cursor'[t].e = Nil
    BY <1>1, <1>5 DEF LibcAlloc, RecordWrite, Goto, TypeOK, Knows, NoCursor
  <2> QED BY <1>2, <2>1 DEF Knows, ToRecord
<1>6. CASE Find(t) \/ Compare(t)
  <2>1. pc'[t] \in {"find", "compare", "unlink"} \/ FindMiss(t)
    BY <1>1, <1>6 DEF Find, FindEntry, Compare, CompareNext, CompareHit, Goto, TypeOK
  <2>2. CASE pc'[t] \in {"find", "compare", "unlink"}
    <3>1. pc'[t] = "find" => cursor'[t].e = Nil
      BY <1>1, <1>6 DEF Find, FindMiss, FindEntry, Compare, CompareNext, CompareHit, Goto, TypeOK
    <3> QED BY <1>2, <2>2, <3>1 DEF Knows, ToRecord
  <2>3. CASE FindMiss(t)
    <3>1. /\ pc'[t] \in {"libc_free", "libc_realloc"}
          /\ cursor'[t].pp = Nil /\ cursor'[t].e = Nil
          /\ pc[t] = "find" /\ call' = call
      BY <1>1, <2>3 DEF FindMiss, Goto, TypeOK, NoCursor
    <3>2. \A e \in Linked : entry[e].addr # call[t].ptr
      BY <2>3, <3>1, MissKnows
    <3>3. Linked' = Linked /\ \A e \in Linked' : entry'[e] = entry[e]
      BY <3>1, TableStep
    <3> QED BY <1>2, <3>1, <3>2, <3>3 DEF Knows, ToRecord
  <2> QED BY <2>1, <2>2, <2>3
<1>7. CASE FreeDecide(t)
  <2>1. /\ pc[t] = "free" /\ pc'[t] = (IF routing_ever_used THEN "find" ELSE "libc_free")
        /\ call' = call /\ cursor' = cursor
    BY <1>1, <1>7 DEF FreeDecide, Goto, TypeOK
  <2>2. ASSUME NEW e \in Linked PROVE routing_ever_used
    <3>1. entry[e].addr \in Addrs /\ block[entry[e].addr] = [by |-> "numa", size |-> entry[e].size]
      BY DEF SafeInv, EntriesAreBlocks
    <3> QED BY <3>1 DEF SafeInv, FlagRaised
  <2>3. Linked' = Linked
    BY <2>1, TableStep
  <2> QED BY <1>1, <1>2, <2>1, <2>2, <2>3 DEF Knows, ToRecord
<1>8. CASE App(t) \/ MallocDecide(t) \/ MallocReturn(t) \/ Unlink(t) \/ LibcFree(t)
           \/ ReallocCopy(t) \/ ReallocFail(t) \/ NumaFree(t) \/ LibcRealloc(t)
  <2>1. /\ pc'[t] \in {"idle", "malloc", "free", "find", "numa_alloc", "libc_alloc", "numa_free"}
        /\ cursor'[t].e = Nil /\ (pc'[t] # "find" => cursor'[t].pp = Nil)
    <3>1. CASE App(t)
      BY <1>1, <3>1 DEF App, CallMalloc, CallFree, CallRealloc, Begin, Goto, TypeOK, Knows
    <3>2. CASE MallocDecide(t) \/ ReallocCopy(t) \/ Unlink(t)
      BY <1>1, <3>2 DEF MallocDecide, ReallocCopy, Unlink, Goto, TypeOK, Knows, NoCursor
    <3>3. CASE MallocReturn(t) \/ LibcFree(t) \/ ReallocFail(t) \/ NumaFree(t) \/ LibcRealloc(t)
      BY <1>1, <3>3 DEF MallocReturn, LibcFree, ReallocFail, NumaFree, LibcRealloc, Return, Goto,
         TypeOK, NoCursor
    <3> QED BY <1>8, <3>1, <3>2, <3>3
  <2> QED BY <1>2, <2>1 DEF Knows, ToRecord
<1> QED BY <1>3, <1>4, <1>5, <1>6, <1>7, <1>8 DEF Hook

-----------------------------------------------------------------------------
(* All together. *)

Inv == SafeInv /\ \E r \in Ranks : TableInv(r)

LEMMA InitInv == Init => Inv
<1> SUFFICES ASSUME Init PROVE Inv
  OBVIOUS
<1>1. Linked = {}
  BY DEF Init, Linked
<1>2. SafeInv
  BY <1>1, InitTypeInv DEF SafeInv, Init, Ownership, HasPtr, FlagRaised, EntriesAreBlocks,
     BlocksAreEntries, Knows, ToRecord, Removed, InMalloc, OneCellEach, NoCall, NoCursor, Free
<1>3. [e \in Entries |-> 0] \in Ranks
  BY DEF Ranks
<1>4. \A r \in Ranks : TableInv(r)
  BY <1>1 DEF TableInv, Lists, HeadFirst, NextBelow, Reads, Traversal, AtCompare, AtEntry, Init
<1> QED BY <1>2, <1>3, <1>4 DEF Inv

(* Steps of no hook leave all of it alone. *)
LEMMA InvFrame ==
  ASSUME Inv, TypeInv',
         UNCHANGED <<heap, table, pc, call, old, new, cursor, routing_ever_used, history>>
  PROVE  Inv'
<1> USE DEF heap, table, history
<1>1. PICK r \in Ranks : TableInv(r)
  BY DEF Inv
<1>2. Linked' = Linked /\ \A e \in Entries : BucketOf(e)' = BucketOf(e)
  BY DEF Linked, BucketOf
<1>3. Ownership' /\ FlagRaised' /\ OneCellEach'
  BY DEF Inv, SafeInv, Ownership, HasPtr, FlagRaised, OneCellEach
<1>4. EntriesAreBlocks' /\ BlocksAreEntries'
  BY <1>2 DEF Inv, SafeInv, EntriesAreBlocks, BlocksAreEntries, ToRecord, Removed
<1>5. ASSUME NEW u \in Threads PROVE Knows(u)'
  BY <1>2 DEF Inv, SafeInv, Knows, ToRecord, Removed
<1>6. Lists(r)'
  BY <1>1, <1>2 DEF TableInv, Lists, HeadFirst, NextBelow, BucketOf
<1>7. ASSUME NEW u \in Threads PROVE Reads(r, u)'
  BY <1>1, <1>2 DEF TableInv, Reads, Traversal, AtCompare, AtEntry, InFront, BucketOf
<1> QED BY <1>1, <1>3, <1>4, <1>5, <1>6, <1>7 DEF Inv, SafeInv, TableInv, Ranks

LEMMA StepInv ==
  ASSUME Inv, [Next]_vars, TypeInv', ~overtaken'
  PROVE  Inv'
<1>1. PICK r \in Ranks : TableInv(r)
  BY DEF Inv
<1>2. ASSUME NEW t \in Threads, App(t) \/ Hook(t) PROVE Inv'
  <2>1. \E s \in Ranks : TableInv(s)'
    BY <1>1, <1>2, TableStep DEF Inv
  <2>2. Ownership' /\ FlagRaised' /\ OneCellEach'
    BY <1>2, StepOwnership, StepFlagRaised, StepOneCellEach DEF Inv
  <2>3. EntriesAreBlocks' /\ BlocksAreEntries'
    BY <1>1, <1>2, StepEntriesAreBlocks, StepBlocksAreEntries DEF Inv
  <2>4. ASSUME NEW u \in Threads PROVE Knows(u)'
    BY <1>1, <1>2, OthersKnow, SelfKnows DEF Inv
  <2> QED BY <2>1, <2>2, <2>3, <2>4 DEF Inv, SafeInv, Ranks
<1>3. CASE PublishRules
  BY <1>3, InvFrame DEF PublishRules
<1>4. CASE UNCHANGED vars
  BY <1>4, InvFrame DEF vars, flags
<1> QED BY <1>2, <1>3, <1>4 DEF Next

(* A thread that has been overtaken stays so. *)
LEMMA OvertakenStays ==
  ASSUME TypeInv, [Next]_vars, overtaken
  PROVE  overtaken'
<1> USE DEF history
<1>1. ASSUME NEW t \in Threads, App(t) PROVE overtaken'
  BY <1>1 DEF App, CallMalloc, CallFree, CallRealloc, Begin
<1>2. ASSUME NEW t \in Threads, Hook(t) PROVE overtaken'
  BY <1>2 DEF Hook, MallocDecide, NumaAlloc, LibcAlloc, MallocReturn, RecordPrepare, RecordWrite,
     Find, FindMiss, FindEntry, Compare, CompareNext, CompareHit, Unlink, FreeDecide, LibcFree,
     ReallocCopy, ReallocFail, NumaFree, LibcRealloc
<1> QED BY <1>1, <1>2 DEF Next, PublishRules, vars

(* The inductive invariant. *)
UntilOvertaken == TypeInv /\ (~overtaken => Inv)

LEMMA InitUntilOvertaken == Init => UntilOvertaken
  BY InitInv, InitTypeInv DEF UntilOvertaken

LEMMA NextUntilOvertaken == UntilOvertaken /\ [Next]_vars => UntilOvertaken'
<1> SUFFICES ASSUME UntilOvertaken, [Next]_vars PROVE UntilOvertaken'
  OBVIOUS
<1>1. TypeInv'
  BY NextTypeInv DEF UntilOvertaken
<1>2. ASSUME ~overtaken' PROVE Inv'
  <2>1. ~overtaken
    BY <1>2, OvertakenStays DEF UntilOvertaken
  <2> QED BY <1>1, <1>2, <2>1, StepInv DEF UntilOvertaken
<1> QED BY <1>1, <1>2 DEF UntilOvertaken

(* A block that is not found in the map is libc's, or was left unrecorded. *)
LEMMA UnroutedIsLibc ==
  ASSUME SafeInv, NEW t \in Threads, pc[t] \in {"libc_free", "libc_realloc"}
  PROVE  block[call[t].ptr].by = "libc" \/ call[t].ptr \in unrecorded
<1> DEFINE p == call[t].ptr
<1>1. /\ TypeOK /\ Ownership /\ BlocksAreEntries /\ HasPtr(t) /\ p \in Addrs
      /\ \A e \in Linked : entry[e].addr # p
  BY DEF SafeInv, TypeInv, WellCalled, HasPtr, Knows
<1>2. \A u \in Threads : ToRecord(u) => new[u] # p
  BY <1>1 DEF Ownership
<1>3. ASSUME NEW u \in Threads, Removed(u), call[u].ptr = p PROVE FALSE
  <2>1. HasPtr(u)
    BY <1>3 DEF SafeInv, TypeInv, WellCalled, Removed, HasPtr
  <2>2. u = t
    BY <1>1, <1>3, <2>1 DEF Ownership
  <2> QED BY <1>3, <2>2 DEF Removed, InMalloc
<1>4. p \in unrecorded \/ block[p].by # "numa"
  BY <1>1, <1>2, <1>3 DEF BlocksAreEntries
<1>5. block[p].by # "free"
  BY <1>1 DEF Ownership
<1> QED BY <1>1, <1>4, <1>5 DEF TypeOK, Blocks

(* Until a thread is overtaken, every block goes back to the allocator it  *)
(* came from, numa_free is told the size the block was allocated with, and *)
(* the only routed blocks that libc gets are those whose entry could not   *)
(* be allocated or was removed by a realloc that then failed.              *)
THEOREM FreesMatchRecord == Spec => []FreeMatchesRecord
<1>1. UntilOvertaken => FreeMatchesRecord
  BY UnroutedIsLibc DEF UntilOvertaken, Inv, SafeInv, Knows, Removed, FreeMatchesRecord
<1> QED BY InitUntilOvertaken, NextUntilOvertaken, <1>1, PTL DEF Spec

(* Until a thread is overtaken, the map is walked through entries that     *)
(* have not been given back to libc: a search of check_and_remove_seg      *)
(* holds no freed entry and reads none, whatever the other threads link    *)
(* and unlink around it.                                                   *)
THEOREM TraversalsAreSafe == Spec => []NoFreedEntryTouched
<1>1. UntilOvertaken => NoFreedEntryTouched
  <2> SUFFICES ASSUME SafeInv, NEW r \in Ranks, TableInv(r), NEW t \in Threads
               PROVE  /\ pc[t] = "find" => {cursor[t].pp, Target(t)} \subseteq live \cup {Nil}
                      /\ pc[t] = "compare" => cursor[t].e \in live
                      /\ pc[t] = "unlink" =>
                           cursor[t].e \in live /\ cursor[t].pp \in live \cup {Nil}
    BY DEF UntilOvertaken, Inv, NoFreedEntryTouched
  <2>1. Linked \subseteq live /\ Reads(r, t)
    BY DEF Linked, TableInv
  <2>2. CASE pc[t] = "unlink"
    BY <2>1, <2>2 DEF Reads, AtEntry, InFront
  <2>3. CASE pc[t] = "compare"
    BY <2>1, <2>3 DEF Reads, AtCompare
  <2>4. CASE pc[t] = "find"
    <3>1. Hash[call[t].ptr] \in Buckets
      BY <2>4, AllocAssumption DEF SafeInv, TypeInv, WellCalled
    <3>2. cursor[t].pp # Nil => cursor[t].pp \in Linked
      BY <2>1, <2>4 DEF Reads, Traversal
    <3>3. Target(t) \in Linked \cup {Nil}
      BY <3>1, <3>2 DEF Target, TableInv, Lists, HeadFirst, NextBelow
    <3> QED BY <2>1, <2>4, <3>2, <3>3
  <2> QED BY <2>2, <2>3, <2>4
<1> QED BY InitUntilOvertaken, NextUntilOvertaken, <1>1, PTL DEF Spec

-----------------------------------------------------------------------------
(* What is reached from the buckets. *)

LEMMA LeastNatural ==
  ASSUME NEW T \in SUBSET Nat, T # {}
  PROVE  \E m \in T : \A n \in T : m <= n
<1>1. \E m \in T : \A n \in T : <<n, m>> \notin OpToRel(<, Nat)
  BY NatLessThanWellFounded, WFMin
<1>2. \A m, n \in Nat : <<n, m>> \in OpToRel(<, Nat) <=> n < m
  BY DEF OpToRel
<1>3. \E m \in T : \A n \in T : ~(n < m)
  BY <1>1, <1>2, Zenon
<1> QED BY <1>3

(* The map reaches exactly the entries that are live and not in the hands  *)
(* of a thread about to link them.                                         *)
LEMMA ReachedAreLinked ==
  ASSUME SafeInv, NEW r \in Ranks, Lists(r)
  PROVE  InTable = Linked
<1>1. /\ Linked \subseteq Entries
      /\ \A e \in Linked : r[e] \in Nat /\ BucketOf(e) \in Buckets
  BY AllocAssumption DEF SafeInv, TypeInv, TypeOK, EntriesAreBlocks, Linked, Ranks, BucketOf
<1>2. InTable \subseteq Linked
  <2>1. Closed(Linked)
    BY DEF Closed, Lists, HeadFirst, NextBelow
  <2> QED BY <1>1, <2>1 DEF InTable
<1>3. ASSUME NEW f \in Linked, NEW S \in SUBSET Entries, Closed(S), f \notin S
      PROVE  FALSE
  <2> DEFINE A == {e \in Linked \cap S : BucketOf(e) = BucketOf(f) /\ r[f] < r[e]}
             h == addr_hash[BucketOf(f)]
  <2>1. h \in A
    <3>1. h \in Linked /\ BucketOf(h) = BucketOf(f) /\ r[f] <= r[h]
      BY <1>1, <1>3 DEF Lists, HeadFirst
    <3>2. h \in S
      BY <1>1, <1>3, <3>1, AllocAssumption DEF Closed
    <3>3. r[f] # r[h]
      BY <1>3, <3>1, <3>2 DEF Lists
    <3> QED BY <1>1, <3>1, <3>2, <3>3
  <2>2. PICK g \in A : \A e \in A : r[g] <= r[e]
    <3> HIDE DEF h
    <3>1. {r[e] : e \in A} \in SUBSET Nat /\ {r[e] : e \in A} # {}
      BY <1>1, <2>1
    <3>2. PICK m \in {r[e] : e \in A} : \A n \in {r[e] : e \in A} : m <= n
      BY <3>1, LeastNatural
    <3> QED BY <3>2
  <2>3. next[g] \in Linked /\ BucketOf(next[g]) = BucketOf(f) /\ r[next[g]] < r[g]
        /\ r[f] <= r[next[g]]
    BY <1>1, <1>3, <2>2 DEF Lists, NextBelow
  <2>4. next[g] \in S /\ r[f] # r[next[g]]
    BY <1>1, <1>3, <2>2, <2>3, AllocAssumption DEF Closed, Lists
  <2> QED BY <1>1, <2>2, <2>3, <2>4
<1> QED BY <1>1, <1>2, <1>3 DEF InTable

(* Until a thread is overtaken, an entry leaves the map when its block     *)
(* does: none is leaked and none is given back to libc while linked.       *)
THEOREM NoEntryLeaked == Spec => []EntriesNotLeaked
<1>1. UntilOvertaken => EntriesNotLeaked
  <2> SUFFICES ASSUME Inv PROVE
               live = InTable \cup {cursor[t].e : t \in {u \in Threads : pc[u] = "rec_write"}}
    BY DEF UntilOvertaken, EntriesNotLeaked
  <2>1. InTable = Linked
    BY ReachedAreLinked DEF Inv, TableInv
  <2>2. \A t \in Threads : pc[t] = "rec_write" => cursor[t].e \in live
    BY DEF Inv, SafeInv, Knows
  <2> QED BY <2>1, <2>2 DEF Linked
<1> QED BY InitUntilOvertaken, NextUntilOvertaken, <1>1, PTL DEF Spec

-----------------------------------------------------------------------------
(* What the refinement needs besides: a thread that asks the table has no  *)
(* answer yet, and it allocates a size that the application asked for.     *)
Asking(t) ==
  /\ pc[t] \in {"idle", "free", "find", "compare"} => old[t] = 0
  /\ call[t].op \in {"malloc", "realloc"} => call[t].size \in Sizes

AllAsking == \A t \in Threads : Asking(t)

LEMMA InitAsking == Init => AllAsking
  BY DEF Init, AllAsking, Asking, NoCall

LEMMA StepAsking ==
  ASSUME TypeInv, AllAsking, NEW t \in Threads, App(t) \/ Hook(t)
  PROVE  AllAsking'
<1> USE DEF TypeInv, TypeOK, WellCalled, Goto, Return, Begin, NoCall
<1>1. OthersSame(t) /\ Asking(t)
  BY StepOthersSame DEF AllAsking
<1>2. Asking(t)'
  <2>1. CASE App(t)
    BY <1>1, <2>1 DEF App, CallMalloc, CallFree, CallRealloc, Asking
  <2>2. CASE MallocDecide(t) \/ NumaAlloc(t) \/ LibcAlloc(t) \/ MallocReturn(t)
    BY <1>1, <2>2 DEF MallocDecide, NumaAlloc, LibcAlloc, MallocReturn, Asking
  <2>3. CASE RecordPrepare(t) \/ RecordWrite(t) \/ Unlink(t)
    BY <1>1, <2>3 DEF RecordPrepare, RecordWrite, Unlink, Asking
  <2>4. CASE Find(t) \/ Compare(t)
    BY <1>1, <2>4 DEF Find, FindMiss, FindEntry, Compare, CompareNext, CompareHit, Asking
  <2>5. CASE FreeDecide(t) \/ LibcFree(t) \/ NumaFree(t)
    BY <1>1, <2>5 DEF FreeDecide, LibcFree, NumaFree, Asking
  <2>6. CASE ReallocCopy(t) \/ ReallocFail(t) \/ LibcRealloc(t)
    BY <1>1, <2>6 DEF ReallocCopy, ReallocFail, LibcRealloc, Asking
  <2> QED BY <2>1, <2>2, <2>3, <2>4, <2>5, <2>6 DEF Hook
<1>3. \A u \in Threads \ {t} : Asking(u)'
  BY <1>1 DEF AllAsking, Asking, OthersSame
<1> QED BY <1>2, <1>3 DEF AllAsking

-----------------------------------------------------------------------------
(* The refinement, one step of a hook at a time. *)

LEMMA InitTable == Init => Table!Init
<1> SUFFICES ASSUME Init PROVE Table!Init
  OBVIOUS
<1>1. InTable = {}
  <2>1. Closed({}) /\ {} \in SUBSET Entries
    BY DEF Init, Closed
  <2> QED BY <2>1 DEF InTable
<1>2. TableSegs = {}
  BY <1>1 DEF TableSegs
<1>3. TableCalls = [t \in Threads |-> NoTableCall] /\ TableRets = [t \in Threads |-> 0]
  BY DEF Init, TableCalls, TableRets, AbstractCall
<1> QED BY <1>2, <1>3 DEF Table!Init, Init

(* The call that is pending in each place. *)
LEMMA PendingCall ==
  ASSUME NEW t \in Threads
  PROVE  /\ pc[t] \in {"record", "rec_write"} => AbstractCall(t) =
              [kind |-> "record", seg |-> [addr |-> new[t], size |-> call[t].size]]
         /\ pc[t] \in {"find", "compare", "unlink"} =>
              AbstractCall(t) = [kind |-> "remove", addr |-> call[t].ptr]
         /\ pc[t] \notin {"record", "rec_write", "find", "compare", "unlink"} =>
              AbstractCall(t) = NoTableCall
         /\ AbstractCall(t) # NoTableCall /\ AbstractCall(t).kind = "record" =>
              pc[t] \in {"record", "rec_write"}
  BY DEF AbstractCall, NoTableCall

(* Only the thread that takes the step calls the table or hears from it.   *)
LEMMA OneCaller ==
  ASSUME SafeInv, NEW t \in Threads, App(t) \/ Hook(t), TypeInv',
         NEW c, NEW n, AbstractCall(t)' = c, (IF pc[t] = "unlink" THEN 0 ELSE old[t])' = n
  PROVE  /\ TableCalls' = [TableCalls EXCEPT ![t] = c]
         /\ TableRets' = [TableRets EXCEPT ![t] = n]
<1>1. OthersSame(t)
  BY StepOthersSame DEF SafeInv
<1>2. \A u \in Threads \ {t} : AbstractCall(u)' = AbstractCall(u)
  BY <1>1 DEF OthersSame, AbstractCall
<1> QED BY <1>1, <1>2 DEF OthersSame, TableCalls, TableRets

(* What the step does to the segments. *)
LEMMA SegsStep ==
  ASSUME SafeInv, NEW r \in Ranks, TableInv(r), NEW t \in Threads, App(t) \/ Hook(t),
         TypeInv', ~overtaken', InTable = Linked, InTable' = Linked'
  PROVE  /\ pc[t] \notin {"rec_write", "unlink"} => TableSegs' = TableSegs
         /\ pc[t] = "rec_write" =>
              TableSegs' = TableSegs \cup {[addr |-> new[t], size |-> call[t].size]}
         /\ pc[t] = "unlink" =>
              \E s \in TableSegs : /\ TableSegs' = TableSegs \ {s}
                                   /\ s.addr = call[t].ptr /\ s.size = old[t]
<1>1. /\ TableSegs = {entry[e] : e \in Linked}
      /\ TableSegs' = {entry[e] : e \in Linked'}
  <2>1. TableSegs' = {entry'[e] : e \in Linked'} /\ \A e \in Linked' : entry'[e] = entry[e]
    BY TableStep DEF TableSegs
  <2> QED BY <2>1 DEF TableSegs
<1>2. CASE pc[t] \notin {"rec_write", "unlink"}
  BY <1>1, <1>2, TableStep
<1>3. CASE pc[t] = "rec_write"
  <2>1. entry[cursor[t].e] = [addr |-> new[t], size |-> call[t].size]
    BY <1>3 DEF SafeInv, Knows
  <2>2. Linked' = Linked \cup {cursor[t].e}
    BY <1>3, TableStep
  <2> QED BY <1>1, <1>3, <2>1, <2>2
<1>4. CASE pc[t] = "unlink"
  <2> DEFINE c == cursor[t].e
  <2>1. c \in Linked /\ entry[c].addr = call[t].ptr /\ entry[c].size = old[t]
    BY <1>4 DEF TableInv, Reads, AtEntry
  <2>2. Linked' = Linked \ {c}
    BY <1>4, TableStep
  <2>3. \A e \in Linked : entry[e] = entry[c] => e = c
    BY <2>1 DEF SafeInv, EntriesAreBlocks
  <2> HIDE DEF c
  <2>4. TableSegs' = TableSegs \ {entry[c]}
    BY <1>1, <2>1, <2>2, <2>3
  <2> QED BY <1>1, <1>4, <2>1, <2>4
<1> QED BY <1>2, <1>3, <1>4

(* A block that is about to be recorded has no segment, recorded or about  *)
(* to be.                                                                  *)
LEMMA NewSegment ==
  ASSUME SafeInv, InTable = Linked, NEW a \in Addrs, block[a].by = "free"
  PROVE  /\ \A s \in TableSegs : s.addr # a
         /\ \A u \in Threads :
              AbstractCall(u) # NoTableCall /\ AbstractCall(u).kind = "record"
                => AbstractCall(u).seg.addr # a
<1>1. ASSUME NEW e \in Linked PROVE entry[e].addr # a
  <2>1. block[entry[e].addr] = [by |-> "numa", size |-> entry[e].size]
    BY DEF SafeInv, EntriesAreBlocks
  <2>2. block[entry[e].addr].by = "numa"
    BY <2>1
  <2> QED BY <2>2
<1>2. ASSUME NEW u \in Threads, pc[u] \in {"record", "rec_write"}
      PROVE  AbstractCall(u).seg.addr # a
  <2>1. AbstractCall(u) = [kind |-> "record", seg |-> [addr |-> new[u], size |-> call[u].size]]
    BY <1>2, PendingCall
  <2>2. block[new[u]] = [by |-> "numa", size |-> call[u].size]
    BY <1>2 DEF SafeInv, Knows, ToRecord
  <2>3. block[new[u]].by = "numa"
    BY <2>2
  <2> QED BY <2>1, <2>3
<1> QED BY <1>1, <1>2, PendingCall DEF TableSegs

(* A step of a hook is an operation of the abstract table, or it leaves    *)
(* the table, its callers and its answers as they are.                     *)
TableRest == <<TableSegs, TableCalls, TableRets>>

LEMMA StepTable ==
  ASSUME SafeInv, AllAsking, NEW r \in Ranks, TableInv(r), NEW t \in Threads,
         App(t) \/ Hook(t), TypeInv', ~overtaken', InTable = Linked, InTable' = Linked'
  PROVE  Table!Operate \/ UNCHANGED TableRest
<1>1. /\ TypeOK /\ TypeOK' /\ WellCalled(t) /\ Knows(t) /\ Asking(t)
      /\ TableCalls[t] = AbstractCall(t)
      /\ TableRets[t] = IF pc[t] = "unlink" THEN 0 ELSE old[t]
  BY DEF SafeInv, TypeInv, AllAsking, TableCalls, TableRets
<1> USE <1>1 DEF TypeOK, Goto, Return, Begin
(* The kinds of step. *)
<1>2. ASSUME pc[t] \notin {"rec_write", "unlink"},
             AbstractCall(t)' = AbstractCall(t),
             (IF pc[t] = "unlink" THEN 0 ELSE old[t])' = old[t]
      PROVE  UNCHANGED TableRest
  <2>1. TableSegs' = TableSegs
    BY <1>2, SegsStep
  <2>2. /\ TableCalls' = [TableCalls EXCEPT ![t] = AbstractCall(t)]
        /\ TableRets' = [TableRets EXCEPT ![t] = old[t]]
    BY <1>2, OneCaller
  <2>3. TableCalls' = TableCalls /\ TableRets' = TableRets
    BY <1>2, <2>2 DEF TableCalls, TableRets
  <2> QED BY <2>1, <2>3 DEF TableRest
<1>3. ASSUME pc[t] \in {"idle", "free"}, pc'[t] = "find", call'[t].ptr \in Addrs,
             old' = old
      PROVE  Table!Operate
  <2> DEFINE c == [kind |-> "remove", addr |-> call'[t].ptr]
  <2>1. AbstractCall(t) = NoTableCall /\ AbstractCall(t)' = c
    BY <1>3 DEF AbstractCall
  <2>2. TableCalls' = [TableCalls EXCEPT ![t] = c] /\ TableRets' = TableRets
    <3>1. (IF pc[t] = "unlink" THEN 0 ELSE old[t])' = old[t]
      BY <1>3
    <3>2. TableRets' = [TableRets EXCEPT ![t] = old[t]] /\ TableRets[t] = old[t]
      BY <1>3, <2>1, <3>1, OneCaller
    <3> QED BY ZenonT(60), <2>1, <3>1, <3>2, OneCaller DEF TableRets
  <2>3. TableSegs' = TableSegs
    BY <1>3, SegsStep
  <2>4. Table!BeginRemove(t, call'[t].ptr)
    BY <2>1, <2>2, <2>3 DEF Table!BeginRemove
  <2> QED BY <1>3, <2>4 DEF Table!Operate
<1>4. ASSUME pc[t] \notin {"record", "rec_write", "find", "compare", "unlink"},
             pc'[t] = "idle", old'[t] = 0
      PROVE  Table!Operate
  <2>1. AbstractCall(t) = NoTableCall /\ AbstractCall(t)' = NoTableCall
    BY <1>4 DEF AbstractCall
  <2>2. /\ TableRets' = [TableRets EXCEPT ![t] = 0]
        /\ TableCalls' = [TableCalls EXCEPT ![t] = NoTableCall]
    BY <1>4, <2>1, OneCaller
  <2>3. TableCalls' = TableCalls
    BY <2>1, <2>2 DEF TableCalls
  <2>4. Table!Forget(t)
    BY <1>4, <2>1, <2>2, <2>3, SegsStep DEF Table!Forget
  <2> QED BY <2>4 DEF Table!Operate
(* The steps of the application. *)
<1>5. CASE App(t)
  <2>1. CASE \E p \in Addrs : p \in held /\ \E sz \in Sizes : Begin(t, "realloc", p, sz, "find")
    <3>1. pc[t] = "idle" /\ pc'[t] = "find" /\ call'[t].ptr \in Addrs /\ old' = old
      BY <2>1
    <3> QED BY <1>3, <3>1
  <2>2. CASE pc[t] = "idle" /\ pc'[t] \in {"malloc", "free"} /\ old' = old
    <3>1. AbstractCall(t)' = AbstractCall(t)
      BY <2>2 DEF AbstractCall
    <3> QED BY <1>2, <2>2, <3>1
  <2> QED BY <1>5, <2>1, <2>2 DEF App, CallMalloc, CallFree, CallRealloc
(* malloc, record_seg *)
<1>6. CASE MallocDecide(t) \/ LibcAlloc(t) \/ ReallocCopy(t)
  <2>1. /\ pc[t] \in {"malloc", "libc_alloc", "done"} /\ old' = old
        /\ pc'[t] \in {"numa_alloc", "libc_alloc", "done", "numa_free"}
    BY <1>6 DEF MallocDecide, LibcAlloc, ReallocCopy
  <2>2. AbstractCall(t)' = AbstractCall(t)
    BY <2>1 DEF AbstractCall
  <2> QED BY <1>2, <2>1, <2>2
<1>7. CASE NumaAlloc(t)
  <2>1. pc[t] = "numa_alloc" /\ old' = old /\ call' = call
    BY <1>7 DEF NumaAlloc
  <2>2. ASSUME pc'[t] = "libc_alloc" PROVE UNCHANGED TableRest
    <3>1. AbstractCall(t)' = AbstractCall(t)
      BY <2>1, <2>2 DEF AbstractCall
    <3> QED BY <1>2, <2>1, <2>2, <3>1
  <2>3. ASSUME NEW a \in Addrs, Take(t, a, "numa"), pc'[t] = "record" PROVE Table!Operate
    <3> DEFINE s == [addr |-> a, size |-> call[t].size]
               c == [kind |-> "record", seg |-> s]
    <3>1. s \in Table!Segments
      BY <2>1 DEF Table!Segments, Asking, InMalloc, WellCalled
    <3>2. AbstractCall(t) = NoTableCall /\ AbstractCall(t)' = c
      BY <2>1, <2>3 DEF AbstractCall, Take
    <3>3. TableCalls' = [TableCalls EXCEPT ![t] = c] /\ TableRets' = TableRets
      <4>1. (IF pc[t] = "unlink" THEN 0 ELSE old[t])' = old[t]
        BY <2>1, <2>3
      <4>2. TableRets' = [TableRets EXCEPT ![t] = old[t]] /\ TableRets[t] = old[t]
        BY <2>1, <3>2, <4>1, OneCaller
      <4> QED BY ZenonT(60), <3>2, <4>1, <4>2, OneCaller DEF TableRets
    <3>4. block[a].by = "free"
      BY <2>3 DEF Take, Free
    <3>5. TableSegs' = TableSegs
      BY <2>1, SegsStep
    <3>6. /\ Table!SegsAt(s.addr) = {}
          /\ \A u \in Threads : TableCalls[u] # NoTableCall /\ TableCalls[u].kind = "record"
                               => TableCalls[u].seg.addr # s.addr
      BY <3>4, NewSegment DEF Table!SegsAt, TableCalls
    <3>7. Table!BeginRecord(t, s)
      BY <3>2, <3>3, <3>5, <3>6 DEF Table!BeginRecord
    <3> QED BY <3>1, <3>7 DEF Table!Operate
  <2> QED BY <1>7, <2>2, <2>3 DEF NumaAlloc
<1>8. CASE RecordPrepare(t)
  <2>1. pc[t] = "record" /\ old' = old /\ call' = call /\ new' = new
    BY <1>8 DEF RecordPrepare
  <2>2. CASE pc'[t] = "rec_write"
    <3>1. AbstractCall(t)' = AbstractCall(t)
      BY <2>1, <2>2 DEF AbstractCall
    <3> QED BY <1>2, <2>1, <2>2, <3>1
  <2>3. CASE pc'[t] = "done"
    <3>1. AbstractCall(t)' = NoTableCall /\ (IF pc[t] = "unlink" THEN 0 ELSE old[t])' = old[t]
      BY <2>1, <2>3 DEF AbstractCall
    <3>2. /\ TableCalls' = [TableCalls EXCEPT ![t] = NoTableCall]
          /\ TableRets' = [TableRets EXCEPT ![t] = old[t]]
      BY <3>1, OneCaller
    <3>3. TableRets' = TableRets
      BY <2>1, <3>2 DEF TableRets
    <3>4. TableCalls[t] # NoTableCall /\ TableCalls[t].kind = "record"
      BY <2>1, PendingCall DEF NoTableCall
    <3>5. Table!Drop(t)
      BY <2>1, <3>2, <3>3, <3>4, SegsStep DEF Table!Drop
    <3> QED BY <3>5 DEF Table!Operate
  <2> QED BY <1>8, <2>2, <2>3 DEF RecordPrepare
<1>9. CASE RecordWrite(t)
  <2>1. pc[t] = "rec_write" /\ pc'[t] = "done" /\ old' = old
    BY <1>9 DEF RecordWrite
  <2>2. AbstractCall(t)' = NoTableCall /\ (IF pc[t] = "unlink" THEN 0 ELSE old[t])' = old[t]
    BY <2>1 DEF AbstractCall
  <2>3. /\ TableCalls' = [TableCalls EXCEPT ![t] = NoTableCall]
        /\ TableRets' = [TableRets EXCEPT ![t] = old[t]]
    BY <2>2, OneCaller
  <2>4. TableRets' = TableRets
    BY <2>1, <2>3 DEF TableRets
  <2>5. TableCalls[t] = [kind |-> "record", seg |-> [addr |-> new[t], size |-> call[t].size]]
    BY <2>1, PendingCall
  <2>6. Table!Record(t)
    BY <2>1, <2>3, <2>4, <2>5, SegsStep DEF Table!Record, NoTableCall
  <2> QED BY <2>6 DEF Table!Operate
(* free and realloc, check_and_remove_seg *)
<1>10. CASE FreeDecide(t)
  <2>1. pc[t] = "free" /\ pc'[t] \in {"find", "libc_free"} /\ old' = old /\ call' = call
    BY <1>10 DEF FreeDecide
  <2>2. CASE pc'[t] = "find"
    BY <1>3, <2>1, <2>2 DEF WellCalled
  <2>3. CASE pc'[t] = "libc_free"
    <3>1. AbstractCall(t)' = AbstractCall(t)
      BY <2>1, <2>3 DEF AbstractCall
    <3> QED BY <1>2, <2>1, <2>3, <3>1
  <2> QED BY <2>1, <2>2, <2>3
<1>11. CASE Find(t)
  <2>1. pc[t] = "find" /\ call' = call /\ old[t] = 0
    BY <1>11 DEF Find, FindMiss, FindEntry, Asking
  <2>2. CASE FindMiss(t)
    <3>1. pc'[t] \in {"libc_free", "libc_realloc"} /\ old' = old
      BY <2>2 DEF FindMiss
    <3>2. AbstractCall(t)' = NoTableCall /\ (IF pc[t] = "unlink" THEN 0 ELSE old[t])' = old[t]
      BY <3>1 DEF AbstractCall
    <3>3. /\ TableCalls' = [TableCalls EXCEPT ![t] = NoTableCall]
          /\ TableRets' = [TableRets EXCEPT ![t] = old[t]]
      BY <3>2, OneCaller
    <3>4. TableRets' = TableRets
      BY <2>1, <3>3 DEF TableRets
    <3>5. /\ TableCalls[t] # NoTableCall /\ TableCalls[t].kind = "remove"
          /\ TableCalls[t].addr = call[t].ptr
      BY <2>1, PendingCall DEF NoTableCall
    <3>6. Table!SegsAt(call[t].ptr) = {}
      BY <2>1, <2>2, MissKnows DEF Table!SegsAt, TableSegs
    <3>7. TableSegs' = TableSegs
      BY <2>1, SegsStep
    <3>8. Table!Remove(t)
      BY <3>3, <3>4, <3>5, <3>6, <3>7 DEF Table!Remove
    <3> QED BY <3>8 DEF Table!Operate
  <2>3. CASE FindEntry(t)
    <3>1. pc'[t] = "compare" /\ old' = old
      BY <2>3 DEF FindEntry
    <3>2. AbstractCall(t)' = AbstractCall(t)
      BY <2>1, <3>1 DEF AbstractCall
    <3> QED BY <1>2, <2>1, <3>1, <3>2
  <2> QED BY <1>11, <2>2, <2>3 DEF Find
<1>14. CASE Compare(t)
  <2>1. /\ pc[t] = "compare" /\ call' = call /\ old[t] = 0 /\ pc'[t] \in {"find", "unlink"}
        /\ pc'[t] = "find" => old' = old
    BY <1>14 DEF Compare, CompareNext, CompareHit, Asking
  <2>2. AbstractCall(t)' = AbstractCall(t)
    BY <2>1 DEF AbstractCall
  <2> QED BY <1>2, <2>1, <2>2
<1>12. CASE Unlink(t)
  <2>1. pc[t] = "unlink" /\ pc'[t] \in {"numa_free", "malloc"} /\ old' = old
    BY <1>12 DEF Unlink
  <2>2. AbstractCall(t)' = NoTableCall /\ (IF pc[t] = "unlink" THEN 0 ELSE old[t])' = old[t]
    BY <2>1 DEF AbstractCall
  <2>3. /\ TableCalls' = [TableCalls EXCEPT ![t] = NoTableCall]
        /\ TableRets' = [TableRets EXCEPT ![t] = old[t]]
    BY <2>2, OneCaller
  <2>4. /\ TableCalls[t] # NoTableCall /\ TableCalls[t].kind = "remove"
        /\ TableCalls[t].addr = call[t].ptr
    BY <2>1, PendingCall DEF NoTableCall
  <2>5. PICK s \in TableSegs : /\ TableSegs' = TableSegs \ {s}
                              /\ s.addr = call[t].ptr /\ s.size = old[t]
    BY <2>1, SegsStep
  <2>6. s \in Table!SegsAt(call[t].ptr) /\ TableRets' = [TableRets EXCEPT ![t] = s.size]
    BY <2>3, <2>5 DEF Table!SegsAt
  <2>7. Table!Remove(t)
    BY <2>3, <2>4, <2>5, <2>6 DEF Table!Remove
  <2> QED BY <2>7 DEF Table!Operate
(* The returns. *)
<1>13. CASE MallocReturn(t) \/ LibcFree(t) \/ ReallocFail(t) \/ NumaFree(t) \/ LibcRealloc(t)
  <2>1. /\ pc[t] \notin {"record", "rec_write", "find", "compare", "unlink"}
        /\ pc'[t] = "idle" /\ old'[t] = 0
    BY <1>13 DEF MallocReturn, LibcFree, ReallocFail, NumaFree, LibcRealloc
  <2> QED BY <1>4, <2>1
<1> QED
  BY <1>5, <1>6, <1>7, <1>8, <1>9, <1>10, <1>11, <1>12, <1>13, <1>14 DEF Hook

LEMMA InvReached == Inv => InTable = Linked
  BY ReachedAreLinked DEF Inv, TableInv

LEMMA InvReachedNext == Inv' => (InTable = Linked)'
  BY InvReached, PTL

LEMMA NextTable ==
  UntilOvertaken /\ UntilOvertaken' /\ AllAsking /\ [Next]_vars => [Table!Next]_(Table!vars)
<1> SUFFICES ASSUME UntilOvertaken, UntilOvertaken', AllAsking, [Next]_vars
             PROVE  [Table!Next]_(Table!vars)
  OBVIOUS
<1>1. CASE overtaken'
  <2>1. overtaken' = TRUE
    BY <1>1 DEF UntilOvertaken, TypeInv, TypeOK
  <2> QED BY <2>1 DEF Table!Next, Table!Tear
<1>2. CASE ~overtaken'
  <2>1. Inv /\ Inv' /\ TypeInv' /\ overtaken' = overtaken
    BY <1>2, OvertakenStays DEF UntilOvertaken, TypeInv, TypeOK
  <2>2. InTable = Linked /\ InTable' = Linked'
    BY <2>1, InvReached, InvReachedNext
  <2>3. PICK r \in Ranks : TableInv(r)
    BY <2>1 DEF Inv
  <2>4. Table!Operate \/ UNCHANGED TableRest
    <3>1. CASE \E t \in Threads : App(t) \/ Hook(t)
      BY <1>2, <2>1, <2>2, <2>3, <3>1, StepTable DEF Inv
    <3>2. CASE PublishRules \/ UNCHANGED vars
      <4>1. UNCHANGED <<table, pc, call, old, new>>
        BY <3>2 DEF PublishRules, vars
      <4> QED BY <4>1 DEF table, TableRest, TableSegs, InTable, Closed, TableCalls, AbstractCall, TableRets
    <3> QED BY <3>1, <3>2 DEF Next
  <2> QED BY <2>1, <2>4 DEF Table!Next, Table!vars, TableRest
<1> QED BY <1>1, <1>2

(* Until a thread is overtaken, the lists of the map implement the         *)
(* abstract table, with any number of threads in a bucket: each call of    *)
(* record_seg and check_and_remove_seg takes effect at one instant, a      *)
(* removal answers with the size recorded for the address exactly when     *)
(* there is one, and no other step of a hook changes a segment.            *)
THEOREM ListsImplementTable == Spec => TableSpec
<1>1. AllAsking /\ UntilOvertaken /\ [Next]_vars => AllAsking'
  <2> SUFFICES ASSUME AllAsking, UntilOvertaken, [Next]_vars PROVE AllAsking'
    OBVIOUS
  <2>1. CASE PublishRules \/ UNCHANGED vars
    BY <2>1 DEF PublishRules, vars, AllAsking, Asking
  <2>2. CASE \E t \in Threads : App(t) \/ Hook(t)
    BY <2>2, StepAsking DEF UntilOvertaken
  <2> QED BY <2>1, <2>2 DEF Next
<1> QED BY InitUntilOvertaken, InitAsking, InitTable, NextUntilOvertaken, <1>1, NextTable, PTL
        DEF Spec, TableSpec, Table!Spec
=============================================================================
