----------------------------- MODULE MlockTable -----------------------------
(***************************************************************************)
(* libkumf_mlock.so (lib/mlock/ldlib.c): the hooks that keep a table of    *)
(* the large blocks and lock the first of them in memory.                  *)
(*                                                                         *)
(* The table is guarded by alloc_lock, the two counters are not: each      *)
(* update of a counter is a read and a write.  Memory is counted in units  *)
(* of which PageSize make a page, and the counter of bytes in pages.  The  *)
(* hash buckets are left out: an entry's bucket follows from its address,  *)
(* so the latest entry of an address is the first one found either way.    *)
(***************************************************************************)
EXTENDS Integers, SequencesExt

CONSTANTS
  Threads,
  Starts,           \* where blocks may begin
  Sizes,            \* what the application asks for
  Entries,          \* memory for entries
  PageSize,
  ROUTE_THRESHOLD,
  MLOCK_FIRST_N,
  MlockBudget,      \* in pages
  MaxInt, MaxSize,  \* the largest int, and the largest size_t, in pages
  HotList,          \* does the file name any page?  which ones is not used
  Failures,         \* what may fail: "libc", "entry", "mlock"
  Nobody, Nil

Blocks == [addr : Starts, size : Sizes]
EntryRecords == [addr : Starts, size : Sizes, locked : BOOLEAN]

ASSUME MlockAssumption ==
  /\ Starts \subseteq Nat /\ Sizes \subseteq Nat \ {0}
  /\ {PageSize, MlockBudget, MLOCK_FIRST_N, ROUTE_THRESHOLD, MaxInt, MaxSize} \subseteq Nat
  /\ PageSize > 0 /\ MaxInt > MLOCK_FIRST_N /\ MaxSize > MlockBudget
  /\ HotList \in BOOLEAN
  /\ Failures \subseteq {"libc", "entry", "mlock"}
  /\ Nobody \notin Threads
  /\ Nil \notin Entries \cup Blocks \cup EntryRecords

VARIABLES
  hot_pages_loaded,
  alloc_lock,       \* who holds it
  alloc_table,      \* the entries, the latest first
  entry,            \* what an entry holds; Nil if it is free
  alloc_count, total_locked,
  pages,            \* the pages the kernel keeps in memory
  held,             \* the blocks of the application
  pc, blk, want, e, tmp   \* of each thread: block, new size, entry, register

table == <<alloc_lock, alloc_table, entry>>
locals == <<blk, want, e, tmp>>
vars == <<hot_pages_loaded, table, alloc_count, total_locked, pages, held, pc, locals>>

Counting == {"count", "counted", "budget", "mlock", "add", "mark"}
Locations == {"idle", "malloc", "entry", "insert", "return", "free", "unlock",
              "libc_free", "realloc", "unlock_realloc", "libc_realloc"} \cup Counting

(* The pages a block touches, its first and last in part. *)
PagesOf(b) == (b.addr \div PageSize)..((b.addr + b.size + PageSize - 1) \div PageSize - 1)
LockSize(b) == (b.addr + b.size + PageSize - 1) \div PageSize - b.addr \div PageSize

TypeOK ==
  /\ hot_pages_loaded \in BOOLEAN
  /\ alloc_lock \in Threads \cup {Nobody}
  /\ alloc_table \in Seq(Entries) /\ IsInjective(alloc_table)
  /\ entry \in [Entries -> EntryRecords \cup {Nil}]
  /\ alloc_count \in -MaxInt-1..MaxInt
  /\ total_locked \in 0..MaxSize
  /\ pages \subseteq UNION {PagesOf(b) : b \in Blocks}
  /\ held \subseteq Blocks
  /\ pc \in [Threads -> Locations]
  /\ blk \in [Threads -> Blocks \cup {Nil}]
  /\ want \in [Threads -> Sizes \cup {0}]
  /\ e \in [Threads -> Entries \cup {Nil}]
  /\ tmp \in [Threads -> Int]

Init ==
  /\ hot_pages_loaded = FALSE
  /\ alloc_lock = Nobody /\ alloc_table = <<>> /\ entry = [n \in Entries |-> Nil]
  /\ alloc_count = 0 /\ total_locked = 0
  /\ pages = {} /\ held = {}
  /\ pc = [t \in Threads |-> "idle"]
  /\ blk = [t \in Threads |-> Nil]
  /\ want = [t \in Threads |-> 0]
  /\ e = [t \in Threads |-> Nil]
  /\ tmp = [t \in Threads |-> 0]

Goto(t, from, to) == pc[t] = from /\ pc' = [pc EXCEPT ![t] = to]

(* The constructor, before main or late, when a thread came first. *)
Load ==
  /\ ~hot_pages_loaded
  /\ hot_pages_loaded' = TRUE
  /\ UNCHANGED <<table, alloc_count, total_locked, pages, held, pc, locals>>

-----------------------------------------------------------------------------
(* The application and libc *)

InUse == (held \cup {blk[t] : t \in Threads}) \ {Nil}
Overlap(b, c) == b.addr < c.addr + c.size /\ c.addr < b.addr + b.size
Free(b, used) == \A c \in used : ~Overlap(b, c)

CallMalloc(t, s) ==
  /\ Goto(t, "idle", "malloc")
  /\ want' = [want EXCEPT ![t] = s]
  /\ UNCHANGED <<hot_pages_loaded, table, alloc_count, total_locked, pages, held, blk, e, tmp>>

(* The application gives a block back, or has it resized. *)
Begin(t, b, s, to) ==
  /\ Goto(t, "idle", to)
  /\ held' = held \ {b}
  /\ blk' = [blk EXCEPT ![t] = b]
  /\ want' = [want EXCEPT ![t] = s]
  /\ UNCHANGED <<hot_pages_loaded, table, alloc_count, total_locked, pages, e, tmp>>

CallFree(t, b) == Begin(t, b, 0, IF hot_pages_loaded THEN "free" ELSE "libc_free")

(* Mutant: the old block stays in the table. *)
CallRealloc_Keep(t, b, s) == Begin(t, b, s, "libc_realloc")

CallRealloc(t, b, s) == Begin(t, b, s, "realloc")

(* A new block is recorded only if it is large. *)
AfterLibc(b) ==
  IF hot_pages_loaded /\ b.size > ROUTE_THRESHOLD THEN "entry" ELSE "return"

LibcMalloc(t) ==
  /\ \/ \E b \in Blocks :
          /\ b.size = want[t] /\ Free(b, InUse)
          /\ Goto(t, "malloc", AfterLibc(b))
          /\ blk' = [blk EXCEPT ![t] = b]
     \/ /\ \/ "libc" \in Failures
           \/ \A b \in Blocks : b.size = want[t] => ~Free(b, InUse)
        /\ Goto(t, "malloc", "return")
        /\ UNCHANGED blk
  /\ UNCHANGED <<hot_pages_loaded, table, alloc_count, total_locked, pages, held, want, e, tmp>>

(* In place or elsewhere; a failure leaves the old block to the caller,    *)
(* who gets NULL and no new record.                                        *)
LibcRealloc(t) ==
  /\ \/ \E b \in Blocks :
          /\ b.size = want[t] /\ Free(b, InUse \ {blk[t]})
          /\ Goto(t, "libc_realloc", AfterLibc(b))
          /\ blk' = [blk EXCEPT ![t] = b]
     \/ /\ \/ "libc" \in Failures
           \/ \A b \in Blocks : b.size = want[t] => ~Free(b, InUse \ {blk[t]})
        /\ Goto(t, "libc_realloc", "return")
        /\ UNCHANGED blk
  /\ UNCHANGED <<hot_pages_loaded, table, alloc_count, total_locked, pages, held, want, e, tmp>>

(* The thread is back in the application and forgets its locals. *)
Forget(t) ==
  /\ blk' = [blk EXCEPT ![t] = Nil]
  /\ want' = [want EXCEPT ![t] = 0]
  /\ e' = [e EXCEPT ![t] = Nil]
  /\ tmp' = [tmp EXCEPT ![t] = 0]

LibcFree(t) ==
  /\ Goto(t, "libc_free", "idle")
  /\ Forget(t)
  /\ UNCHANGED <<hot_pages_loaded, table, alloc_count, total_locked, pages, held>>

ReturnBlock(t) ==
  /\ Goto(t, "return", "idle")
  /\ held' = held \cup ({blk[t]} \ {Nil})
  /\ Forget(t)
  /\ UNCHANGED <<hot_pages_loaded, table, alloc_count, total_locked, pages>>

-----------------------------------------------------------------------------
(* record_alloc *)

NewEntry(t) ==
  /\ \/ \E n \in Entries :
          /\ entry[n] = Nil
          /\ Goto(t, "entry", "insert")
          /\ entry' = [entry EXCEPT ![n] = [addr |-> blk[t].addr, size |-> blk[t].size,
                                            locked |-> FALSE]]
          /\ e' = [e EXCEPT ![t] = n]
     \/ /\ "entry" \in Failures \/ \A n \in Entries : entry[n] # Nil
        /\ Goto(t, "entry", "return")
        /\ UNCHANGED <<entry, e>>
  /\ UNCHANGED <<hot_pages_loaded, alloc_lock, alloc_table, alloc_count, total_locked,
                 pages, held, blk, want, tmp>>

Insert(t) ==
  /\ alloc_lock = Nobody
  /\ Goto(t, "insert", IF HotList THEN "count" ELSE "return")
  /\ alloc_table' = <<e[t]>> \o alloc_table
  /\ UNCHANGED <<hot_pages_loaded, alloc_lock, entry, alloc_count, total_locked,
                 pages, held, locals>>

(* Mutant: the entry is not marked. *)
Mark_Forgotten(t) ==
  /\ Goto(t, "mark", "return")
  /\ UNCHANGED <<hot_pages_loaded, table, alloc_count, total_locked, pages, held, locals>>

(* Without the lock, and whether or not try_mlock locked anything. *)
Mark(t) ==
  /\ Goto(t, "mark", "return")
  /\ entry' = [entry EXCEPT ![e[t]].locked = TRUE]
  /\ UNCHANGED <<hot_pages_loaded, alloc_lock, alloc_table, alloc_count, total_locked,
                 pages, held, locals>>

-----------------------------------------------------------------------------
(* try_mlock *)

(* The build lets an int wrap. *)
Wrap(n) == IF n > MaxInt THEN n - 2 * (MaxInt + 1) ELSE n

ReadCount(t) ==
  /\ Goto(t, "count", "counted")
  /\ tmp' = [tmp EXCEPT ![t] = Wrap(alloc_count + 1)]
  /\ UNCHANGED <<hot_pages_loaded, table, alloc_count, total_locked, pages, held, blk, want, e>>

WriteCount(t) ==
  /\ Goto(t, "counted", IF tmp[t] > MLOCK_FIRST_N THEN "mark" ELSE "budget")
  /\ alloc_count' = tmp[t]
  /\ UNCHANGED <<hot_pages_loaded, table, total_locked, pages, held, locals>>

CheckBudget(t) ==
  /\ Goto(t, "budget", IF MlockBudget > 0 /\ total_locked + LockSize(blk[t]) > MlockBudget
                       THEN "mark" ELSE "mlock")
  /\ UNCHANGED <<hot_pages_loaded, table, alloc_count, total_locked, pages, held, locals>>

(* mlock, and the read of the counter if it succeeds. *)
Mlock(t) ==
  /\ \/ /\ Goto(t, "mlock", "add")
        /\ pages' = pages \cup PagesOf(blk[t])
        /\ tmp' = [tmp EXCEPT ![t] = total_locked]
     \/ /\ "mlock" \in Failures
        /\ Goto(t, "mlock", "mark")
        /\ UNCHANGED <<pages, tmp>>
  /\ UNCHANGED <<hot_pages_loaded, table, alloc_count, total_locked, held, blk, want, e>>

WriteTotal(t) ==
  /\ Goto(t, "add", "mark")
  /\ total_locked' = (tmp[t] + LockSize(blk[t])) % (MaxSize + 1)
  /\ UNCHANGED <<hot_pages_loaded, table, alloc_count, pages, held, locals>>

-----------------------------------------------------------------------------
(* remove_alloc, called by free and by realloc *)

Matches(n, b) == entry[n].addr = b.addr

AfterRemove(t) == IF pc[t] \in {"free", "unlock"} THEN "libc_free" ELSE "libc_realloc"
Removing(t) == pc[t] \in {"free", "realloc"}

RemoveMiss(t) ==
  /\ Removing(t) /\ alloc_lock = Nobody
  /\ \A n \in ToSet(alloc_table) : ~Matches(n, blk[t])
  /\ Goto(t, pc[t], AfterRemove(t))
  /\ UNCHANGED <<hot_pages_loaded, table, alloc_count, total_locked, pages, held, locals>>

(* The lock is taken, the entry is found, munlock is called and the        *)
(* counter is read; the lock is kept.                                      *)
RemoveFind(t) ==
  /\ Removing(t) /\ alloc_lock = Nobody
  /\ \E k \in DOMAIN alloc_table :
       LET n == alloc_table[k] IN
       /\ Matches(n, blk[t]) /\ \A i \in 1..k-1 : ~Matches(alloc_table[i], blk[t])
       /\ e' = [e EXCEPT ![t] = n]
       /\ pages' = IF entry[n].locked THEN pages \ PagesOf(entry[n]) ELSE pages
  /\ alloc_lock' = t
  /\ tmp' = [tmp EXCEPT ![t] = total_locked]
  /\ Goto(t, pc[t], IF pc[t] = "free" THEN "unlock" ELSE "unlock_realloc")
  /\ UNCHANGED <<hot_pages_loaded, alloc_table, entry, alloc_count, total_locked,
                 held, blk, want>>

(* Down to zero at most. *)
Less(n, k) == IF n >= k THEN n - k ELSE 0

(* The counter is written, the entry unlinked and freed. *)
RemoveUnlink(t) ==
  /\ pc[t] \in {"unlock", "unlock_realloc"}
  /\ Goto(t, pc[t], AfterRemove(t))
  /\ total_locked' = IF entry[e[t]].locked THEN Less(tmp[t], LockSize(entry[e[t]]))
                                          ELSE total_locked
  /\ \E k \in DOMAIN alloc_table :
       alloc_table[k] = e[t] /\ alloc_table' = RemoveAt(alloc_table, k)
  /\ entry' = [entry EXCEPT ![e[t]] = Nil]
  /\ alloc_lock' = Nobody
  /\ e' = [e EXCEPT ![t] = Nil]
  /\ tmp' = [tmp EXCEPT ![t] = 0]
  /\ UNCHANGED <<hot_pages_loaded, alloc_count, pages, held, blk, want>>

-----------------------------------------------------------------------------
App(t) ==
  \/ \E s \in Sizes : CallMalloc(t, s)
  \/ \E b \in held : CallFree(t, b) \/ \E s \in Sizes : CallRealloc(t, b, s)

Hook(t) ==
  \/ LibcMalloc(t) \/ LibcRealloc(t) \/ LibcFree(t) \/ ReturnBlock(t)
  \/ NewEntry(t) \/ Insert(t) \/ Mark(t)
  \/ ReadCount(t) \/ WriteCount(t) \/ CheckBudget(t) \/ Mlock(t) \/ WriteTotal(t)
  \/ RemoveMiss(t) \/ RemoveFind(t) \/ RemoveUnlink(t)

Next == Load \/ \E t \in Threads : App(t) \/ Hook(t)

Spec == Init /\ [][Next]_vars

-----------------------------------------------------------------------------
(* The blocks the library has to answer for: the application's and those   *)
(* on their way into or out of a hook.                                     *)
Block(n) == [addr |-> entry[n].addr, size |-> entry[n].size]

(* No entry outlives its block: each describes a block that is in use, as  *)
(* large as it says, and no two entries describe the same one.  Otherwise  *)
(* the next block at the address would be unlocked by the wrong entry.     *)
EntriesMatchBlocks ==
  /\ \A n \in ToSet(alloc_table) : Block(n) \in InUse
  /\ \A m, n \in ToSet(alloc_table) : entry[m].addr = entry[n].addr => m = n

(* Memory the library locked is given back: a page stays locked only as    *)
(* long as a block with an entry lies on it.                               *)
LockedPagesAreUsed ==
  pages \subseteq UNION {PagesOf(entry[n]) : n \in ToSet(alloc_table)}

=============================================================================
