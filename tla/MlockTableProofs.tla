-------------------------- MODULE MlockTableProofs --------------------------
(***************************************************************************)
(* Proofs about the table of large blocks (MlockTable): its type           *)
(* invariant, that its entries and the blocks in use correspond, and that  *)
(* no page stays locked without a block, for any number of threads, blocks *)
(* and entries, with racing counters and whatever fails.                   *)
(***************************************************************************)
EXTENDS MlockTable, SequenceTheorems, TLAPS

-----------------------------------------------------------------------------
(* The inductive invariant. *)

Recorded == ToSet(alloc_table)

(* A thread has what its place needs. *)
WellPlaced(t) ==
  /\ pc[t] \in {"idle", "malloc"} => blk[t] = Nil
  /\ pc[t] \notin {"idle", "malloc", "return"} => blk[t] \in Blocks
  /\ pc[t] \in Counting \cup {"insert", "unlock", "unlock_realloc"} => e[t] \in Entries
  /\ pc[t] = "counted" => tmp[t] \in -MaxInt-1..MaxInt
  /\ pc[t] \in {"add", "unlock", "unlock_realloc"} => tmp[t] \in 0..MaxSize

(* No two owners, the application or threads, have a block at one address. *)
OneOwner ==
  /\ \A b, c \in held : b.addr = c.addr => b = c
  /\ \A t \in Threads, b \in held : blk[t] # Nil => blk[t].addr # b.addr
  /\ \A t, u \in Threads :
       blk[t] # Nil /\ blk[u] # Nil /\ blk[t].addr = blk[u].addr => t = u

(* The entries in the table. *)
EntriesDescribeBlocks ==
  /\ \A n \in Recorded : entry[n] # Nil /\ Block(n) \in InUse
  /\ \A m, n \in Recorded : entry[m].addr = entry[n].addr => m = n
  /\ ~hot_pages_loaded => Recorded = {}

(* What a thread knows of the table: it has no entry for the block yet, or *)
(* no longer; it is about to link one; it has one that nobody else removes *)
(* while it counts and locks; or it holds the lock and is about to unlink. *)
Knows(t) ==
  /\ pc[t] \in {"entry", "insert"} => hot_pages_loaded
  /\ pc[t] \in {"entry", "insert", "libc_free", "libc_realloc"} =>
       \A n \in Recorded : entry[n].addr # blk[t].addr
  /\ pc[t] = "insert" =>
       /\ e[t] \notin Recorded
       /\ entry[e[t]] = [addr |-> blk[t].addr, size |-> blk[t].size, locked |-> FALSE]
  /\ pc[t] \in Counting => e[t] \in Recorded /\ Block(e[t]) = blk[t]
  /\ pc[t] \in {"unlock", "unlock_realloc"} =>
       e[t] \in Recorded /\ entry[e[t]].addr = blk[t].addr
  /\ pc[t] \in {"unlock", "unlock_realloc"} <=> alloc_lock = t

OneCellEach ==
  \A t, u \in Threads : pc[t] = "insert" /\ pc[u] = "insert" /\ e[t] = e[u] => t = u

(* The removal of entry n has begun. *)
Leaving(n) == \E t \in Threads : pc[t] \in {"unlock", "unlock_realloc"} /\ e[t] = n

(* A thread has locked the pages of n and will mark it. *)
Locking(n) == \E t \in Threads : pc[t] \in {"add", "mark"} /\ e[t] = n

(* A locked page is in a block whose entry says so, or will. *)
PagesCovered ==
  \A p \in pages : \E n \in Recorded :
    /\ p \in PagesOf(entry[n])
    /\ ~Leaving(n)
    /\ entry[n].locked \/ Locking(n)

TypeInv == TypeOK /\ \A t \in Threads : WellPlaced(t)

TableInv ==
  /\ OneOwner
  /\ EntriesDescribeBlocks
  /\ \A t \in Threads : Knows(t)
  /\ OneCellEach

Inv == TypeInv /\ TableInv /\ PagesCovered
-----------------------------------------------------------------------------
(* Sequences without repetition *)

(* An element put in front of a sequence that does not have it.            *)
LEMMA InsertFirst ==
  ASSUME NEW S, NEW s \in Seq(S), IsInjective(s), NEW x \in S, x \notin ToSet(s)
  PROVE  /\ <<x>> \o s \in Seq(S) /\ IsInjective(<<x>> \o s)
         /\ ToSet(<<x>> \o s) = ToSet(s) \cup {x}
<1> DEFINE r == <<x>> \o s
<1>1. /\ r \in Seq(S) /\ Len(s) \in Nat /\ DOMAIN s = 1..Len(s)
      /\ DOMAIN r = 1..(1 + Len(s))
      /\ r[1] = x /\ \A i \in 1..Len(s) : r[i + 1] = s[i]
  <2>1. <<x>> \in Seq(S) /\ Len(<<x>>) = 1 /\ <<x>>[1] = x
    OBVIOUS
  <2>2. /\ r \in Seq(S) /\ Len(r) = 1 + Len(s)
        /\ \A i \in 1..1 + Len(s) : r[i] = IF i <= 1 THEN <<x>>[i] ELSE s[i - 1]
    BY <2>1, ConcatProperties
  <2>3. /\ Len(s) \in Nat /\ DOMAIN s = 1..Len(s) /\ DOMAIN r = 1..Len(r)
    BY <2>2, LenProperties
  <2>4. r[1] = x
    BY <2>1, <2>2, <2>3
  <2>5. \A i \in 1..Len(s) : i + 1 \in 1..1 + Len(s) /\ ~(i + 1 <= 1) /\ (i + 1) - 1 = i
    BY <2>3
  <2>6. \A i \in 1..Len(s) : r[i + 1] = s[i]
    BY <2>2, <2>5
  <2> QED  BY <2>2, <2>3, <2>4, <2>6
<1> HIDE DEF r
<1>2. \A j \in DOMAIN r : j = 1 \/ \E i \in 1..Len(s) : j = i + 1
  <2> TAKE j \in DOMAIN r
  <2>1. j = 1 \/ (j - 1 \in 1..Len(s) /\ j = (j - 1) + 1)
    BY <1>1
  <2> QED  BY <2>1
<1>3. ToSet(r) = ToSet(s) \cup {x}
  <2>1. ASSUME NEW y \in ToSet(r)  PROVE y \in ToSet(s) \cup {x}
    <3>1. PICK j \in DOMAIN r : r[j] = y
      BY DEF ToSet
    <3>2. CASE j = 1
      BY <3>1, <3>2, <1>1
    <3>3. ASSUME NEW i \in 1..Len(s), j = i + 1  PROVE y \in ToSet(s)
      BY <3>1, <3>3, <1>1 DEF ToSet
    <3> QED  BY <3>2, <3>3, <1>2
  <2>2. ASSUME NEW y \in ToSet(s) \cup {x}  PROVE y \in ToSet(r)
    <3>1. CASE y = x
      BY <3>1, <1>1 DEF ToSet
    <3>2. CASE y \in ToSet(s)
      <4>1. PICK i \in 1..Len(s) : s[i] = y
        BY <3>2, <1>1 DEF ToSet
      <4>2. i + 1 \in DOMAIN r /\ r[i + 1] = y
        BY <4>1, <1>1
      <4> QED  BY <4>2 DEF ToSet
    <3> QED  BY <2>2, <3>1, <3>2
  <2> QED  BY <2>1, <2>2
<1>4. IsInjective(r)
  <2>1. \A i \in 1..Len(s) : s[i] # x
    BY <1>1 DEF ToSet
  <2>2. \A i, k \in 1..Len(s) : s[i] = s[k] => i = k
    BY <1>1 DEF IsInjective
  <2> QED  BY <1>1, <1>2, <2>1, <2>2 DEF IsInjective
<1> QED  BY <1>1, <1>3, <1>4 DEF r

(* An element taken out of a sequence.                                     *)
LEMMA RemoveOne ==
  ASSUME NEW S, NEW s \in Seq(S), IsInjective(s), NEW k \in DOMAIN s
  PROVE  /\ RemoveAt(s, k) \in Seq(S) /\ IsInjective(RemoveAt(s, k))
         /\ ToSet(RemoveAt(s, k)) = ToSet(s) \ {s[k]}
<1> DEFINE a == SubSeq(s, 1, k - 1)
           b == SubSeq(s, k + 1, Len(s))
           r == a \o b
           n == Len(s)
<1>1. n \in Nat /\ DOMAIN s = 1..n /\ k \in 1..n /\ \A i \in 1..n : s[i] \in S
  BY LenProperties, ElementOfSeq
<1>2. a \in Seq(S) /\ Len(a) = k - 1 /\ \A i \in 1..k-1 : a[i] = s[i]
  <2>1. \A i \in 1..k-1 : s[i] \in S
    BY <1>1
  <2>2. /\ a \in Seq(S) /\ Len(a) = IF 1 <= k - 1 THEN (k - 1) - 1 + 1 ELSE 0
        /\ \A i \in 1..(k-1)-1+1 : a[i] = s[1 + i - 1]
    BY <1>1, <2>1, SubSeqProperties
  <2>3. Len(a) = k - 1
    BY <2>2, <1>1
  <2>4. \A i \in 1..k-1 : i \in 1..(k-1)-1+1 /\ 1 + i - 1 = i
    BY <1>1
  <2>5. \A i \in 1..k-1 : a[i] = s[i]
    BY <2>2, <2>4
  <2> QED  BY <2>2, <2>3, <2>5
<1>3. b \in Seq(S) /\ Len(b) = n - k /\ \A i \in 1..n-k : b[i] = s[k + i]
  <2>1. \A i \in k+1..n : s[i] \in S
    BY <1>1
  <2>2. /\ b \in Seq(S) /\ Len(b) = IF k + 1 <= n THEN n - (k + 1) + 1 ELSE 0
        /\ \A i \in 1..n-(k+1)+1 : b[i] = s[(k + 1) + i - 1]
    BY <1>1, <2>1, SubSeqProperties
  <2>3. Len(b) = n - k
    BY <2>2, <1>1
  <2>4. \A i \in 1..n-k : i \in 1..n-(k+1)+1 /\ (k + 1) + i - 1 = k + i
    BY <1>1
  <2>5. \A i \in 1..n-k : b[i] = s[k + i]
    BY <2>2, <2>4
  <2> QED  BY <2>2, <2>3, <2>5
<1> HIDE DEF a, b
<1>4. /\ r \in Seq(S) /\ DOMAIN r = 1..(n - 1)
      /\ \A i \in 1..n-1 : r[i] = s[IF i < k THEN i ELSE i + 1]
  <2>1. /\ r \in Seq(S) /\ Len(r) = Len(a) + Len(b)
        /\ \A i \in 1..Len(a) + Len(b) : r[i] = IF i <= Len(a) THEN a[i] ELSE b[i - Len(a)]
    BY <1>2, <1>3, ConcatProperties
  <2>2. DOMAIN r = 1..Len(r)
    BY <2>1, LenProperties
  <2>3. Len(a) + Len(b) = n - 1
    BY <1>1, <1>2, <1>3
  <2>4. ASSUME NEW i \in 1..n-1  PROVE r[i] = s[IF i < k THEN i ELSE i + 1]
    <3>0. i \in 1..Len(a) + Len(b)
      BY <2>3
    <3>1. CASE i < k
      <4>1. i \in 1..k-1 /\ i <= Len(a)
        BY <3>1, <1>1, <1>2
      <4>2. r[i] = a[i] /\ a[i] = s[i]
        BY <4>1, <3>0, <2>1, <1>2
      <4> QED  BY <4>2, <3>1
    <3>2. CASE ~(i < k)
      <4>1. i - Len(a) \in 1..n-k /\ ~(i <= Len(a)) /\ k + (i - Len(a)) = i + 1
        BY <3>2, <1>1, <1>2
      <4>2. r[i] = b[i - Len(a)] /\ b[i - Len(a)] = s[k + (i - Len(a))]
        BY <4>1, <3>0, <2>1, <1>3
      <4> QED  BY <4>1, <4>2, <3>2
    <3> QED  BY <3>1, <3>2
  <2> QED  BY <2>1, <2>2, <2>3, <2>4
<1>5. RemoveAt(s, k) = r
  BY DEF RemoveAt, a, b
<1> HIDE DEF r, n
<1>6. \A i, j \in 1..n : s[i] = s[j] => i = j
  BY <1>1 DEF IsInjective
<1>7. IsInjective(r)
  <2> SUFFICES ASSUME NEW i \in 1..n-1, NEW j \in 1..n-1, r[i] = r[j]  PROVE i = j
    BY <1>4 DEF IsInjective
  <2> DEFINE f(x) == IF x < k THEN x ELSE x + 1
  <2>1. f(i) \in 1..n /\ f(j) \in 1..n /\ (f(i) = f(j) => i = j)
    BY <1>1
  <2>2. s[f(i)] = s[f(j)]
    BY <1>4
  <2> HIDE DEF f
  <2>3. f(i) = f(j)
    BY <2>1, <2>2, <1>6
  <2> QED  BY <2>1, <2>3
<1>8. ToSet(r) = ToSet(s) \ {s[k]}
  <2>1. ASSUME NEW i \in DOMAIN r  PROVE r[i] \in ToSet(s) \ {s[k]}
    <3> DEFINE h == IF i < k THEN i ELSE i + 1
    <3>1. h \in 1..n /\ h # k
      BY <1>1, <1>4
    <3>2. r[i] = s[h]
      BY <1>4
    <3> HIDE DEF h
    <3> QED  BY <3>1, <3>2, <1>1, <1>6 DEF ToSet
  <2>2. ASSUME NEW j \in DOMAIN s, s[j] # s[k]  PROVE s[j] \in ToSet(r)
    <3> DEFINE h == IF j < k THEN j ELSE j - 1
    <3>0. j # k
      BY <2>2
    <3>1. h \in 1..n-1 /\ (IF h < k THEN h ELSE h + 1) = j
      BY <3>0, <1>1
    <3>2. r[h] = s[j]
      BY <3>1, <1>4
    <3> HIDE DEF h
    <3> QED  BY <3>1, <3>2, <1>4 DEF ToSet
  <2> QED  BY <2>1, <2>2 DEF ToSet
<1> QED  BY <1>4, <1>5, <1>7, <1>8

-----------------------------------------------------------------------------
(* Sizes, pages and counters *)

(* Distinct blocks that do not overlap begin at distinct addresses.        *)
LEMMA ApartBlocks ==
  ASSUME NEW b \in Blocks, NEW c \in Blocks, ~Overlap(b, c)
  PROVE  b.addr # c.addr
<1>1. /\ b.addr \in Nat /\ b.size \in Nat \ {0}
      /\ c.addr \in Nat /\ c.size \in Nat \ {0}
  BY MlockAssumption DEF Blocks
<1> QED  BY <1>1 DEF Overlap

(* The counter keeps to the width of an int.                               *)
LEMMA WrapInt ==
  ASSUME NEW n \in -MaxInt-1..MaxInt
  PROVE  Wrap(n + 1) \in -MaxInt-1..MaxInt
BY MlockAssumption DEF Wrap

(* What is charged for a block, and what a page range depends on.          *)
LEMMA LockSizeNat ==
  ASSUME NEW b \in Blocks \cup EntryRecords
  PROVE  LockSize(b) \in Nat
<1>1. b.addr \in Nat /\ b.size \in Nat \ {0}
  BY MlockAssumption DEF Blocks, EntryRecords
<1>2. ASSUME NEW x \in Nat, NEW y \in Nat \ {0}
      PROVE  (x + y + PageSize - 1) \div PageSize - x \div PageSize \in Nat
  <2>1. PageSize \in Nat \ {0}
    BY MlockAssumption
  <2> DEFINE z == x + y + PageSize - 1
             q == x \div PageSize
             p == z \div PageSize
  <2>2. /\ z \in Nat /\ x <= z
        /\ q \in Int /\ p \in Int
    BY <2>1
  <2>3. PageSize * q <= x /\ z < PageSize * (p + 1)
    BY <2>1, <2>2
  <2> HIDE DEF z, q, p
  <2>4. PageSize * q < PageSize * (p + 1)
    BY <2>1, <2>2, <2>3
  <2>5. q < p + 1
    BY <2>1, <2>2, <2>4
  <2>6. p - q \in Nat
    BY <2>2, <2>5
  <2> QED  BY <2>6 DEF z, p, q
<1> QED  BY <1>1, <1>2 DEF LockSize

(* Both counters keep to the width of a size_t.                            *)
LEMMA TotalInRange ==
  ASSUME NEW n \in 0..MaxSize, NEW k \in Nat
  PROVE  (n + k) % (MaxSize + 1) \in 0..MaxSize /\ Less(n, k) \in 0..MaxSize
BY MlockAssumption DEF Less

-----------------------------------------------------------------------------
(* The type invariant *)

(* The initial states.                                                     *)
LEMMA InitInv == Init => Inv
<1> SUFFICES ASSUME Init  PROVE Inv
  OBVIOUS
<1> USE DEF Init
<1>1. Recorded = {}
  BY DEF Recorded, ToSet
<1>2. alloc_table \in Seq(Entries) /\ IsInjective(alloc_table)
  BY DEF IsInjective
<1>3. TypeInv
  <2>1. 0 \in -MaxInt-1..MaxInt /\ 0 \in 0..MaxSize
    BY MlockAssumption
  <2>2. /\ pages \subseteq UNION {PagesOf(b) : b \in Blocks} /\ held \subseteq Blocks
        /\ entry \in [Entries -> EntryRecords \cup {Nil}]
        /\ alloc_count \in -MaxInt-1..MaxInt /\ total_locked \in 0..MaxSize
    BY <2>1
  <2>3. /\ pc \in [Threads -> Locations] /\ blk \in [Threads -> Blocks \cup {Nil}]
        /\ want \in [Threads -> Sizes \cup {0}] /\ e \in [Threads -> Entries \cup {Nil}]
        /\ tmp \in [Threads -> Int]
    BY DEF Locations
  <2>4. hot_pages_loaded \in BOOLEAN /\ alloc_lock \in Threads \cup {Nobody}
    OBVIOUS
  <2> HIDE DEF Init
  <2>5. TypeOK
    BY <1>2, <2>2, <2>3, <2>4 DEF TypeOK
  <2> QED  BY <2>5 DEF TypeInv, WellPlaced, Counting, Init
<1>4. TableInv
  BY <1>1, MlockAssumption
  DEF TableInv, OneOwner, EntriesDescribeBlocks, Knows, OneCellEach, Counting
<1> QED  BY <1>1, <1>3, <1>4 DEF Inv, PagesCovered

(* Every step keeps the types, and what a thread needs where it goes.      *)
LEMMA NextTypeInv ==
  ASSUME TypeInv, TableInv, [Next]_vars
  PROVE  TypeInv'
<1> USE DEF TypeInv, TypeOK, WellPlaced, Goto, Locations, Counting
<1>1. CASE Load
  BY <1>1 DEF Load, table, locals
<1>2. ASSUME NEW t \in Threads, NEW s \in Sizes, CallMalloc(t, s)  PROVE TypeInv'
  BY <1>2 DEF CallMalloc, table
<1>3. ASSUME NEW t \in Threads, NEW b \in held, NEW s \in Sizes \cup {0},
             NEW to \in {"free", "libc_free", "realloc"}, Begin(t, b, s, to)
      PROVE  TypeInv'
  BY <1>3 DEF Begin, table
<1>4. ASSUME NEW t \in Threads, LibcMalloc(t)  PROVE TypeInv'
  <2>1. \/ \E b \in Blocks : blk' = [blk EXCEPT ![t] = b] /\ Goto(t, "malloc", AfterLibc(b))
        \/ blk' = blk /\ Goto(t, "malloc", "return")
    BY <1>4 DEF LibcMalloc
  <2>2. /\ blk' \in [Threads -> Blocks \cup {Nil}] /\ pc' \in [Threads -> Locations]
    BY ZenonT(60), <2>1 DEF AfterLibc
  <2>3. TypeOK'
    BY <1>4, <2>2 DEF LibcMalloc, table
  <2>4. ASSUME NEW u \in Threads  PROVE WellPlaced(u)'
    BY <1>4, <2>1 DEF LibcMalloc, AfterLibc
  <2> QED  BY <2>3, <2>4
<1>5. ASSUME NEW t \in Threads, LibcRealloc(t)  PROVE TypeInv'
  BY ZenonT(60), <1>5 DEF LibcRealloc, AfterLibc, table
<1>6. ASSUME NEW t \in Threads, LibcFree(t)  PROVE TypeInv'
  BY <1>6 DEF LibcFree, Forget, table
<1>7. ASSUME NEW t \in Threads, ReturnBlock(t)  PROVE TypeInv'
  BY <1>7 DEF ReturnBlock, Forget, table
<1>8. ASSUME NEW t \in Threads, NewEntry(t)  PROVE TypeInv'
  <2>1. [addr |-> blk[t].addr, size |-> blk[t].size, locked |-> FALSE] \in EntryRecords
    BY <1>8 DEF NewEntry, Blocks, EntryRecords
  <2>2. \/ /\ Goto(t, "entry", "insert")
           /\ \E n \in Entries :
                /\ entry' = [entry EXCEPT ![n] = [addr |-> blk[t].addr, size |-> blk[t].size,
                                                  locked |-> FALSE]]
                /\ e' = [e EXCEPT ![t] = n]
        \/ Goto(t, "entry", "return") /\ entry' = entry /\ e' = e
    BY <1>8 DEF NewEntry
  <2> HIDE DEF Goto
  <2>3. entry' \in [Entries -> EntryRecords \cup {Nil}] /\ e' \in [Threads -> Entries \cup {Nil}]
    BY ZenonT(60), <2>1, <2>2
  <2>4. TypeOK'
    BY <1>8, <2>2, <2>3 DEF NewEntry, Goto
  <2>5. ASSUME NEW u \in Threads  PROVE WellPlaced(u)'
    BY <1>8, <2>2 DEF NewEntry, Goto
  <2> QED  BY <2>4, <2>5
<1>9. ASSUME NEW t \in Threads, Insert(t)  PROVE TypeInv'
  <2>1. e[t] \in Entries /\ e[t] \notin ToSet(alloc_table)
    BY <1>9 DEF Insert, TableInv, Knows, Recorded
  <2>2. alloc_table' \in Seq(Entries) /\ IsInjective(alloc_table')
    BY <1>9, <2>1, InsertFirst DEF Insert
  <2> QED  BY <1>9, <2>1, <2>2 DEF Insert, locals
<1>10. ASSUME NEW t \in Threads, Mark(t)  PROVE TypeInv'
  <2>1. entry[e[t]] \in EntryRecords
    BY ZenonT(60), <1>10 DEF Mark, TableInv, Knows, EntriesDescribeBlocks
  <2>2. [entry[e[t]] EXCEPT !.locked = TRUE] \in EntryRecords
    BY <2>1 DEF EntryRecords
  <2> QED  BY <1>10, <2>2 DEF Mark, locals
<1>11. ASSUME NEW t \in Threads, ReadCount(t)  PROVE TypeInv'
  BY SMTT(30), <1>11, WrapInt DEF ReadCount, table
<1>12. ASSUME NEW t \in Threads, WriteCount(t)  PROVE TypeInv'
  BY <1>12 DEF WriteCount, table, locals
<1>13. ASSUME NEW t \in Threads, CheckBudget(t)  PROVE TypeInv'
  BY <1>13 DEF CheckBudget, table, locals
<1>14. ASSUME NEW t \in Threads, Mlock(t)  PROVE TypeInv'
  <2>1. PagesOf(blk[t]) \subseteq UNION {PagesOf(b) : b \in Blocks}
    BY <1>14 DEF Mlock
  <2>2. pages' \subseteq UNION {PagesOf(b) : b \in Blocks}
    BY <1>14, <2>1 DEF Mlock
  <2>3. TypeOK'
    <3>1. pc' \in [Threads -> Locations] /\ tmp' \in [Threads -> Int]
      BY SMTT(30), <1>14 DEF Mlock
    <3> QED  BY <1>14, <2>2, <3>1 DEF Mlock, table
  <2>4. ASSUME NEW u \in Threads  PROVE WellPlaced(u)'
    BY <1>14 DEF Mlock
  <2> QED  BY <2>3, <2>4
<1>15. ASSUME NEW t \in Threads, WriteTotal(t)  PROVE TypeInv'
  <2>1. total_locked' \in 0..MaxSize
    BY <1>15, LockSizeNat, TotalInRange DEF WriteTotal
  <2> QED  BY <1>15, <2>1 DEF WriteTotal, table, locals
<1>16. ASSUME NEW t \in Threads, RemoveMiss(t)  PROVE TypeInv'
  BY <1>16 DEF RemoveMiss, Removing, AfterRemove, table, locals
<1>17. ASSUME NEW t \in Threads, RemoveFind(t)  PROVE TypeInv'
  <2>1. PICK k \in DOMAIN alloc_table :
          LET n == alloc_table[k] IN
          /\ e' = [e EXCEPT ![t] = n]
          /\ pages' = IF entry[n].locked THEN pages \ PagesOf(entry[n]) ELSE pages
    BY <1>17 DEF RemoveFind
  <2>2. alloc_table[k] \in Entries
    BY ElementOfSeq, LenProperties
  <2> QED  BY <1>17, <2>1, <2>2 DEF RemoveFind, Removing
<1>18. ASSUME NEW t \in Threads, RemoveUnlink(t)  PROVE TypeInv'
  <2>1. PICK k \in DOMAIN alloc_table :
          alloc_table[k] = e[t] /\ alloc_table' = RemoveAt(alloc_table, k)
    BY <1>18 DEF RemoveUnlink
  <2>2. alloc_table' \in Seq(Entries) /\ IsInjective(alloc_table')
    BY <2>1, RemoveOne
  <2>3. entry[e[t]] \in EntryRecords
    BY ZenonT(60), <1>18 DEF RemoveUnlink, TableInv, Knows, EntriesDescribeBlocks
  <2>4. total_locked' \in 0..MaxSize
    BY <1>18, <2>3, LockSizeNat, TotalInRange DEF RemoveUnlink
  <2> QED  BY <1>18, <2>2, <2>4 DEF RemoveUnlink, AfterRemove
<1>19. CASE UNCHANGED vars
  BY <1>19 DEF vars, table, locals
<1> QED
  BY <1>1, <1>2, <1>3, <1>4, <1>5, <1>6, <1>7, <1>8, <1>9, <1>10, <1>11, <1>12, <1>13,
     <1>14, <1>15, <1>16, <1>17, <1>18, <1>19
  DEF Next, App, Hook, CallFree, CallRealloc

-----------------------------------------------------------------------------
(* The table and the blocks in use *)

(* The table gains the entry of the thread that inserts it.                *)
LEMMA InsertRecords ==
  ASSUME TypeInv, TableInv, NEW t \in Threads, Insert(t)
  PROVE  Recorded' = Recorded \cup {e[t]} /\ e[t] \in Entries
<1>1. e[t] \in Entries /\ e[t] \notin ToSet(alloc_table)
  BY DEF Insert, Goto, TypeInv, WellPlaced, TableInv, Knows, Recorded
<1> QED  BY <1>1, InsertFirst DEF TypeInv, TypeOK, Recorded, Insert

(* The table loses the entry of the thread that removes it.                *)
LEMMA UnlinkRecords ==
  ASSUME TypeInv, TableInv, NEW t \in Threads, RemoveUnlink(t)
  PROVE  Recorded' = Recorded \ {e[t]} /\ e[t] \in Recorded
<1>1. PICK k \in DOMAIN alloc_table :
        alloc_table[k] = e[t] /\ alloc_table' = RemoveAt(alloc_table, k)
  BY DEF RemoveUnlink
<1>2. ToSet(alloc_table') = ToSet(alloc_table) \ {e[t]}
  BY <1>1, RemoveOne DEF TypeInv, TypeOK
<1> QED  BY <1>1, <1>2 DEF Recorded, ToSet

(* The entry that is found is in the table and matches.                    *)
LEMMA FoundRecorded ==
  ASSUME TypeInv, NEW t \in Threads, RemoveFind(t)
  PROVE  /\ e'[t] \in Recorded /\ entry[e'[t]].addr = blk[t].addr
         /\ pages' = IF entry[e'[t]].locked THEN pages \ PagesOf(entry[e'[t]]) ELSE pages
         /\ e' = [e EXCEPT ![t] = e'[t]]
BY DEF RemoveFind, Recorded, ToSet, Matches, TypeInv, TypeOK

LEMMA RecordedEntries ==
  ASSUME TypeInv
  PROVE  Recorded \subseteq Entries
<1>1. \A k \in DOMAIN alloc_table : alloc_table[k] \in Entries
  BY ElementOfSeq, LenProperties DEF TypeInv, TypeOK
<1> QED  BY <1>1 DEF Recorded, ToSet

(* A block libc gives out begins where no other block in use does, and     *)
(* where no entry is.                                                      *)
LEMMA FreshBlock ==
  ASSUME TypeInv, NEW b \in Blocks, NEW used \in SUBSET InUse, Free(b, used)
  PROVE  /\ \A c \in used : b.addr # c.addr
         /\ \A n \in Recorded : Block(n) \in used => entry[n].addr # b.addr
<1>1. InUse \subseteq Blocks
  BY DEF InUse, TypeInv, TypeOK
<1>2. \A c \in used : b.addr # c.addr
  BY <1>1, ApartBlocks DEF Free
<1> QED  BY <1>2 DEF Block

(* Blocks have one owner each: the application, or a thread in a hook.     *)
LEMMA NextOneOwner ==
  ASSUME TypeInv, TableInv, [Next]_vars
  PROVE  OneOwner'
<1> USE DEF TypeInv, TypeOK, WellPlaced, TableInv, OneOwner, Goto
<1>1. ASSUME NEW t \in Threads, NEW b \in held, NEW s \in Sizes \cup {0},
             NEW to \in {"free", "libc_free", "realloc"}, Begin(t, b, s, to)
      PROVE  OneOwner'
  BY <1>1 DEF Begin
<1>2. ASSUME NEW t \in Threads, LibcMalloc(t)  PROVE OneOwner'
  <2>1. ASSUME NEW b \in Blocks, Free(b, InUse), blk' = [blk EXCEPT ![t] = b]
        PROVE  OneOwner'
    <3>1. \A c \in InUse : b.addr # c.addr
      BY <2>1, FreshBlock
    <3>2. \A c \in held : b.addr # c.addr
      BY <3>1, MlockAssumption DEF InUse
    <3>3. \A u \in Threads \ {t} : blk[u] # Nil => b.addr # blk[u].addr
      BY <3>1 DEF InUse
    <3> QED  BY <1>2, <2>1, <3>2, <3>3 DEF LibcMalloc
  <2> QED  BY <1>2, <2>1 DEF LibcMalloc
<1>3. ASSUME NEW t \in Threads, LibcRealloc(t)  PROVE OneOwner'
  <2>1. ASSUME NEW b \in Blocks, Free(b, InUse \ {blk[t]}), blk' = [blk EXCEPT ![t] = b]
        PROVE  OneOwner'
    <3>1. \A c \in InUse \ {blk[t]} : b.addr # c.addr
      BY <2>1, FreshBlock
    <3>2. blk[t] # Nil
      BY <1>3, MlockAssumption DEF LibcRealloc
    <3>3. \A c \in held : b.addr # c.addr
      BY <3>1, <3>2, MlockAssumption DEF InUse
    <3>4. \A u \in Threads \ {t} : blk[u] # Nil => b.addr # blk[u].addr
      BY <3>1, <3>2 DEF InUse
    <3> QED  BY <1>3, <2>1, <3>3, <3>4 DEF LibcRealloc
  <2> QED  BY ZenonT(60), <1>3, <2>1 DEF LibcRealloc
<1>4. ASSUME NEW t \in Threads, LibcFree(t)  PROVE OneOwner'
  BY <1>4 DEF LibcFree, Forget
<1>5. ASSUME NEW t \in Threads, ReturnBlock(t)  PROVE OneOwner'
  BY <1>5 DEF ReturnBlock, Forget
<1>6. CASE UNCHANGED <<held, blk>>
  BY <1>6
<1> QED
  BY ZenonT(60), <1>1, <1>2, <1>3, <1>4, <1>5, <1>6
  DEF Next, App, Hook, CallFree, CallRealloc, Load, CallMalloc, NewEntry, Insert, Mark,
      ReadCount, WriteCount, CheckBudget, Mlock, WriteTotal, RemoveMiss, RemoveFind,
      RemoveUnlink, vars, locals

(* The entries of the table describe blocks in use, one each.              *)
LEMMA NextEntries ==
  ASSUME TypeInv, TableInv, [Next]_vars
  PROVE  EntriesDescribeBlocks'
<1> USE DEF TypeInv, TypeOK, WellPlaced, TableInv, EntriesDescribeBlocks, Goto
<1>0. Recorded \subseteq Entries
  BY RecordedEntries
<1>1. ASSUME Recorded' = Recorded, entry' = entry, hot_pages_loaded => hot_pages_loaded',
             \A n \in Recorded : Block(n) \in InUse => Block(n) \in InUse'
      PROVE  EntriesDescribeBlocks'
  <2>1. \A n \in Recorded : Block(n)' = Block(n)
    BY <1>1 DEF Block
  <2>2. \A n \in Recorded' : entry'[n] # Nil /\ Block(n)' \in InUse'
    BY <1>1, <2>1
  <2>3. ~hot_pages_loaded' => Recorded' = {}
    BY <1>1
  <2>4. \A m, n \in Recorded' : entry'[m].addr = entry'[n].addr => m = n
    BY <1>1
  <2> QED  BY <2>2, <2>3, <2>4
<1>2. CASE InUse \subseteq InUse' /\ Recorded' = Recorded /\ entry' = entry
           /\ (hot_pages_loaded => hot_pages_loaded')
  BY <1>1, <1>2
<1>3. CASE Load
  BY <1>2, <1>3 DEF Load, table, locals, InUse, Recorded
<1>4. ASSUME NEW t \in Threads, NEW b \in held, NEW s \in Sizes \cup {0},
             NEW to \in {"free", "libc_free", "realloc"}, Begin(t, b, s, to)
      PROVE  EntriesDescribeBlocks'
  <2>1. blk[t] = Nil /\ blk'[t] = b /\ held' = held \ {b}
        /\ \A u \in Threads \ {t} : blk'[u] = blk[u]
    BY <1>4 DEF Begin
  <2>2. ASSUME NEW c \in InUse  PROVE c \in InUse'
    <3>1. CASE c = b
      BY <2>1, <2>2, <3>1 DEF InUse
    <3>2. CASE c \in held \ {b}
      BY <2>1, <2>2, <3>2 DEF InUse
    <3>3. ASSUME NEW u \in Threads \ {t}, c = blk[u]  PROVE c \in InUse'
      BY <2>1, <2>2, <3>3 DEF InUse
    <3> QED  BY <2>1, <2>2, <3>1, <3>2, <3>3 DEF InUse
  <2> QED  BY <1>2, <1>4, <2>2 DEF Begin, table, Recorded
<1>5. ASSUME NEW t \in Threads, LibcMalloc(t)  PROVE EntriesDescribeBlocks'
  <2>1. blk[t] = Nil /\ held' = held /\ \A u \in Threads \ {t} : blk'[u] = blk[u]
    BY <1>5 DEF LibcMalloc
  <2>2. InUse \subseteq InUse'
    BY <2>1 DEF InUse
  <2> QED  BY <1>2, <1>5, <2>2 DEF LibcMalloc, table, Recorded
<1>6. ASSUME NEW t \in Threads, LibcRealloc(t) \/ LibcFree(t)  PROVE EntriesDescribeBlocks'
  <2>1. /\ \A u \in Threads \ {t} : blk'[u] = blk[u]
        /\ \A n \in Recorded : entry[n].addr # blk[t].addr
        /\ held' = held
    BY <1>6 DEF LibcRealloc, LibcFree, Forget, Knows
  <2>2. InUse \ {blk[t]} \subseteq InUse'
    BY ZenonT(60), <2>1 DEF InUse
  <2>3. \A n \in Recorded : Block(n) # blk[t]
    BY <2>1 DEF Block
  <2> QED  BY <1>1, <1>6, <2>2, <2>3 DEF LibcRealloc, LibcFree, table, Recorded
<1>7. ASSUME NEW t \in Threads, ReturnBlock(t)  PROVE EntriesDescribeBlocks'
  <2>1. /\ \A u \in Threads \ {t} : blk'[u] = blk[u]
        /\ held' = held \cup ({blk[t]} \ {Nil})
    BY <1>7 DEF ReturnBlock, Forget
  <2>2. ASSUME NEW c \in InUse  PROVE c \in InUse'
    <3>1. CASE c \in held \/ c = blk[t]
      BY <2>1, <2>2, <3>1 DEF InUse
    <3>2. ASSUME NEW u \in Threads \ {t}, c = blk[u]  PROVE c \in InUse'
      BY <2>1, <2>2, <3>2 DEF InUse
    <3> QED  BY <2>2, <3>1, <3>2 DEF InUse
  <2> QED  BY <1>2, <1>7, <2>2 DEF ReturnBlock, table, Recorded
<1>8. ASSUME NEW t \in Threads, NewEntry(t)  PROVE EntriesDescribeBlocks'
  <2>1. Recorded' = Recorded /\ InUse' = InUse /\ hot_pages_loaded' = hot_pages_loaded
    BY <1>8 DEF NewEntry, Recorded, InUse
  <2>2. \A n \in Recorded : entry'[n] = entry[n]
    BY <1>0, <1>8 DEF NewEntry
  <2> QED  BY SMTT(30), <2>1, <2>2 DEF Block
<1>9. ASSUME NEW t \in Threads, Insert(t)  PROVE EntriesDescribeBlocks'
  <2>1. Recorded' = Recorded \cup {e[t]} /\ e[t] \in Entries
    BY <1>9, InsertRecords
  <2>2. /\ \A n \in Recorded : entry[n].addr # blk[t].addr
        /\ entry[e[t]] = [addr |-> blk[t].addr, size |-> blk[t].size, locked |-> FALSE]
        /\ hot_pages_loaded /\ blk[t] \in Blocks
    BY <1>9 DEF Insert, Knows
  <2>3. Block(e[t]) = blk[t] /\ entry[e[t]] # Nil /\ blk[t] \in InUse
    <3>1. blk[t] = [addr |-> blk[t].addr, size |-> blk[t].size]
      BY <2>2 DEF Blocks
    <3>2. entry[e[t]] \in EntryRecords
      BY <2>2 DEF Blocks, EntryRecords
    <3>3. blk[t] # Nil
      BY <2>2, MlockAssumption
    <3>4. blk[t] \in InUse
      BY <3>3 DEF InUse
    <3>5. Block(e[t]) = blk[t]
      BY <2>2, <3>1 DEF Block
    <3> QED  BY <3>2, <3>4, <3>5, MlockAssumption
  <2>4. InUse' = InUse /\ entry' = entry /\ hot_pages_loaded' = hot_pages_loaded
    BY <1>9 DEF Insert, locals, InUse
  <2> QED  BY <2>1, <2>2, <2>3, <2>4 DEF Block
<1>10. ASSUME NEW t \in Threads, Mark(t)  PROVE EntriesDescribeBlocks'
  <2>1. e[t] \in Recorded /\ entry[e[t]] \in EntryRecords
    BY <1>0, <1>10 DEF Mark, Knows, Counting
  <2>2. /\ entry' = [entry EXCEPT ![e[t]] = [entry[e[t]] EXCEPT !.locked = TRUE]]
        /\ Recorded' = Recorded /\ InUse' = InUse /\ hot_pages_loaded' = hot_pages_loaded
    BY <1>10 DEF Mark, locals, InUse, Recorded
  <2>3. [entry[e[t]] EXCEPT !.locked = TRUE] \in EntryRecords
    BY <2>1 DEF EntryRecords
  <2>4. \A n \in Recorded : /\ entry'[n] # Nil
                            /\ entry'[n].addr = entry[n].addr /\ entry'[n].size = entry[n].size
    BY <1>0, <2>1, <2>2, <2>3, MlockAssumption DEF EntryRecords
  <2> QED  BY <2>2, <2>4 DEF Block
<1>11. ASSUME NEW t \in Threads, RemoveUnlink(t)  PROVE EntriesDescribeBlocks'
  <2>1. Recorded' = Recorded \ {e[t]}
    BY <1>11, UnlinkRecords
  <2>2. InUse' = InUse /\ hot_pages_loaded' = hot_pages_loaded
    BY <1>11 DEF RemoveUnlink, InUse
  <2>3. \A n \in Recorded' : entry'[n] = entry[n]
    BY <1>0, <1>11, <2>1 DEF RemoveUnlink
  <2>4. \A n \in Recorded' : Block(n)' = Block(n)
    BY <2>3 DEF Block
  <2>5. \A n \in Recorded' : n \in Recorded /\ entry'[n] # Nil /\ Block(n)' \in InUse'
    BY <2>1, <2>2, <2>3, <2>4
  <2>6. ~hot_pages_loaded' => Recorded' = {}
    BY <2>1, <2>2
  <2>7. \A m, n \in Recorded' : entry'[m].addr = entry'[n].addr => m = n
    BY <2>3, <2>5
  <2> QED  BY <2>5, <2>6, <2>7
<1>12. CASE UNCHANGED <<hot_pages_loaded, table, held, blk>>
  BY <1>2, <1>12 DEF table, Recorded, InUse
<1>13. ASSUME NEW t \in Threads,
              \/ \E s \in Sizes : CallMalloc(t, s)
              \/ ReadCount(t) \/ WriteCount(t) \/ CheckBudget(t) \/ Mlock(t) \/ WriteTotal(t)
       PROVE  EntriesDescribeBlocks'
  <2>1. UNCHANGED <<hot_pages_loaded, table, held, blk>>
    BY <1>13
    DEF CallMalloc, ReadCount, WriteCount, CheckBudget, Mlock, WriteTotal, table, locals
  <2> QED  BY <1>12, <2>1
<1>14. ASSUME NEW t \in Threads, RemoveMiss(t) \/ RemoveFind(t)  PROVE EntriesDescribeBlocks'
  <2>1. UNCHANGED <<hot_pages_loaded, alloc_table, entry, held, blk>>
    BY <1>14 DEF RemoveMiss, RemoveFind, table, locals
  <2> QED  BY <1>2, <2>1 DEF Recorded, InUse
<1>15. CASE UNCHANGED vars
  BY <1>12, <1>15 DEF vars, locals
<1>16. ASSUME NEW t \in Threads, App(t)  PROVE EntriesDescribeBlocks'
  BY <1>4, <1>13, <1>16 DEF App, CallFree, CallRealloc
<1> QED
  BY <1>3, <1>5, <1>6, <1>7, <1>8, <1>9, <1>10, <1>11, <1>13, <1>14, <1>15, <1>16 DEF Next, Hook

(* No two threads are about to insert the same entry.                      *)
LEMMA NextOneCell ==
  ASSUME TypeInv, TableInv, [Next]_vars
  PROVE  OneCellEach'
<1> USE DEF TypeInv, TypeOK, TableInv, OneCellEach, Goto
<1>1. ASSUME NEW t \in Threads, NewEntry(t)  PROVE OneCellEach'
  <2>1. \A u \in Threads : pc[u] = "insert" => entry[e[u]] # Nil
    <3>1. ASSUME NEW u \in Threads, pc[u] = "insert"  PROVE entry[e[u]] # Nil
      <4>1. entry[e[u]] = [addr |-> blk[u].addr, size |-> blk[u].size, locked |-> FALSE]
            /\ blk[u] \in Blocks
        BY <3>1 DEF Knows, WellPlaced
      <4>2. entry[e[u]] \in EntryRecords
        BY <4>1 DEF Blocks, EntryRecords
      <4> QED  BY <4>2, MlockAssumption
    <3> QED  BY <3>1
  <2>2. CASE e' = e /\ Goto(t, "entry", "return")
    BY <2>2
  <2>3. ASSUME NEW n \in Entries, entry[n] = Nil, e' = [e EXCEPT ![t] = n],
               Goto(t, "entry", "insert")
        PROVE  OneCellEach'
    <3>1. \A u \in Threads : pc[u] = "insert" => e[u] # n
      BY <2>1, <2>3
    <3>2. \A u \in Threads \ {t} : e'[u] = e[u] /\ pc'[u] = pc[u]
      BY <2>3
    <3> QED  BY <2>3, <3>1, <3>2
  <2> QED  BY <1>1, <2>2, <2>3 DEF NewEntry
<1>2. ASSUME \A u \in Threads : pc'[u] = "insert" => pc[u] = "insert" /\ e'[u] = e[u]
      PROVE  OneCellEach'
  BY <1>2
<1> DEFINE Kept == \A u \in Threads : pc'[u] = "insert" => pc[u] = "insert" /\ e'[u] = e[u]
<1>3. CASE UNCHANGED <<pc, e>>
  BY <1>3
<1>4. ASSUME NEW t \in Threads, UNCHANGED e, pc' = [pc EXCEPT ![t] = pc'[t]], pc'[t] # "insert"
      PROVE  Kept
  BY <1>4
<1>5. ASSUME NEW t \in Threads, App(t)  PROVE Kept
  BY <1>4, <1>5 DEF App, CallMalloc, CallFree, CallRealloc, Begin
<1>6. ASSUME NEW t \in Threads, LibcMalloc(t) \/ LibcRealloc(t)  PROVE Kept
  BY <1>4, <1>6 DEF LibcMalloc, LibcRealloc, AfterLibc
<1>7. ASSUME NEW t \in Threads, LibcFree(t) \/ ReturnBlock(t)  PROVE Kept
  BY <1>7 DEF LibcFree, ReturnBlock, Forget
<1>8. ASSUME NEW t \in Threads, Insert(t) \/ Mark(t) \/ ReadCount(t) \/ WriteCount(t)
                                \/ CheckBudget(t) \/ Mlock(t) \/ WriteTotal(t)
      PROVE  Kept
  BY <1>4, <1>8 DEF Insert, Mark, ReadCount, WriteCount, CheckBudget, Mlock, WriteTotal, locals
<1>9. ASSUME NEW t \in Threads, RemoveMiss(t)  PROVE Kept
  BY <1>4, <1>9 DEF RemoveMiss, AfterRemove, locals
<1>10. ASSUME NEW t \in Threads, RemoveFind(t)  PROVE Kept
  BY <1>10 DEF RemoveFind
<1>11. ASSUME NEW t \in Threads, RemoveUnlink(t)  PROVE Kept
  BY <1>11 DEF RemoveUnlink, AfterRemove
<1> QED
  BY <1>1, <1>2, <1>3, <1>5, <1>6, <1>7, <1>8, <1>9, <1>10, <1>11
  DEF Next, Hook, Load, vars, locals

(* What a thread knows stays true when it and the table stay as they are.  *)
LEMMA KnowsFrame ==
  ASSUME NEW u, Knows(u), hot_pages_loaded => hot_pages_loaded',
         UNCHANGED <<pc[u], blk[u], e[u], alloc_table, entry>>,
         alloc_lock' = u <=> alloc_lock = u
  PROVE  Knows(u)'
<1>1. Recorded' = Recorded /\ \A n : Block(n)' = Block(n)
  BY DEF Recorded, Block
<1> QED  BY <1>1 DEF Knows

(* Every thread's knowledge survives every step of every thread.           *)
LEMMA NextKnows ==
  ASSUME TypeInv, TableInv, [Next]_vars
  PROVE  \A u \in Threads : Knows(u)'
<1> DEFINE Others(t) == \A u \in Threads \ {t} : UNCHANGED <<pc[u], blk[u], e[u]>>
<1> USE DEF TypeInv, TypeOK, WellPlaced, TableInv, Goto
<1>0. Recorded \subseteq Entries
  BY RecordedEntries
<1>1. ASSUME hot_pages_loaded => hot_pages_loaded', UNCHANGED table,
             NEW t \in Threads, Others(t), Knows(t)'
      PROVE  \A u \in Threads : Knows(u)'
  BY <1>1, KnowsFrame DEF table
<1>2. CASE (hot_pages_loaded => hot_pages_loaded') /\ UNCHANGED <<table, pc, blk, e>>
  BY <1>2, KnowsFrame DEF table
<1> DEFINE Gone(t) == \A n \in Recorded : entry[n].addr # blk'[t].addr
<1>3. ASSUME NEW t \in Threads, UNCHANGED table, hot_pages_loaded => hot_pages_loaded',
             Others(t), alloc_lock # t, e' = e,
             \/ pc'[t] \in {"idle", "malloc", "return", "free", "realloc"}
             \/ pc'[t] = "entry" /\ hot_pages_loaded' /\ Gone(t)
             \/ pc'[t] \in {"libc_free", "libc_realloc"} /\ Gone(t)
             \/ pc'[t] \in Counting /\ pc[t] \in Counting /\ blk' = blk
      PROVE  \A u \in Threads : Knows(u)'
  <2>1. Recorded' = Recorded /\ \A n : Block(n)' = Block(n)
    BY <1>3 DEF Recorded, Block, table
  <2>2. Knows(t)'
    BY <1>3, <2>1 DEF Knows, Counting, table
  <2> QED  BY <1>1, <1>3, <2>2
<1>4. \A t \in Threads : pc[t] \notin {"unlock", "unlock_realloc"} => alloc_lock # t
  BY DEF Knows
<1>5. ASSUME NEW t \in Threads, NEW s \in Sizes, CallMalloc(t, s)
      PROVE  \A u \in Threads : Knows(u)'
  BY <1>3, <1>4, <1>5 DEF CallMalloc
<1>6. ASSUME NEW t \in Threads, NEW b \in held, NEW s \in Sizes \cup {0},
             NEW to \in {"free", "libc_free", "realloc"}, Begin(t, b, s, to),
             to = "libc_free" => ~hot_pages_loaded
      PROVE  \A u \in Threads : Knows(u)'
  <2>1. to = "libc_free" => Recorded = {}
    BY <1>6 DEF EntriesDescribeBlocks
  <2> QED  BY <1>3, <1>4, <1>6, <2>1 DEF Begin
<1>7. ASSUME NEW t \in Threads, LibcMalloc(t)  PROVE \A u \in Threads : Knows(u)'
  <2>1. ASSUME NEW b \in Blocks, Free(b, InUse), blk' = [blk EXCEPT ![t] = b]
        PROVE  Gone(t)
    BY <2>1, FreshBlock DEF EntriesDescribeBlocks
  <2>2. pc'[t] = "return" \/ (pc'[t] = "entry" /\ hot_pages_loaded' /\ Gone(t))
    BY <1>7, <2>1 DEF LibcMalloc, AfterLibc
  <2>3. UNCHANGED <<table, hot_pages_loaded, e>> /\ Others(t) /\ alloc_lock # t
    BY <1>4, <1>7 DEF LibcMalloc
  <2> QED  BY <1>3, <2>2, <2>3
<1>8. ASSUME NEW t \in Threads, LibcRealloc(t)  PROVE \A u \in Threads : Knows(u)'
  <2>1. ASSUME NEW b \in Blocks, Free(b, InUse \ {blk[t]}), blk' = [blk EXCEPT ![t] = b]
        PROVE  Gone(t)
    <3>1. \A n \in Recorded : entry[n].addr # blk[t].addr
      BY <1>8 DEF LibcRealloc, Knows
    <3>2. \A n \in Recorded : Block(n) \in InUse \ {blk[t]}
      BY <3>1 DEF EntriesDescribeBlocks, Block
    <3> QED  BY SMTT(30), <2>1, <3>2, FreshBlock
  <2>2. pc'[t] = "return" \/ (pc'[t] = "entry" /\ hot_pages_loaded' /\ Gone(t))
    BY <1>8, <2>1 DEF LibcRealloc, AfterLibc
  <2>3. UNCHANGED <<table, hot_pages_loaded, e>> /\ Others(t) /\ alloc_lock # t
    BY <1>4, <1>8 DEF LibcRealloc
  <2> QED  BY <1>3, <2>2, <2>3
<1>9. ASSUME NEW t \in Threads, LibcFree(t) \/ ReturnBlock(t)
      PROVE  \A u \in Threads : Knows(u)'
  <2>1. Knows(t)'
    BY <1>4, <1>9 DEF LibcFree, ReturnBlock, Knows, Counting, table
  <2> QED  BY <1>1, <1>9, <2>1 DEF LibcFree, ReturnBlock, Forget
<1>10. ASSUME NEW t \in Threads,
              ReadCount(t) \/ WriteCount(t) \/ CheckBudget(t) \/ Mlock(t) \/ WriteTotal(t)
       PROVE  \A u \in Threads : Knows(u)'
  BY <1>3, <1>4, <1>10
  DEF ReadCount, WriteCount, CheckBudget, Mlock, WriteTotal, Counting, locals
<1>11. ASSUME NEW t \in Threads, RemoveMiss(t)  PROVE \A u \in Threads : Knows(u)'
  <2>1. \A n \in Recorded : entry[n].addr # blk[t].addr
    BY <1>11 DEF RemoveMiss, Matches, Recorded
  <2>2. pc'[t] \in {"libc_free", "libc_realloc"} /\ blk' = blk
    BY <1>11 DEF RemoveMiss, AfterRemove, Removing, locals
  <2> QED  BY <1>3, <1>4, <1>11, <2>1, <2>2 DEF RemoveMiss, Removing, locals
<1>12. CASE UNCHANGED <<hot_pages_loaded, table, pc, blk, e>>
  BY <1>2, <1>12
<1>13. CASE Load
  BY <1>2, <1>13 DEF Load, locals
<1>14. ASSUME NEW t \in Threads, NewEntry(t)  PROVE \A u \in Threads : Knows(u)'
  <2>1. CASE UNCHANGED <<entry, e>> /\ Goto(t, "entry", "return")
    <3>1. UNCHANGED <<table, hot_pages_loaded, blk>>
      BY <1>14, <2>1 DEF NewEntry, table
    <3> QED  BY <1>3, <1>4, <2>1, <3>1
  <2>2. ASSUME NEW n \in Entries, entry[n] = Nil, Goto(t, "entry", "insert"),
               entry' = [entry EXCEPT ![n] = [addr |-> blk[t].addr, size |-> blk[t].size,
                                             locked |-> FALSE]],
               e' = [e EXCEPT ![t] = n]
        PROVE  \A u \in Threads : Knows(u)'
    <3>1. n \notin Recorded
      BY <2>2 DEF EntriesDescribeBlocks
    <3>2. UNCHANGED <<alloc_lock, hot_pages_loaded, blk>> /\ Recorded' = Recorded
      BY <1>14 DEF NewEntry, Recorded
    <3>3. \A m \in Recorded : entry'[m] = entry[m] /\ Block(m)' = Block(m)
      BY <1>0, <2>2, <3>1 DEF Block
    <3>4. Knows(t)'
      BY <1>4, <2>2, <3>1, <3>2, <3>3 DEF Knows, Counting
    <3>5. ASSUME NEW u \in Threads \ {t}  PROVE Knows(u)'
      <4>1. pc'[u] = pc[u] /\ e'[u] = e[u] /\ blk'[u] = blk[u] /\ Knows(u)
        BY <2>2, <3>2
      <4>2. ASSUME pc[u] = "insert"  PROVE entry[e[u]] \in EntryRecords
        <5>1. blk[u] \in Blocks
          BY <4>2
        <5>2. entry[e[u]] = [addr |-> blk[u].addr, size |-> blk[u].size, locked |-> FALSE]
          BY <4>2 DEF Knows
        <5> QED  BY <5>1, <5>2 DEF Blocks, EntryRecords
      <4>3. pc[u] = "insert" => entry'[e[u]] = entry[e[u]]
        BY <2>2, <4>2, MlockAssumption
      <4> QED  BY <3>2, <3>3, <4>1, <4>3 DEF Knows
    <3> QED  BY <3>4, <3>5
  <2> QED  BY <1>14, <2>1, <2>2 DEF NewEntry
<1>15. ASSUME NEW t \in Threads, Insert(t)  PROVE \A u \in Threads : Knows(u)'
  <2>1. Recorded' = Recorded \cup {e[t]}
    BY <1>15, InsertRecords
  <2>2. /\ UNCHANGED <<hot_pages_loaded, alloc_lock, entry, blk, e>> /\ Others(t)
        /\ pc'[t] \in {"count", "return"} /\ pc[t] = "insert" /\ alloc_lock # t
    BY <1>4, <1>15 DEF Insert, locals
  <2>3. \A n : Block(n)' = Block(n)
    BY <2>2 DEF Block
  <2>4. entry[e[t]] = [addr |-> blk[t].addr, size |-> blk[t].size, locked |-> FALSE]
    BY <2>2 DEF Knows
  <2>5. Knows(t)'
    <3>1. Block(e[t]) = blk[t]
      <4>1. blk[t] \in Blocks
        BY <2>2
      <4>2. blk[t] = [addr |-> blk[t].addr, size |-> blk[t].size]
        BY <4>1 DEF Blocks
      <4> QED  BY <2>4, <4>2 DEF Block
    <3> QED  BY <2>1, <2>2, <2>3, <3>1 DEF Knows, Counting
  <2>6. ASSUME NEW u \in Threads \ {t}  PROVE Knows(u)'
    <3>1. pc'[u] = pc[u] /\ Knows(u) /\ blk'[u] = blk[u] /\ e'[u] = e[u]
      BY <2>2
    <3>2. ASSUME pc[u] \in {"entry", "insert", "libc_free", "libc_realloc"}
          PROVE  entry[e[t]].addr # blk[u].addr
      <4>1. blk[u] # Nil /\ blk[t] # Nil
        BY <2>2, <3>2, MlockAssumption
      <4>2. blk[t].addr # blk[u].addr
        BY <4>1 DEF OneOwner
      <4> QED  BY <2>4, <4>2
    <3>3. pc[u] = "insert" => e[u] # e[t]
      BY <2>2 DEF OneCellEach
    <3> QED  BY <2>1, <2>2, <2>3, <3>1, <3>2, <3>3 DEF Knows
  <2> QED  BY <2>5, <2>6
<1>16. ASSUME NEW t \in Threads, Mark(t)  PROVE \A u \in Threads : Knows(u)'
  <2>1. /\ UNCHANGED <<hot_pages_loaded, alloc_lock, blk, e>> /\ Others(t)
        /\ pc'[t] = "return" /\ pc[t] = "mark" /\ alloc_lock # t /\ Recorded' = Recorded
    BY <1>4, <1>16 DEF Mark, locals, Recorded
  <2>2. e[t] \in Recorded /\ entry[e[t]] \in EntryRecords
    BY ZenonT(60), <1>0, <2>1 DEF Knows, Counting, EntriesDescribeBlocks
  <2>3. \A n \in Entries : /\ n # e[t] => entry'[n] = entry[n]
                           /\ entry'[n].addr = entry[n].addr /\ entry'[n].size = entry[n].size
    BY <1>0, <1>16, <2>2 DEF Mark, EntryRecords
  <2>4. \A n \in Entries : Block(n)' = Block(n)
    BY <2>3 DEF Block
  <2>5. ASSUME NEW u \in Threads \ {t}  PROVE Knows(u)'
    <3>1. pc'[u] = pc[u] /\ Knows(u) /\ blk'[u] = blk[u] /\ e'[u] = e[u]
      BY <2>1
    <3>2. pc[u] = "insert" => e[u] \in Entries /\ entry'[e[u]] = entry[e[u]]
      BY <2>2, <2>3 DEF Knows
    <3> QED  BY <1>0, <2>1, <2>3, <2>4, <3>1, <3>2 DEF Knows
  <2>6. Knows(t)'
    BY <2>1 DEF Knows, Counting
  <2> QED  BY <2>5, <2>6
<1>17. ASSUME NEW t \in Threads, RemoveFind(t)  PROVE \A u \in Threads : Knows(u)'
  <2>1. /\ UNCHANGED <<hot_pages_loaded, alloc_table, entry, blk>> /\ Others(t)
        /\ pc'[t] \in {"unlock", "unlock_realloc"} /\ alloc_lock = Nobody /\ alloc_lock' = t
    BY <1>17, FoundRecorded DEF RemoveFind
  <2>2. Recorded' = Recorded /\ e'[t] \in Recorded /\ entry[e'[t]].addr = blk[t].addr
    BY <1>17, <2>1, FoundRecorded DEF Recorded
  <2>3. Knows(t)'
    BY <2>1, <2>2 DEF Knows, Counting
  <2>4. \A u \in Threads \ {t} : alloc_lock # u /\ alloc_lock' # u
    BY <2>1, MlockAssumption
  <2> QED  BY <2>1, <2>3, <2>4, KnowsFrame
<1>18. ASSUME NEW t \in Threads, RemoveUnlink(t)  PROVE \A u \in Threads : Knows(u)'
  <2>1. Recorded' = Recorded \ {e[t]} /\ e[t] \in Recorded
    BY <1>18, UnlinkRecords
  <2>2. /\ UNCHANGED <<hot_pages_loaded, blk>> /\ Others(t)
        /\ pc[t] \in {"unlock", "unlock_realloc"} /\ pc'[t] \in {"libc_free", "libc_realloc"}
        /\ alloc_lock' = Nobody /\ alloc_lock = t
    BY <1>18 DEF RemoveUnlink, AfterRemove, Knows
  <2>3. \A n \in Entries \ {e[t]} : entry'[n] = entry[n] /\ Block(n)' = Block(n)
    BY <1>18 DEF RemoveUnlink, Block
  <2>4. entry[e[t]].addr = blk[t].addr
    BY <2>2 DEF Knows
  <2>5. Knows(t)'
    <3>1. \A n \in Recorded' : entry'[n].addr # blk'[t].addr
      BY <1>0, <2>1, <2>2, <2>3, <2>4 DEF EntriesDescribeBlocks
    <3> QED  BY <2>2, <3>1, MlockAssumption DEF Knows, Counting
  <2>6. ASSUME NEW u \in Threads \ {t}  PROVE Knows(u)'
    <3>1. pc'[u] = pc[u] /\ Knows(u) /\ blk'[u] = blk[u] /\ e'[u] = e[u]
      BY <2>2
    <3>2. alloc_lock' # u /\ pc[u] \notin {"unlock", "unlock_realloc"}
      BY <2>2, <3>1, MlockAssumption DEF Knows
    <3>3. pc[u] \in Counting => e[u] # e[t]
      <4> SUFFICES ASSUME pc[u] \in Counting, e[u] = e[t]  PROVE FALSE
        OBVIOUS
      <4>1. Block(e[u]) = blk[u]
        BY <3>1 DEF Knows
      <4>2. blk[u].addr = blk[t].addr
        BY <2>4, <4>1 DEF Block
      <4> QED  BY ZenonT(60), <2>2, <4>2, MlockAssumption DEF OneOwner, Counting
    <3>4. pc[u] = "insert" => e[u] \in Entries /\ e[u] # e[t]
      BY <2>1, <3>1 DEF Knows
    <3> QED  BY <1>0, <2>1, <2>2, <2>3, <3>1, <3>2, <3>3, <3>4 DEF Knows
  <2> QED  BY <2>5, <2>6
<1>19. ASSUME NEW t \in Threads, App(t)  PROVE \A u \in Threads : Knows(u)'
  BY <1>5, <1>6, <1>19 DEF App, CallFree, CallRealloc
<1>20. CASE UNCHANGED vars
  BY <1>2, <1>20 DEF vars, locals
<1> QED
  BY <1>7, <1>8, <1>9, <1>10, <1>11, <1>13, <1>14, <1>15, <1>16, <1>17, <1>18, <1>19, <1>20
  DEF Next, Hook

-----------------------------------------------------------------------------
(* The locked pages *)

(* The thread that removes an entry, or locks its pages, is the one whose  *)
(* block it describes.                                                     *)
LEMMA OneUser ==
  ASSUME TypeInv, TableInv, NEW t \in Threads, NEW u \in Threads,
         pc[t] \in Counting, blk[u] \in Blocks, entry[e[t]].addr = blk[u].addr
  PROVE  t = u
<1>1. blk[t] \in Blocks /\ Block(e[t]) = blk[t]
  BY DEF TypeInv, WellPlaced, Counting, TableInv, Knows
<1>2. blk[t].addr = blk[u].addr
  BY <1>1 DEF Block
<1>3. blk[t] # Nil /\ blk[u] # Nil
  BY <1>1, MlockAssumption
<1> QED  BY <1>2, <1>3 DEF TableInv, OneOwner

(* Every locked page stays covered by an entry, which is not on its way    *)
(* out and says that it is locked, or is about to.                         *)
LEMMA NextPagesCovered ==
  ASSUME TypeInv, TableInv, PagesCovered, [Next]_vars
  PROVE  PagesCovered'
<1> USE DEF TypeInv, TypeOK, TableInv, Goto
<1>0. Recorded \subseteq Entries
  BY RecordedEntries
<1> DEFINE Covers(n) == n \in Recorded /\ ~Leaving(n) /\ (entry[n].locked \/ Locking(n))
<1>1. ASSUME \A p \in pages' : p \in pages
                /\ \A n \in Recorded : Covers(n) /\ p \in PagesOf(entry[n])
                     => Covers(n)' /\ p \in PagesOf(entry'[n])
      PROVE  PagesCovered'
  BY <1>1 DEF PagesCovered
<1>2. ASSUME pages' = pages,
             \A n \in Recorded : n \in Recorded' /\ entry'[n] = entry[n],
             \A n \in Recorded : /\ ~Leaving(n) => ~Leaving(n)'
                                 /\ Locking(n) => Locking(n)'
      PROVE  PagesCovered'
  <2>1. ASSUME NEW n \in Recorded, Covers(n)  PROVE Covers(n)'
    <3>1. n \in Recorded' /\ entry'[n] = entry[n] /\ ~Leaving(n)'
      BY <1>2, <2>1
    <3>2. entry'[n].locked \/ Locking(n)'
      BY <1>2, <2>1, <3>1
    <3> QED  BY <3>1, <3>2
  <2> HIDE DEF Covers
  <2> QED  BY <1>1, <1>2, <2>1
<1>3. ASSUME pages' = pages,
             \A n \in Recorded : n \in Recorded' /\ entry'[n] = entry[n],
             \A t \in Threads : /\ pc'[t] \in {"unlock", "unlock_realloc"} =>
                                   pc[t] \in {"unlock", "unlock_realloc"} /\ e'[t] = e[t]
                                /\ pc[t] \in {"add", "mark"} =>
                                   pc'[t] \in {"add", "mark"} /\ e'[t] = e[t]
      PROVE  PagesCovered'
  <2>1. ASSUME NEW n, Leaving(n)'  PROVE Leaving(n)
    <3>1. PICK t \in Threads : pc'[t] \in {"unlock", "unlock_realloc"} /\ e'[t] = n
      BY <2>1 DEF Leaving
    <3>2. pc[t] \in {"unlock", "unlock_realloc"} /\ e[t] = n
      BY <1>3, <3>1
    <3> QED  BY <3>2 DEF Leaving
  <2>2. ASSUME NEW n, Locking(n)  PROVE Locking(n)'
    <3>1. PICK t \in Threads : pc[t] \in {"add", "mark"} /\ e[t] = n
      BY <2>2 DEF Locking
    <3>2. pc'[t] \in {"add", "mark"} /\ e'[t] = n
      BY <1>3, <3>1
    <3> QED  BY <3>2 DEF Locking
  <2> QED  BY <1>2, <1>3, <2>1, <2>2
<1>4. ASSUME UNCHANGED <<pages, alloc_table, entry>>, NEW t \in Threads,
             pc' = [pc EXCEPT ![t] = pc'[t]],
             pc[t] \notin {"add", "mark"} \/ (pc[t] = "add" /\ pc'[t] = "mark"),
             pc'[t] \notin {"unlock", "unlock_realloc"},
             \/ e' = e
             \/ e' = [e EXCEPT ![t] = Nil] /\ pc[t] \notin {"add", "mark"}
      PROVE  PagesCovered'
  <2>1. Recorded' = Recorded
    BY <1>4 DEF Recorded
  <2> QED  BY <1>3, <1>4, <2>1
<1>5. ASSUME NEW t \in Threads, App(t)  PROVE PagesCovered'
  BY <1>4, <1>5 DEF App, CallMalloc, CallFree, CallRealloc, Begin, table
<1>6. ASSUME NEW t \in Threads, LibcMalloc(t) \/ LibcRealloc(t)  PROVE PagesCovered'
  BY <1>4, <1>6 DEF LibcMalloc, LibcRealloc, AfterLibc, table
<1>7. ASSUME NEW t \in Threads, LibcFree(t) \/ ReturnBlock(t)  PROVE PagesCovered'
  BY <1>4, <1>7 DEF LibcFree, ReturnBlock, Forget, table
<1>8. ASSUME NEW t \in Threads,
             ReadCount(t) \/ WriteCount(t) \/ CheckBudget(t) \/ WriteTotal(t) \/ RemoveMiss(t)
      PROVE  PagesCovered'
  BY <1>4, <1>8
  DEF ReadCount, WriteCount, CheckBudget, WriteTotal, RemoveMiss, Removing, AfterRemove,
      table, locals
<1>9. ASSUME NEW t \in Threads, NewEntry(t)  PROVE PagesCovered'
  <2>1. \A n \in Recorded : entry[n] # Nil
    BY DEF EntriesDescribeBlocks
  <2>2. \A n \in Recorded : n \in Recorded' /\ entry'[n] = entry[n]
    BY <1>0, <1>9, <2>1 DEF NewEntry, Recorded
  <2>3. /\ pages' = pages /\ pc[t] = "entry" /\ pc'[t] \in {"insert", "return"}
        /\ \A u \in Threads \ {t} : pc'[u] = pc[u] /\ e'[u] = e[u]
    BY <1>9 DEF NewEntry
  <2> QED  BY <1>3, <2>2, <2>3
<1>10. ASSUME NEW t \in Threads, Insert(t)  PROVE PagesCovered'
  <2>1. Recorded \subseteq Recorded'
    BY <1>10, InsertRecords
  <2> QED  BY <1>3, <1>10, <2>1 DEF Insert, locals
<1>11. ASSUME NEW t \in Threads, Mark(t)  PROVE PagesCovered'
  <2>1. e[t] \in Recorded /\ entry[e[t]] \in EntryRecords
    BY <1>0, <1>11 DEF Mark, Knows, Counting, EntriesDescribeBlocks
  <2>2. /\ UNCHANGED <<pages, e>> /\ Recorded' = Recorded
        /\ pc[t] = "mark" /\ pc' = [pc EXCEPT ![t] = "return"]
    BY <1>11 DEF Mark, locals, Recorded
  <2>3. \A n \in Recorded :
          /\ entry'[n].addr = entry[n].addr /\ entry'[n].size = entry[n].size
          /\ IF n = e[t] THEN entry'[n].locked ELSE entry'[n] = entry[n]
    BY <1>0, <1>11, <2>1 DEF Mark, EntryRecords
  <2>4. \A n \in Recorded : PagesOf(entry'[n]) = PagesOf(entry[n])
    BY <2>3 DEF PagesOf
  <2>5. \A n : Leaving(n)' => Leaving(n)
    BY <2>2 DEF Leaving
  <2>6. \A n : Locking(n) => n = e[t] \/ Locking(n)'
    BY <2>2 DEF Locking
  <2>7. \A n \in Recorded : Covers(n) => Covers(n)'
    BY <2>2, <2>3, <2>5, <2>6
  <2> HIDE DEF Covers
  <2> QED  BY <1>1, <2>2, <2>4, <2>7
<1>12. ASSUME NEW t \in Threads, Mlock(t)  PROVE PagesCovered'
  <2>1. CASE UNCHANGED <<pages, tmp>> /\ Goto(t, "mlock", "mark")
    BY <1>4, <1>12, <2>1 DEF Mlock, table
  <2>2. CASE Goto(t, "mlock", "add") /\ pages' = pages \cup PagesOf(blk[t])
    <3>1. /\ UNCHANGED <<alloc_table, entry, e>> /\ Recorded' = Recorded
          /\ pc[t] = "mlock" /\ pc' = [pc EXCEPT ![t] = "add"]
      BY <1>12, <2>2 DEF Mlock, table, Recorded
    <3>2. (\A n : Leaving(n)' => Leaving(n)) /\ \A n : Locking(n) => Locking(n)'
      BY <3>1 DEF Leaving, Locking
    <3>3. e[t] \in Recorded /\ Block(e[t]) = blk[t] /\ Locking(e[t])'
      BY <3>1 DEF Knows, Counting, Locking
    <3>4. PagesOf(blk[t]) = PagesOf(entry[e[t]])
      BY <3>3 DEF PagesOf, Block
    <3>5. ~Leaving(e[t])
      <4> SUFFICES ASSUME NEW u \in Threads, pc[u] \in {"unlock", "unlock_realloc"}, e[u] = e[t]
                   PROVE  FALSE
        BY DEF Leaving
      <4>1. blk[u] \in Blocks /\ entry[e[t]].addr = blk[u].addr
        BY DEF WellPlaced, Knows
      <4> QED  BY <3>1, <4>1, OneUser DEF Counting
    <3>6. ASSUME NEW p \in PagesOf(blk[t])
          PROVE  p \in PagesOf(entry'[e[t]]) /\ Covers(e[t])'
      BY <3>1, <3>2, <3>3, <3>4, <3>5
    <3>7. \A n \in Recorded : Covers(n) => Covers(n)' /\ entry'[n] = entry[n]
      BY <3>1, <3>2
    <3>8. ASSUME NEW p \in pages  PROVE \E n \in Recorded : p \in PagesOf(entry'[n]) /\ Covers(n)'
      BY <3>7 DEF PagesCovered
    <3> HIDE DEF Covers
    <3>9. \A p \in pages' : \E n \in Recorded' : p \in PagesOf(entry'[n]) /\ Covers(n)'
      BY <2>2, <3>1, <3>3, <3>6, <3>8
    <3> QED  BY <3>9 DEF PagesCovered, Covers
  <2> QED  BY <1>12, <2>1, <2>2 DEF Mlock
<1>13. ASSUME NEW t \in Threads, RemoveFind(t)  PROVE PagesCovered'
  <2>1. /\ UNCHANGED <<alloc_table, entry>> /\ Recorded' = Recorded
        /\ pc[t] \in {"free", "realloc"} /\ pc'[t] \in {"unlock", "unlock_realloc"}
        /\ \A u \in Threads \ {t} : pc'[u] = pc[u] /\ e'[u] = e[u]
    BY <1>13, FoundRecorded DEF RemoveFind, Removing, Recorded
  <2> DEFINE f == e'[t]
  <2>2. /\ f \in Recorded /\ entry[f].addr = blk[t].addr
        /\ pages' = IF entry[f].locked THEN pages \ PagesOf(entry[f]) ELSE pages
    BY <1>13, FoundRecorded
  <2>3. ~Locking(f)
    <3> SUFFICES ASSUME NEW u \in Threads, pc[u] \in {"add", "mark"}, e[u] = f  PROVE FALSE
      BY DEF Locking
    <3>1. blk[t] \in Blocks /\ pc[u] \in Counting /\ entry[e[u]].addr = blk[t].addr
      BY <2>1, <2>2 DEF WellPlaced, Counting
    <3>2. u = t
      BY <3>1, OneUser
    <3> QED  BY <2>1, <3>2
  <2>4. \A n : n # f /\ Leaving(n)' => Leaving(n)
    BY <2>1 DEF Leaving
  <2>5. \A n : Locking(n) => Locking(n)'
    BY <2>1 DEF Locking
  <2>6. ASSUME NEW p \in pages', NEW n \in Recorded, Covers(n), p \in PagesOf(entry[n])
        PROVE  n # f
    BY <2>2, <2>3, <2>6
  <2>7. \A n \in Recorded : n # f /\ Covers(n) => Covers(n)'
    BY <2>1, <2>4, <2>5
  <2> HIDE DEF Covers
  <2> QED  BY <1>1, <2>1, <2>2, <2>6, <2>7
<1>14. ASSUME NEW t \in Threads, RemoveUnlink(t)  PROVE PagesCovered'
  <2>1. Recorded' = Recorded \ {e[t]} /\ e[t] \in Recorded
    BY <1>14, UnlinkRecords
  <2>2. /\ pages' = pages /\ pc[t] \in {"unlock", "unlock_realloc"}
        /\ pc'[t] \in {"libc_free", "libc_realloc"}
        /\ \A u \in Threads \ {t} : pc'[u] = pc[u] /\ e'[u] = e[u]
        /\ entry' = [entry EXCEPT ![e[t]] = Nil]
    BY <1>14 DEF RemoveUnlink, AfterRemove
  <2>3. Leaving(e[t])
    BY <2>2 DEF Leaving
  <2>4. \A n : Leaving(n)' => Leaving(n)
    BY <2>2 DEF Leaving
  <2>5. \A n : Locking(n) => Locking(n)'
    BY <2>2 DEF Locking
  <2>6. \A n \in Recorded : n # e[t] => entry'[n] = entry[n]
    BY <1>0, <2>2
  <2>7. \A n \in Recorded : Covers(n) => Covers(n)' /\ entry'[n] = entry[n]
    BY <2>1, <2>3, <2>4, <2>5, <2>6
  <2> HIDE DEF Covers
  <2> QED  BY <1>1, <2>2, <2>7
<1>15. CASE Load
  BY <1>3, <1>15 DEF Load, table, locals, Recorded
<1>16. CASE UNCHANGED vars
  BY <1>3, <1>16 DEF vars, table, locals, Recorded
<1> QED
  BY <1>5, <1>6, <1>7, <1>8, <1>9, <1>10, <1>11, <1>12, <1>13, <1>14, <1>15, <1>16
  DEF Next, Hook

-----------------------------------------------------------------------------
(* The theorems *)

LEMMA NextInv == Inv /\ [Next]_vars => Inv'
<1> SUFFICES ASSUME Inv, [Next]_vars  PROVE Inv'
  OBVIOUS
<1>1. TypeInv /\ TableInv /\ PagesCovered
  BY DEF Inv
<1>2. TypeInv'
  BY <1>1, NextTypeInv
<1>3. TableInv'
  BY <1>1, NextOneOwner, NextEntries, NextKnows, NextOneCell DEF TableInv
<1>4. PagesCovered'
  BY <1>1, NextPagesCovered
<1> QED  BY <1>2, <1>3, <1>4 DEF Inv

LEMMA InvHolds == Spec => []Inv
BY InitInv, NextInv, PTL DEF Spec

(* The state is always of its type, and the table has no entry twice,      *)
(* although record_alloc fills an entry before it takes the lock.          *)
THEOREM TypeCorrect == Spec => []TypeOK
<1>1. Inv => TypeOK
  BY DEF Inv, TypeInv
<1> QED  BY <1>1, InvHolds, PTL

(* No entry outlives its block or describes another's: remove_alloc runs   *)
(* before the block goes back to libc, so that a block at the same address *)
(* is never taken for the old one.                                         *)
THEOREM TableMatchesBlocks == Spec => []EntriesMatchBlocks
<1>1. Inv => EntriesMatchBlocks
  BY DEF Inv, TableInv, EntriesDescribeBlocks, EntriesMatchBlocks, Recorded
<1> QED  BY <1>1, InvHolds, PTL

(* No page stays locked without a recorded block on it: a block is marked  *)
(* as locked before it can be freed, although it is marked without the     *)
(* lock.                                                                   *)
THEOREM LockedPagesBelong == Spec => []LockedPagesAreUsed
<1>1. Inv => LockedPagesAreUsed
  BY DEF Inv, PagesCovered, LockedPagesAreUsed, Recorded
<1> QED  BY <1>1, InvHolds, PTL

=============================================================================
