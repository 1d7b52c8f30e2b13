------------------------- MODULE IntercThreadsProofs -------------------------
(***************************************************************************)
(* Proofs about the pthread_create hook (IntercThreads), for any number of *)
(* threads, nodes and CPUs: compact spread gives no node more threads than *)
(* it has CPUs, and no thread reads a freed wrapper.                       *)
(***************************************************************************)
EXTENDS IntercThreads, SequenceTheorems, FiniteSetTheorems, WellFoundedInduction, TLAPS

-----------------------------------------------------------------------------
(* The inductive invariant. *)

(* A thread is being created by one creator, for as long as the call of    *)
(* pthread_create takes.                                                   *)
ChildInv ==
  /\ \A t \in Threads : /\ child[t] # NoThread <=> pc[t] \in Creating
                        /\ child[t] # NoThread => pc[child[t]] = "unborn"
  /\ \A t, u \in Threads : child[t] = child[u] /\ child[t] # NoThread => t = u

(* The constructor runs in the main thread, which was not created; nor     *)
(* were those before it.                                                   *)
MainInv ==
  /\ pc[Main] \notin Starting \cup {"gone", "failed"}
  /\ \A t \in Early \cup {Main} : pc[t] # "unborn"
  /\ \A t \in Threads \ {Main} : pc[t] \notin Constructor

NodeInv ==
  \A t \in Threads : /\ pc[t] \in {"wrap", "create", "set_home"} => node[t] \in Nodes
                     /\ pc[t] = "unborn" => home[t] = NoNode

(* The cache of CPU counts is complete before it is used.                  *)
CacheInv ==
  /\ pc[Main] \in {"init", "clear"} => filled = 0
  /\ pc[Main] \in {"init", "clear", "fill"} => ~node_cpu_counts_loaded
  /\ pc[Main] = "fill" => \A i \in 1..filled :
       node_cpu_counts[affinity_nodes[i]] = Cpus[affinity_nodes[i]]
  /\ node_cpu_counts_loaded => node_cpu_counts = CpuCounts

LockInv ==
  \A t \in Threads : /\ pc[t] \in {"read", "write", "unlock"} <=> thread_seq_lock = t
                     /\ pc[t] = "write" => seq[t] = global_thread_seq

(* Where a number is worth a node: Takes(s, n) for the s that are n's.     *)
Before == CpusUpTo(CpuCounts)
Takes(s, n) ==
  \E i \in 1..Len(affinity_nodes) : affinity_nodes[i] = n /\ Before[i-1] <= s /\ s < Before[i]

(* The threads that have a number of global_thread_seq, at their creator   *)
(* or in the node that it became.                                          *)
Placed(c, n) == wrapper[c] = n \/ home[c] = n \/ (pc[c] = "set_home" /\ node[c] = n)
HasNumber == {"unlock", "choose", "wrap", "create"}
Numbered ==
  {c \in Threads \ {Main} : \/ \E t \in Threads : child[t] = c /\ pc[t] \in HasNumber
                            \/ \E n \in Nodes : Placed(c, n)}

(* num gives each of them the number it was created with: no number went   *)
(* to two, and it became the node that it is worth.                        *)
Numbering(num) ==
  /\ \A c \in Numbered : num[c] < global_thread_seq
  /\ \A c, d \in Numbered : num[c] = num[d] => c = d
  /\ \A t \in Threads : /\ pc[t] \in {"unlock", "choose"} => seq[t] = num[child[t]]
                        /\ pc[t] \in {"wrap", "create"} => Takes(num[child[t]], node[t])
  /\ \A c \in Threads \ {Main}, n \in Nodes : Placed(c, n) => Takes(num[c], n)

(* Threads whose creator has counted them, or never will.                  *)
Passed == {c \in Attempts : \A t \in Threads : child[t] = c => pc[t] \notin {"lock", "read", "write"}}

SpreadInv ==
  Cardinality(Attempts) <= Capacity =>
    /\ global_thread_seq \in 0..Cardinality(Passed)
    /\ \E num \in [Threads -> Nat] : Numbering(num)

CreateInv == TypeOK /\ ChildInv /\ MainInv /\ NodeInv /\ WrapperInFlight
Inv == CreateInv /\ CacheInv /\ LockInv /\ SpreadInv
-----------------------------------------------------------------------------
(* Natural numbers *)

LEMMA LeastNatural ==
  ASSUME NEW T \in SUBSET Nat, T # {}
  PROVE  \E m \in T : \A n \in T : m <= n
<1>1. \E m \in T : \A n \in T : <<n, m>> \notin OpToRel(<, Nat)
  BY NatLessThanWellFounded, WFMin
<1>2. \A m, n \in Nat : <<n, m>> \in OpToRel(<, Nat) <=> n < m
  BY DEF OpToRel
<1>3. \E m \in T : \A n \in T : ~(n < m)
  BY <1>1, <1>2, Zenon
<1> QED BY <1>3

(* A set that has 0, and with a number the next one, has all up to n.      *)
LEMMA UpTo ==
  ASSUME NEW n \in Nat, NEW S, 0 \in S, \A k \in 0..n-1 : k \in S => k+1 \in S
  PROVE  0..n \subseteq S
<1> SUFFICES ASSUME 0..n \ S # {}  PROVE FALSE
  OBVIOUS
<1>1. PICK m \in 0..n \ S : \A k \in 0..n \ S : m <= k
  <2>1. (0..n \ S) \in SUBSET Nat
    OBVIOUS
  <2> QED  BY <2>1, LeastNatural
<1>2. m # 0 /\ m-1 \in 0..n-1 /\ m-1 \in S
  BY <1>1
<1> QED  BY <1>1, <1>2

LEMMA LeastIsMin ==
  ASSUME NEW S \in SUBSET Nat, S # {}
  PROVE  Min(S) \in S /\ \A k \in S : Min(S) <= k
BY LeastNatural DEF Min

-----------------------------------------------------------------------------
(* The CPUs of the nodes *)

L == Len(affinity_nodes)

LEMMA ListType ==
  /\ L \in Nat \ {0} /\ DOMAIN affinity_nodes = 1..L
  /\ \A i \in 1..L : affinity_nodes[i] \in Nodes
  /\ \A n \in Nodes : \E i \in 1..L : affinity_nodes[i] = n
  /\ CpuCounts \in [Nodes -> Nat]
<1>1. DOMAIN affinity_nodes = 1..L /\ L \in Nat \ {0}
  BY ThreadsAssumption, LenProperties, EmptySeq DEF L
<1> QED  BY <1>1, ThreadsAssumption DEF Nodes, CpuCounts

(* CpusUpTo counts the CPUs, as its definition says.                       *)
LEMMA SumProperties ==
  ASSUME NEW count \in [Nodes -> Nat]
  PROVE  /\ CpusUpTo(count) \in [0..L -> Nat]
         /\ CpusUpTo(count)[0] = 0
         /\ \A i \in 1..L : CpusUpTo(count)[i] = CpusUpTo(count)[i-1] + count[affinity_nodes[i]]
<1> DEFINE Adds(f, k) ==
             /\ f \in [0..k -> Nat] /\ f[0] = 0
             /\ \A i \in 1..k : f[i] = f[i-1] + count[affinity_nodes[i]]
           S == {k \in 0..L : \E f : Adds(f, k)}
           Rec(f) == f = [i \in 0..L |-> IF i = 0 THEN 0 ELSE f[i-1] + count[affinity_nodes[i]]]
<1>1. L \in Nat /\ \A i \in 1..L : count[affinity_nodes[i]] \in Nat
  BY ListType
<1>2. 0 \in S
  <2> DEFINE f == [i \in 0..0 |-> 0]
  <2>1. Adds(f, 0)
    OBVIOUS
  <2> HIDE DEF f, Adds
  <2> QED  BY <1>1, <2>1
<1>3. ASSUME NEW k \in 0..L-1, k \in S  PROVE k+1 \in S
  <2>1. PICK f : Adds(f, k)
    BY <1>3
  <2> DEFINE g == [i \in 0..k+1 |-> IF i = k+1 THEN f[k] + count[affinity_nodes[k+1]] ELSE f[i]]
  <2>2. k+1 \in 1..L /\ k \in Nat
    BY <1>1
  <2>3. g \in [0..k+1 -> Nat] /\ g[0] = 0
    BY <1>1, <2>1, <2>2
  <2>4. ASSUME NEW i \in 1..k+1  PROVE g[i] = g[i-1] + count[affinity_nodes[i]]
    <3>1. CASE i = k+1
      <4>1. g[i] = f[k] + count[affinity_nodes[k+1]] /\ i-1 = k /\ k # k+1 /\ k \in 0..k+1
        BY <2>2, <3>1
      <4>2. g[i-1] = f[k]
        BY <4>1
      <4> QED  BY <3>1, <4>1, <4>2
    <3>2. CASE i # k+1
      <4>1. i \in 1..k /\ i \in 0..k+1 /\ i-1 \in 0..k+1 /\ i-1 # k+1
        BY <2>2, <3>2
      <4>2. g[i] = f[i] /\ g[i-1] = f[i-1]
        BY <3>2, <4>1
      <4> QED  BY <2>1, <4>1, <4>2
    <3> QED  BY <3>1, <3>2
  <2>5. Adds(g, k+1)
    BY <2>3, <2>4
  <2> HIDE DEF g, Adds
  <2>6. k+1 \in 0..L
    BY <1>1, <2>2
  <2> QED  BY <2>5, <2>6
<1>4. L \in S
  <2> HIDE DEF S
  <2>1. 0..L \subseteq S
    BY <1>1, <1>2, <1>3, UpTo
  <2> QED  BY <1>1, <2>1
<1>5. PICK f : Adds(f, L)
  BY <1>4
<1>6. Rec(f)
  BY <1>1, <1>5
<1>7. CpusUpTo(count) = CHOOSE h : Rec(h)
  BY DEF CpusUpTo, L
<1>8. Rec(CpusUpTo(count))
  BY <1>6, <1>7
<1> DEFINE c == CpusUpTo(count)
<1>9. DOMAIN c = 0..L /\ c[0] = 0 /\ \A i \in 1..L : c[i] = c[i-1] + count[affinity_nodes[i]]
  <2> HIDE DEF c
  <2>1. c = [i \in 0..L |-> IF i = 0 THEN 0 ELSE c[i-1] + count[affinity_nodes[i]]]
    BY <1>8 DEF c
  <2> QED  BY <1>1, <2>1
<1>10. 0..L \subseteq {i \in 0..L : c[i] \in Nat}
  <2> HIDE DEF c
  <2>1. \A k \in 0..L-1 : k+1 \in 1..L /\ k \in 0..L /\ (k+1)-1 = k /\ k+1 \in 0..L
    BY <1>1
  <2> DEFINE T == {i \in 0..L : c[i] \in Nat}
  <2>2. 0 \in T
    BY <1>1, <1>9
  <2>3. ASSUME NEW k \in 0..L-1, k \in T  PROVE k+1 \in T
    <3>1. c[k+1] = c[k] + count[affinity_nodes[k+1]] /\ c[k] \in Nat
          /\ count[affinity_nodes[k+1]] \in Nat
      BY <1>1, <1>9, <2>1, <2>3
    <3> QED  BY <2>1, <3>1
  <2> HIDE DEF T
  <2> QED  BY <1>1, <2>2, <2>3, UpTo DEF T
<1>11. c \in [0..L -> Nat]
  <2>1. c = [i \in 0..L |-> c[i]]
    <3> HIDE DEF c
    <3> QED  BY <1>8, <1>9 DEF c
  <2> QED  BY <1>10, <2>1
<1> QED  BY <1>9, <1>11

LEMMA BeforeProperties ==
  /\ Before \in [0..L -> Nat] /\ Before[0] = 0 /\ Capacity = Before[L] /\ Capacity \in Nat
  /\ \A i \in 1..L : Before[i] = Before[i-1] + Cpus[affinity_nodes[i]]
  /\ \A i, j \in 0..L : i <= j => Before[i] <= Before[j]
<1>1. L \in Nat /\ CpuCounts \in [Nodes -> Nat]
      /\ \A i \in 1..L : affinity_nodes[i] \in Nodes
                         /\ CpuCounts[affinity_nodes[i]] = Cpus[affinity_nodes[i]]
  BY ListType DEF CpuCounts
<1>2. /\ Before \in [0..L -> Nat] /\ Before[0] = 0
      /\ \A i \in 1..L : Before[i] = Before[i-1] + Cpus[affinity_nodes[i]]
  BY <1>1, SumProperties DEF Before
<1>3. Capacity = Before[L] /\ Capacity \in Nat
  BY <1>1, <1>2 DEF Capacity, Before, L
<1>4. ASSUME NEW i \in 0..L, NEW j \in 0..L, i <= j  PROVE Before[i] <= Before[j]
  <2> DEFINE S == {k \in 0..L : i <= k => Before[i] <= Before[k]}
  <2>1. 0 \in S
    BY <1>1, <1>2
  <2>2. ASSUME NEW k \in 0..L-1, k \in S  PROVE k+1 \in S
    <3>1. k+1 \in 1..L /\ k \in 0..L /\ Before[k+1] = Before[k] + CpuCounts[affinity_nodes[k+1]]
          /\ Before[k] \in Nat /\ Before[i] \in Nat /\ CpuCounts[affinity_nodes[k+1]] \in Nat
      BY <1>1, <1>2
    <3>2. CASE i <= k
      BY <2>2, <3>1, <3>2
    <3>3. CASE ~(i <= k)
      <4>1. i >= k+1
        BY <3>1, <3>3
      <4>2. i <= k+1 => i = k+1
        BY <3>1, <4>1
      <4> QED  BY <3>1, <4>2
    <3> QED  BY <3>2, <3>3
  <2> HIDE DEF S
  <2>3. 0..L \subseteq S
    BY <1>1, <2>1, <2>2, UpTo
  <2> QED  BY <1>4, <2>3 DEF S
<1> QED  BY <1>2, <1>3, <1>4

(* Where the cache is read it is complete.                                 *)
LEMMA CountsAreCpus ==
  ASSUME CacheInv, NEW i \in 0..L
  PROVE  Offset(i) = Before[i]
<1>1. \A n \in Nodes : CpusOf(n) = CpuCounts[n]
  BY DEF CpusOf, CacheInv, CpuCounts
<1>2. [n \in Nodes |-> CpusOf(n)] = CpuCounts
  BY <1>1 DEF CpuCounts
<1> QED  BY <1>2 DEF Offset, Before

(* get_next_node returns a node of the list; while there are CPUs left, the *)
(* one that the number is worth.                                           *)
LEMMA CompactNodeIsNode ==
  ASSUME CacheInv, NEW s \in Int
  PROVE  /\ CompactNode(s) \in Nodes
         /\ s \in Nat /\ s < Capacity => Takes(s, CompactNode(s))
<1> DEFINE fits == {i \in 1..L : s < Before[i]}
<1>1. L \in Nat \ {0} /\ \A i \in 1..L : affinity_nodes[i] \in Nodes
  BY ListType
<1>2. CompactNode(s) = affinity_nodes[IF fits # {} THEN Min(fits) ELSE (s % L) + 1]
  <2>1. fits = {i \in 1..Len(affinity_nodes) : s < Offset(i)}
    BY <1>1, CountsAreCpus DEF L
  <2> HIDE DEF fits
  <2> QED  BY <2>1 DEF CompactNode, L
<1>3. CASE fits = {}
  <2>1. s % L \in 0..L-1
    BY <1>1
  <2>2. (s % L) + 1 \in 1..L
    BY <1>1, <2>1
  <2>3. ~(s < Capacity)
    BY <1>1, <1>3, BeforeProperties
  <2> QED  BY <1>1, <1>2, <1>3, <2>2, <2>3
<1>4. CASE fits # {}
  <2>1. fits \in SUBSET Nat
    OBVIOUS
  <2>2. PICK i \in fits : i = Min(fits) /\ \A k \in fits : i <= k
    BY <1>4, <2>1, LeastIsMin
  <2>3. i \in 1..L /\ s < Before[i] /\ CompactNode(s) = affinity_nodes[i]
    BY <1>2, <1>4, <2>2
  <2>4. s \in Nat => Before[i-1] <= s
    <3>1. CASE i = 1
      BY <3>1, BeforeProperties
    <3>2. CASE i # 1
      <4>1. i-1 \in 1..L /\ i-1 \notin fits
        <5>1. i-1 \in 1..L /\ ~(i <= i-1)
          BY <1>1, <2>3, <3>2
        <5> HIDE DEF fits
        <5> QED  BY <2>2, <5>1
      <4> QED  BY <4>1, BeforeProperties
    <3> QED  BY <3>1, <3>2
  <2> HIDE DEF fits
  <2> QED  BY <1>1, <2>3, <2>4 DEF Takes, L
<1> QED  BY <1>3, <1>4
-----------------------------------------------------------------------------
(* Types *)

(* What a step of a creator or of a new thread finds.                      *)
LEMMA CreatorHas ==
  ASSUME TypeOK, ChildInv, NEW t \in Threads, pc[t] \in Creating
  PROVE  /\ child[t] \in Threads /\ child[t] # t /\ pc[child[t]] = "unborn"
         /\ \A u \in Threads : child[u] = child[t] => u = t
BY DEF TypeOK, ChildInv, Creating

(* Every step of the constructor keeps the types.                          *)
LEMMA KumfInitTypeOK ==
  ASSUME TypeOK, KumfInit
  PROVE  TypeOK'
<1> USE DEF TypeOK
<1>0. Main \in Threads /\ L \in Nat \ {0} /\ \A i \in 1..L : affinity_nodes[i] \in Nodes
  BY ThreadsAssumption, ListType
<1>1. \A to \in Locations : pc' = [pc EXCEPT ![Main] = to] => pc' \in [Threads -> Locations]
  BY <1>0
<1>2. {"clear", "fill", "home", "bind_main", "run"} \subseteq Locations
  BY DEF Locations, Constructor
<1>3. CASE SetMode
  BY <1>1, <1>2, <1>3 DEF SetMode, Goto, cache, counter
<1>4. CASE CacheClear
  BY <1>1, <1>2, <1>4 DEF CacheClear, Goto, counter
<1>5. CASE CacheFill
  <2>1. filled+1 \in 1..L /\ filled' = filled+1
    BY <1>0, <1>5 DEF CacheFill, L
  <2>2. affinity_nodes[filled+1] \in Nodes /\ Cpus[affinity_nodes[filled+1]] \in Nat
    BY <1>0, <2>1, ThreadsAssumption
  <2>3. node_cpu_counts' \in [Nodes -> Nat]
    BY <1>5, <2>2 DEF CacheFill
  <2>4. filled' \in 0..Len(affinity_nodes)
    BY <1>0, <2>1 DEF L
  <2> QED  BY <1>1, <1>2, <1>5, <2>3, <2>4 DEF CacheFill, Goto, counter
<1>6. CASE CacheLoaded
  BY <1>1, <1>2, <1>6 DEF CacheLoaded, Goto, counter
<1>7. CASE HomeMain
  <2>1. affinity_nodes[1] \in Nodes
    BY <1>0
  <2> QED  BY <1>1, <1>2, <1>7, <2>1 DEF HomeMain, Goto, cache, counter
<1>8. CASE Bind(Main, "bind_main")
  BY <1>0, <1>1, <1>2, <1>8 DEF Bind, Goto, cache, counter
<1> QED  BY <1>3, <1>4, <1>5, <1>6, <1>7, <1>8 DEF KumfInit

(* So does every step of a creator or of a thread.                         *)
LEMMA ThreadTypeOK ==
  ASSUME TypeOK, ChildInv, CacheInv, NEW t \in Threads,
         (\E c \in Threads : CallCreate(t, c)) \/ Create(t) \/ Start(t) \/ Exit(t)
  PROVE  TypeOK'
<1> USE DEF TypeOK
<1>1. \A to \in Locations : pc' = [pc EXCEPT ![t] = to] => pc' \in [Threads -> Locations]
  OBVIOUS
<1>2. Creating \cup Starting \cup {"run", "gone", "failed"} \subseteq Locations
  BY DEF Locations
<1>3. MaxInt \in Nat
  BY IntAssumption
<1>4. ASSUME NEW c \in Threads, CallCreate(t, c)  PROVE TypeOK'
  <2>1. pc' \in [Threads -> Locations] /\ child' \in [Threads -> Threads \cup {NoThread}]
    BY <1>1, <1>2, <1>4 DEF CallCreate, Goto, Creating
  <2> QED  BY <1>4, <2>1 DEF CallCreate, cache, counter
<1>5. CASE SeqLock(t)
  BY <1>1, <1>2, <1>5 DEF SeqLock, Goto, cache, Creating
<1>6. CASE SeqRead(t)
  BY <1>1, <1>2, <1>6 DEF SeqRead, Goto, cache, counter, Creating
<1>7. CASE SeqWrite(t)
  <2>1. global_thread_seq' \in (-MaxInt - 1)..MaxInt
    <3>1. seq[t] \in (-MaxInt - 1)..MaxInt
      OBVIOUS
    <3>2. global_thread_seq' = IF seq[t] = MaxInt THEN -MaxInt - 1 ELSE seq[t] + 1
      BY <1>7 DEF SeqWrite
    <3> QED  BY <1>3, <3>1, <3>2
  <2> QED  BY <1>1, <1>2, <1>7, <2>1 DEF SeqWrite, Goto, cache, Creating
<1>8. CASE SeqUnlock(t)
  BY <1>1, <1>2, <1>8 DEF SeqUnlock, Goto, cache, Creating
<1>9. CASE ChooseNode(t)
  <2>1. CompactNode(seq[t]) \in Nodes /\ 0 \in (-MaxInt - 1)..MaxInt
    BY <1>3, CompactNodeIsNode
  <2> QED  BY <1>1, <1>2, <1>9, <2>1 DEF ChooseNode, Goto, cache, counter, Creating
<1>10. ASSUME NEW from, NEW c, NEW state \in {"entry", "failed"}, CreateReturn(t, from, c, state)
       PROVE  /\ pc' \in [Threads -> Locations] /\ child' \in [Threads -> Threads \cup {NoThread}]
              /\ node' \in [Threads -> Nodes \cup {NoNode}]
  BY <1>2, <1>10 DEF CreateReturn, Starting
<1>11. CASE MakeWrapper(t)
  <2>1. CASE CreateReturn(t, "wrap", child[t], "failed")
             /\ UNCHANGED <<intercepting, cache, counter, seq, wrapper, home, bound>>
    BY <1>10, <2>1 DEF cache, counter
  <2>2. CASE Goto(t, "wrap", "create") /\ wrapper' = [wrapper EXCEPT ![child[t]] = node[t]]
             /\ UNCHANGED <<intercepting, cache, counter, seq, node, child, home, bound>>
    BY <1>1, <1>2, <2>2 DEF Goto, cache, counter, Creating
  <2> QED  BY <1>11, <2>1, <2>2 DEF MakeWrapper
<1>12. CASE LibcCreate(t)
  BY <1>10, <1>12 DEF LibcCreate, cache, counter
<1>13. CASE Entry(t)
  BY <1>1, <1>2, <1>13 DEF Entry, Goto, cache, counter, Starting
<1>14. CASE SetHome(t)
  BY <1>1, <1>2, <1>14 DEF SetHome, Goto, cache, counter, Starting
<1>15. CASE Bind(t, "bind")
  BY <1>1, <1>2, <1>15 DEF Bind, Goto, cache, counter
<1>16. CASE Exit(t)
  BY <1>1, <1>2, <1>16 DEF Exit, Goto, cache, counter
<1> QED  BY <1>4, <1>5, <1>6, <1>7, <1>8, <1>9, <1>11, <1>12, <1>13, <1>14, <1>15, <1>16
         DEF Create, Start

LEMMA NextTypeOK ==
  ASSUME TypeOK, ChildInv, CacheInv, [Next]_vars
  PROVE  TypeOK'
<1>1. CASE UNCHANGED vars
  BY <1>1 DEF vars, cache, counter, TypeOK
<1> QED  BY <1>1, KumfInitTypeOK, ThreadTypeOK DEF Next
-----------------------------------------------------------------------------
(* Creators, children and wrappers *)

LEMMA ChildMove ==
  ASSUME TypeOK, ChildInv, NEW t \in Threads, pc[t] # "unborn",
         pc[t] \in Creating <=> pc'[t] \in Creating,
         \A u \in Threads \ {t} : pc'[u] = pc[u], UNCHANGED child
  PROVE  ChildInv'
BY DEF ChildInv, TypeOK

(* A step within the creator's or the new thread's own code changes no     *)
(* child and needs no wrapper.                                             *)
LEMMA CalmMove ==
  ASSUME CreateInv, NEW t \in Threads, NEW from, NEW to, Goto(t, from, to),
         UNCHANGED <<child, wrapper>>,
         from \notin {"unborn", "entry", "create", "failed"},
         to \notin {"unborn", "entry", "create", "failed"},
         from \in Creating <=> to \in Creating
  PROVE  ChildInv' /\ WrapperInFlight'
<1>1. pc[t] = from /\ pc'[t] = to /\ \A u \in Threads \ {t} : pc'[u] = pc[u]
  BY DEF CreateInv, TypeOK, Goto
<1>2. ChildInv'
  BY <1>1, ChildMove DEF CreateInv
<1>3. WrapperInFlight'
  BY <1>1 DEF CreateInv, WrapperInFlight
<1> QED  BY <1>2, <1>3

LEMMA NextChildWrapper ==
  ASSUME CreateInv, [Next]_vars
  PROVE  ChildInv' /\ WrapperInFlight'
<1> USE DEF Creating
<1>1. CASE UNCHANGED vars
  BY <1>1 DEF vars, CreateInv, ChildInv, WrapperInFlight
<1>2. CASE KumfInit
  <2>1. Main \in Threads
    BY ThreadsAssumption
  <2>2. CASE SetMode
    BY <2>1, <2>2, CalmMove DEF SetMode
  <2>3. CASE CacheClear
    BY <2>1, <2>3, CalmMove DEF CacheClear
  <2>4. CASE CacheFill
    BY <2>1, <2>4, CalmMove DEF CacheFill
  <2>5. CASE CacheLoaded
    BY <2>1, <2>5, CalmMove DEF CacheLoaded
  <2>6. CASE HomeMain
    BY <2>1, <2>6, CalmMove DEF HomeMain
  <2>7. CASE Bind(Main, "bind_main")
    BY <2>1, <2>7, CalmMove DEF Bind
  <2> QED  BY <1>2, <2>2, <2>3, <2>4, <2>5, <2>6, <2>7 DEF KumfInit
<1>3. ASSUME NEW t \in Threads, NEW c \in Threads, CallCreate(t, c)
      PROVE  ChildInv' /\ WrapperInFlight'
  <2>1. /\ pc[t] = "run" /\ pc[c] = "unborn" /\ wrapper' = wrapper /\ c # t
        /\ \A u \in Threads : child[u] # c
    BY <1>3 DEF CallCreate, Goto
  <2>2. CASE Goto(t, "run", "lock") /\ child' = [child EXCEPT ![t] = c]
    <3>1. /\ pc'[t] = "lock" /\ \A u \in Threads \ {t} : pc'[u] = pc[u] /\ child'[u] = child[u]
          /\ child'[t] = c /\ c # NoThread
      BY <2>2, ThreadsAssumption DEF CreateInv, TypeOK, Goto
    <3>2. ChildInv'
      <4>1. \A u \in Threads : child'[u] # NoThread <=> pc'[u] \in Creating
        BY <3>1 DEF CreateInv, ChildInv
      <4>2. \A u \in Threads : child'[u] # NoThread => pc'[child'[u]] = "unborn"
        <5>1. pc'[child'[t]] = "unborn"
          BY <2>1, <3>1
        <5>2. \A u \in Threads \ {t} : child[u] # NoThread =>
                /\ child[u] \in Threads /\ pc[child[u]] = "unborn" /\ child[u] # t
          BY <2>1 DEF CreateInv, ChildInv, TypeOK
        <5>3. \A u \in Threads \ {t} : child'[u] # NoThread => pc'[child'[u]] = "unborn"
          BY <3>1, <5>2
        <5> QED  BY <5>1, <5>3
      <4>3. \A u, v \in Threads : child'[u] = child'[v] /\ child'[u] # NoThread => u = v
        BY <2>1, <3>1 DEF CreateInv, ChildInv
      <4> QED  BY <4>1, <4>2, <4>3 DEF ChildInv
    <3>3. WrapperInFlight'
      BY <2>1, <3>1 DEF CreateInv, WrapperInFlight
    <3> QED  BY <3>2, <3>3
  <2>3. CASE pc' = [pc EXCEPT ![c] = "run"] /\ UNCHANGED child
    <3>1. pc'[c] = "run" /\ \A u \in Threads \ {c} : pc'[u] = pc[u]
      BY <2>3 DEF CreateInv, TypeOK
    <3>2. ChildInv'
      BY <2>1, <2>3, <3>1 DEF CreateInv, ChildInv, TypeOK
    <3>3. WrapperInFlight'
      BY <2>1, <2>3, <3>1 DEF CreateInv, WrapperInFlight
    <3> QED  BY <3>2, <3>3
  <2> QED  BY <1>3, <2>2, <2>3 DEF CallCreate
<1>4. ASSUME NEW t \in Threads, NEW from \in {"wrap", "create"}, NEW state \in {"entry", "failed"},
             CreateReturn(t, from, child[t], state), UNCHANGED wrapper,
             from = "create" \/ state = "failed"
      PROVE  ChildInv' /\ WrapperInFlight'
  <2> DEFINE c == child[t]
  <2>1. /\ pc[t] = from /\ c \in Threads /\ c # t /\ pc[c] = "unborn" /\ c # NoThread
        /\ \A u \in Threads : child[u] = c => u = t
    BY <1>4, CreatorHas, ThreadsAssumption DEF CreateReturn, CreateInv
  <2>2. /\ pc' = [pc EXCEPT ![t] = "run", ![c] = state]
        /\ child' = [child EXCEPT ![t] = NoThread]
    BY <1>4 DEF CreateReturn
  <2> HIDE DEF c
  <2>3. /\ pc'[t] = "run" /\ pc'[c] = state /\ child'[t] = NoThread
        /\ \A u \in Threads \ {t, c} : pc'[u] = pc[u]
        /\ \A u \in Threads \ {t} : child'[u] = child[u]
    BY <2>1, <2>2 DEF CreateInv, TypeOK
  <2>4. ChildInv'
    <3>1. \A u \in Threads : child'[u] # NoThread <=> pc'[u] \in Creating
      <4>1. child[c] = NoThread
        BY <2>1 DEF CreateInv, ChildInv
      <4> QED  BY <2>1, <2>3, <4>1 DEF CreateInv, ChildInv
    <3>2. \A u \in Threads : child'[u] # NoThread => pc'[child'[u]] = "unborn"
      <4>1. \A u \in Threads \ {t} : child[u] # NoThread =>
              /\ child[u] \in Threads /\ pc[child[u]] = "unborn" /\ child[u] \notin {t, c}
        BY <1>4, <2>1 DEF CreateInv, ChildInv, TypeOK
      <4> QED  BY <2>3, <4>1
    <3>3. \A u, v \in Threads : child'[u] = child'[v] /\ child'[u] # NoThread => u = v
      BY <2>1, <2>3 DEF CreateInv, ChildInv
    <3> QED  BY <3>1, <3>2, <3>3 DEF ChildInv
  <2>5. WrapperInFlight'
    BY <1>4, <2>1, <2>3 DEF CreateInv, WrapperInFlight, c
  <2> QED  BY <2>4, <2>5
<1>5. ASSUME NEW t \in Threads, Create(t)
      PROVE  ChildInv' /\ WrapperInFlight'
  <2>1. CASE SeqLock(t)
    BY <2>1, CalmMove DEF SeqLock
  <2>2. CASE SeqRead(t)
    BY <2>2, CalmMove DEF SeqRead
  <2>3. CASE SeqWrite(t)
    BY <2>3, CalmMove DEF SeqWrite
  <2>4. CASE SeqUnlock(t)
    BY <2>4, CalmMove DEF SeqUnlock
  <2>5. CASE ChooseNode(t)
    BY <2>5, CalmMove DEF ChooseNode
  <2>6. CASE LibcCreate(t)
    BY <1>4, <2>6 DEF LibcCreate
  <2>7. CASE CreateReturn(t, "wrap", child[t], "failed") /\ UNCHANGED wrapper
    BY <1>4, <2>7
  <2>8. CASE Goto(t, "wrap", "create") /\ wrapper' = [wrapper EXCEPT ![child[t]] = node[t]]
             /\ UNCHANGED child
    <3> DEFINE c == child[t]
    <3>1. /\ pc[t] = "wrap" /\ c \in Threads /\ c # t /\ pc[c] = "unborn"
          /\ \A u \in Threads : child[u] = c => u = t
      BY <2>8, CreatorHas DEF Goto, CreateInv
    <3>2. node[t] # NoNode
      BY <3>1, ThreadsAssumption DEF CreateInv, NodeInv
    <3>3. wrapper' = [wrapper EXCEPT ![c] = node[t]]
      BY <2>8
    <3> HIDE DEF c
    <3>4. /\ pc'[t] = "create" /\ \A u \in Threads \ {t} : pc'[u] = pc[u]
          /\ wrapper'[c] = node[t] /\ \A u \in Threads \ {c} : wrapper'[u] = wrapper[u]
      BY <2>8, <3>1, <3>3 DEF CreateInv, TypeOK, Goto
    <3>5. ChildInv'
      BY <2>8, <3>1, <3>4, ChildMove DEF CreateInv
    <3>6. WrapperInFlight'
      BY <2>8, <3>1, <3>2, <3>4 DEF CreateInv, WrapperInFlight, c
    <3> QED  BY <3>5, <3>6
  <2> QED  BY <1>5, <2>1, <2>2, <2>3, <2>4, <2>5, <2>6, <2>7, <2>8 DEF Create, MakeWrapper
<1>6. ASSUME NEW t \in Threads, Start(t) \/ Exit(t)
      PROVE  ChildInv' /\ WrapperInFlight'
  <2>1. CASE SetHome(t)
    BY <2>1, CalmMove DEF SetHome
  <2>2. CASE Bind(t, "bind")
    BY <2>2, CalmMove DEF Bind
  <2>3. CASE Exit(t)
    BY <2>3, CalmMove DEF Exit
  <2>4. CASE Entry(t)
    <3>1. /\ pc[t] = "entry" /\ pc'[t] = "set_home" /\ \A u \in Threads \ {t} : pc'[u] = pc[u]
          /\ wrapper'[t] = NoNode /\ \A u \in Threads \ {t} : wrapper'[u] = wrapper[u]
          /\ child' = child
      BY <2>4 DEF CreateInv, TypeOK, Entry, Goto
    <3>2. ChildInv'
      BY <3>1 DEF CreateInv, ChildInv, TypeOK
    <3>3. \A u \in Threads : child[u] # NoThread => child[u] # t
      BY <3>1 DEF CreateInv, ChildInv, TypeOK
    <3>4. WrapperInFlight'
      BY <3>1, <3>3, ThreadsAssumption DEF CreateInv, WrapperInFlight
    <3> QED  BY <3>2, <3>4
  <2> QED  BY <1>6, <2>1, <2>2, <2>3, <2>4 DEF Start
<1> QED  BY <1>1, <1>2, <1>3, <1>5, <1>6 DEF Next

LEMMA NextMainNode ==
  ASSUME CreateInv, CacheInv, [Next]_vars
  PROVE  MainInv' /\ NodeInv'
<1> USE DEF Creating, Starting, Constructor, Goto
<1>1. CASE UNCHANGED vars
  BY <1>1 DEF vars, CreateInv, MainInv, NodeInv
<1>2. Main \in Threads /\ NoNode \notin Nodes /\ Early \subseteq Threads
  BY ThreadsAssumption
<1>3. CASE KumfInit
  <2>1. /\ \A u \in Threads \ {Main} : pc'[u] = pc[u] /\ home'[u] = home[u]
        /\ pc'[Main] \in Constructor \cup {"run"} /\ node' = node
    BY <1>2, <1>3 DEF KumfInit, SetMode, CacheClear, CacheFill, CacheLoaded, HomeMain, Bind,
                      CreateInv, TypeOK
  <2> QED  BY <1>2, <2>1 DEF CreateInv, MainInv, NodeInv
<1>4. ASSUME NEW t \in Threads, NEW c \in Threads, CallCreate(t, c)
      PROVE  MainInv' /\ NodeInv'
  <2>1. /\ UNCHANGED <<node, home>> /\ pc[t] = "run" /\ pc[c] = "unborn"
        /\ \A u \in Threads \ {t, c} : pc'[u] = pc[u]
        /\ pc'[t] \in {"run", "lock"} /\ pc'[c] \in {"unborn", "run"}
    BY <1>4 DEF CallCreate, CreateInv, TypeOK
  <2> QED  BY <1>2, <2>1 DEF CreateInv, MainInv, NodeInv
<1>5. ASSUME NEW t \in Threads, NEW from, NEW state \in {"entry", "failed"},
             CreateReturn(t, from, child[t], state), from \in {"wrap", "create"}, UNCHANGED home
      PROVE  MainInv' /\ NodeInv'
  <2>1. pc[t] = from /\ child[t] \in Threads /\ pc[child[t]] = "unborn" /\ child[t] # t
    BY <1>5, CreatorHas DEF CreateReturn, CreateInv
  <2>2. /\ \A u \in Threads \ {t, child[t]} : pc'[u] = pc[u] /\ node'[u] = node[u]
        /\ pc'[t] = "run" /\ pc'[child[t]] = state
    BY <1>5, <2>1 DEF CreateReturn, CreateInv, TypeOK
  <2> QED  BY <1>2, <1>5, <2>1, <2>2 DEF CreateInv, MainInv, NodeInv
<1>6. ASSUME NEW t \in Threads, Create(t)
      PROVE  MainInv' /\ NodeInv'
  <2>1. CASE SeqLock(t) \/ SeqRead(t) \/ SeqWrite(t) \/ SeqUnlock(t)
    <3>1. /\ UNCHANGED <<node, home>> /\ \A u \in Threads \ {t} : pc'[u] = pc[u]
          /\ pc[t] \in Creating /\ pc'[t] \in {"read", "write", "unlock", "choose"}
      BY <2>1 DEF SeqLock, SeqRead, SeqWrite, SeqUnlock, CreateInv, TypeOK
    <3> QED  BY <1>2, <3>1 DEF CreateInv, MainInv, NodeInv
  <2>2. CASE ChooseNode(t)
    <3>1. CompactNode(seq[t]) \in Nodes
      BY CompactNodeIsNode DEF CreateInv, TypeOK
    <3>2. /\ home' = home /\ \A u \in Threads \ {t} : pc'[u] = pc[u] /\ node'[u] = node[u]
          /\ pc[t] = "choose" /\ pc'[t] = "wrap" /\ node'[t] \in Nodes
      BY <2>2, <3>1 DEF ChooseNode, CreateInv, TypeOK
    <3> QED  BY <1>2, <3>2 DEF CreateInv, MainInv, NodeInv
  <2>3. CASE MakeWrapper(t)
    <3>1. CASE CreateReturn(t, "wrap", child[t], "failed") /\ UNCHANGED home
      BY <1>5, <3>1
    <3>2. CASE Goto(t, "wrap", "create") /\ UNCHANGED <<node, home>>
      <4>1. /\ \A u \in Threads \ {t} : pc'[u] = pc[u]
            /\ pc[t] = "wrap" /\ pc'[t] = "create"
        BY <3>2 DEF CreateInv, TypeOK
      <4> QED  BY <1>2, <3>2, <4>1 DEF CreateInv, MainInv, NodeInv
    <3> QED  BY <2>3, <3>1, <3>2 DEF MakeWrapper
  <2>4. CASE LibcCreate(t)
    BY <1>5, <2>4 DEF LibcCreate
  <2> QED  BY <1>6, <2>1, <2>2, <2>3, <2>4 DEF Create
<1>7. ASSUME NEW t \in Threads, Start(t) \/ Exit(t)
      PROVE  MainInv' /\ NodeInv'
  <2>1. CASE Entry(t)
    <3>1. wrapper[t] \in Nodes
      BY <2>1 DEF Entry, CreateInv, WrapperInFlight, TypeOK
    <3>2. /\ home' = home /\ \A u \in Threads \ {t} : pc'[u] = pc[u] /\ node'[u] = node[u]
          /\ pc[t] = "entry" /\ pc'[t] = "set_home" /\ node'[t] \in Nodes
      BY <2>1, <3>1 DEF Entry, CreateInv, TypeOK
    <3> QED  BY <1>2, <3>2 DEF CreateInv, MainInv, NodeInv
  <2>2. CASE SetHome(t) \/ Bind(t, "bind") \/ Exit(t)
    <3>1. /\ \A u \in Threads \ {t} : pc'[u] = pc[u] /\ node'[u] = node[u] /\ home'[u] = home[u]
          /\ pc[t] \in {"set_home", "bind", "run"} /\ pc'[t] \in {"bind", "run", "gone"}
          /\ pc'[t] = "gone" => t # Main
          /\ pc'[t] = "bind" => pc[t] = "set_home"
      BY <2>2 DEF SetHome, Bind, Exit, CreateInv, TypeOK
    <3> QED  BY <1>2, <3>1 DEF CreateInv, MainInv, NodeInv
  <2> QED  BY <1>7, <2>1, <2>2 DEF Start
<1> QED  BY <1>1, <1>3, <1>4, <1>6, <1>7 DEF Next

-----------------------------------------------------------------------------
(* The cache and the counter *)

LEMMA NextCacheInv ==
  ASSUME CreateInv, CacheInv, [Next]_vars
  PROVE  CacheInv'
<1>0. /\ Main \in Threads /\ L \in Nat /\ filled \in 0..L
      /\ \A n \in Nodes : \E i \in 1..L : affinity_nodes[i] = n
      /\ \A i \in 1..L : affinity_nodes[i] \in Nodes
      /\ pc \in [Threads -> Locations] /\ node_cpu_counts \in [Nodes -> Nat]
  BY ThreadsAssumption, ListType DEF CreateInv, TypeOK, L
<1>1. CASE UNCHANGED vars
  BY <1>1 DEF vars, cache, CacheInv
<1>2. ASSUME KumfInit  PROVE CacheInv'
  <2> USE DEF Goto
  <2>1. CASE SetMode
    BY <1>0, <2>1 DEF SetMode, cache, CacheInv
  <2>2. CASE CacheClear
    BY <1>0, <2>2 DEF CacheClear, CacheInv
  <2>3. CASE CacheFill
    <3> DEFINE n == affinity_nodes[filled + 1]
    <3>1. /\ pc[Main] = "fill" /\ pc' = [pc EXCEPT ![Main] = "fill"] /\ filled' = filled + 1
          /\ node_cpu_counts' = [node_cpu_counts EXCEPT ![n] = Cpus[n]]
          /\ node_cpu_counts_loaded' = node_cpu_counts_loaded /\ filled < L
      BY <2>3 DEF CacheFill, L
    <3>2. pc'[Main] = "fill" /\ ~node_cpu_counts_loaded' /\ filled + 1 \in 1..L
      BY <1>0, <3>1 DEF CacheInv
    <3>3. ASSUME NEW i \in 1..filled'
          PROVE  node_cpu_counts'[affinity_nodes[i]] = Cpus[affinity_nodes[i]]
      <4>1. i \in 1..L
        BY <1>0, <3>1, <3>2
      <4>2. i # filled + 1 => node_cpu_counts[affinity_nodes[i]] = Cpus[affinity_nodes[i]]
        BY <1>0, <3>1 DEF CacheInv
      <4> QED  BY <1>0, <3>1, <4>1, <4>2
    <3> QED  BY <3>2, <3>3 DEF CacheInv
  <2>4. CASE CacheLoaded
    <3>1. /\ pc[Main] = "fill" /\ pc'[Main] = "home" /\ filled = L /\ node_cpu_counts' = node_cpu_counts
      BY <1>0, <2>4 DEF CacheLoaded, L
    <3>2. \A n \in Nodes : node_cpu_counts[n] = CpuCounts[n]
      BY <1>0, <3>1 DEF CacheInv, CpuCounts
    <3>3. node_cpu_counts = CpuCounts
      BY <1>0, <3>2 DEF CpuCounts
    <3> QED  BY <3>1, <3>3 DEF CacheInv
  <2>5. CASE HomeMain \/ Bind(Main, "bind_main")
    BY <1>0, <2>5 DEF HomeMain, Bind, cache, CacheInv
  <2> QED  BY <1>2, <2>1, <2>2, <2>3, <2>4, <2>5 DEF KumfInit
<1>3. ASSUME NEW t \in Threads,
             (\E c \in Threads : CallCreate(t, c)) \/ Create(t) \/ Start(t) \/ Exit(t)
      PROVE  CacheInv'
  <2>1. UNCHANGED cache
    BY <1>3 DEF CallCreate, Create, SeqLock, SeqRead, SeqWrite, SeqUnlock, ChooseNode, MakeWrapper,
                LibcCreate, Start, Entry, SetHome, Bind, Exit
  <2>2. pc'[Main] \in {"init", "clear", "fill"} => pc'[Main] = pc[Main]
    <3> USE <1>0 DEF Goto
    <3>1. CASE \E c \in Threads : CallCreate(t, c)
      BY <3>1 DEF CallCreate
    <3>2. CASE SeqLock(t) \/ SeqRead(t) \/ SeqWrite(t) \/ SeqUnlock(t) \/ ChooseNode(t)
      BY <3>2 DEF SeqLock, SeqRead, SeqWrite, SeqUnlock, ChooseNode
    <3>3. CASE MakeWrapper(t) \/ LibcCreate(t)
      BY <3>3 DEF MakeWrapper, LibcCreate, CreateReturn
    <3>4. CASE Start(t) \/ Exit(t)
      BY <3>4 DEF Start, Entry, SetHome, Bind, Exit
    <3> QED  BY <1>3, <3>1, <3>2, <3>3, <3>4 DEF Create
  <2> QED  BY <2>1, <2>2 DEF CacheInv, cache
<1> QED  BY <1>1, <1>2, <1>3 DEF Next

LEMMA NextLockInv ==
  ASSUME CreateInv, LockInv, [Next]_vars
  PROVE  LockInv'
<1>0. Main \in Threads /\ NoThread \notin Threads /\ pc \in [Threads -> Locations]
      /\ seq \in [Threads -> (-MaxInt - 1)..MaxInt]
  BY ThreadsAssumption DEF CreateInv, TypeOK
<1>1. ASSUME UNCHANGED <<counter, seq>>,
             \A u \in Threads : \/ pc'[u] = pc[u]
                                \/ pc[u] \notin {"read", "write", "unlock"}
                                   /\ pc'[u] \notin {"read", "write", "unlock"}
      PROVE  LockInv'
  BY <1>1 DEF LockInv, counter
<1> USE DEF Goto
<1>2. CASE UNCHANGED vars
  BY <1>1, <1>2 DEF vars
<1>3. CASE KumfInit
  BY <1>0, <1>1, <1>3 DEF KumfInit, SetMode, CacheClear, CacheFill, CacheLoaded, HomeMain, Bind
<1>4. ASSUME NEW t \in Threads, NEW c \in Threads, CallCreate(t, c)  PROVE LockInv'
  BY <1>0, <1>1, <1>4 DEF CallCreate
<1>5. ASSUME NEW t \in Threads, NEW from \in {"wrap", "create"}, NEW state \in {"entry", "failed"},
             CreateReturn(t, from, child[t], state), UNCHANGED <<counter, seq>>
      PROVE  LockInv'
  <2>1. pc[t] = from /\ child[t] \in Threads /\ pc[child[t]] = "unborn" /\ child[t] # t
    BY <1>5, CreatorHas DEF CreateReturn, CreateInv, Creating
  <2>2. \A u \in Threads \ {t, child[t]} : pc'[u] = pc[u]
    BY <1>5, <2>1 DEF CreateReturn, CreateInv, TypeOK
  <2>3. pc'[t] = "run" /\ pc'[child[t]] = state
    BY <1>5, <2>1 DEF CreateReturn, CreateInv, TypeOK
  <2> QED  BY <1>1, <1>5, <2>1, <2>2, <2>3
<1>6. ASSUME NEW t \in Threads, Create(t)  PROVE LockInv'
  <2>1. CASE SeqLock(t)
    BY <1>0, <2>1 DEF SeqLock, LockInv
  <2>2. CASE SeqRead(t)
    BY <1>0, <2>2 DEF SeqRead, counter, LockInv
  <2>3. CASE SeqWrite(t)
    <3>1. /\ pc[t] = "write" /\ pc'[t] = "unlock" /\ \A u \in Threads \ {t} : pc'[u] = pc[u]
          /\ thread_seq_lock' = thread_seq_lock
      BY <1>0, <2>3 DEF SeqWrite
    <3> QED  BY <3>1 DEF LockInv
  <2>4. CASE SeqUnlock(t)
    BY <1>0, <2>4 DEF SeqUnlock, LockInv
  <2>5. CASE ChooseNode(t)
    <3>1. /\ pc[t] = "choose" /\ pc'[t] = "wrap" /\ UNCHANGED counter
          /\ \A u \in Threads \ {t} : pc'[u] = pc[u] /\ seq'[u] = seq[u]
      BY <1>0, <2>5 DEF ChooseNode
    <3> QED  BY <3>1 DEF LockInv, counter
  <2>6. CASE LibcCreate(t)
    BY <1>5, <2>6 DEF LibcCreate
  <2>7. CASE MakeWrapper(t)
    <3>1. CASE CreateReturn(t, "wrap", child[t], "failed") /\ UNCHANGED <<counter, seq>>
      BY <1>5, <3>1
    <3>2. CASE Goto(t, "wrap", "create") /\ UNCHANGED <<counter, seq>>
      BY <1>0, <1>1, <3>2
    <3> QED  BY <2>7, <3>1, <3>2 DEF MakeWrapper
  <2> QED  BY <1>6, <2>1, <2>2, <2>3, <2>4, <2>5, <2>6, <2>7 DEF Create
<1>7. ASSUME NEW t \in Threads, Start(t) \/ Exit(t)  PROVE LockInv'
  BY <1>0, <1>1, <1>7 DEF Start, Entry, SetHome, Bind, Exit
<1> QED  BY <1>2, <1>3, <1>4, <1>6, <1>7 DEF Next

-----------------------------------------------------------------------------
(* Numbers *)

(* A step that gives no number away and turns none into a node.            *)
Counting == {"lock", "read", "write"}
Quiet ==
  /\ global_thread_seq' = global_thread_seq
  /\ \A c \in Attempts : c \in Attempts'
  /\ \A t \in Threads :
       /\ pc'[t] \in Counting =>
            (pc[t] \in Counting /\ child'[t] = child[t]) \/ child'[t] \notin Attempts
       /\ pc'[t] \in {"unlock", "choose"} =>
            pc[t] \in {"unlock", "choose"} /\ seq'[t] = seq[t] /\ child'[t] = child[t]
       /\ pc'[t] \in {"wrap", "create"} =>
            pc[t] \in {"wrap", "create"} /\ node'[t] = node[t] /\ child'[t] = child[t]
  /\ \A c \in Threads \ {Main}, n \in Nodes : Placed(c, n)' =>
       Placed(c, n) \/ \E t \in Threads : child[t] = c /\ pc[t] = "wrap" /\ node[t] = n

LEMMA SetsAreFinite ==
  /\ IsFiniteSet(Threads) /\ Attempts \subseteq Threads /\ Passed \subseteq Attempts
  /\ IsFiniteSet(Attempts) /\ IsFiniteSet(Passed)
  /\ Cardinality(Passed) \in Nat /\ Cardinality(Attempts) \in Nat
  /\ Cardinality(Passed) <= Cardinality(Attempts)
<1>1. Attempts \subseteq Threads /\ Passed \subseteq Attempts
  BY DEF Attempts, Passed
<1>2. IsFiniteSet(Threads)
  BY ThreadsAssumption
<1>3. IsFiniteSet(Attempts)
  BY <1>1, <1>2, FS_Subset
<1> QED  BY <1>1, <1>2, <1>3, FS_Subset, FS_CardinalityType

LEMMA SetsAreFiniteNext ==
  /\ Attempts' \subseteq Threads /\ Passed' \subseteq Attempts'
  /\ IsFiniteSet(Attempts') /\ IsFiniteSet(Passed')
  /\ Cardinality(Passed') \in Nat /\ Cardinality(Attempts') \in Nat
  /\ Cardinality(Passed') <= Cardinality(Attempts')
<1>1. Attempts' \subseteq Threads /\ Passed' \subseteq Attempts'
  BY DEF Attempts, Passed
<1>2. IsFiniteSet(Threads)
  BY ThreadsAssumption
<1>3. IsFiniteSet(Attempts')
  BY <1>1, <1>2, FS_Subset
<1> QED  BY <1>1, <1>3, FS_Subset, FS_CardinalityType

(* Who has been counted remains so, and so does what was attempted.        *)
LEMMA CountsGrow ==
  ASSUME \A c \in Attempts : c \in Attempts',
         \A t \in Threads : pc'[t] \in Counting =>
           (pc[t] \in Counting /\ child'[t] = child[t]) \/ child'[t] \notin Attempts
  PROVE  /\ Passed \subseteq Passed'
         /\ Cardinality(Passed) <= Cardinality(Passed')
         /\ Cardinality(Attempts) <= Cardinality(Attempts')
<1>1. Passed \subseteq Passed'
  BY DEF Passed, Counting
<1> QED  BY <1>1, SetsAreFiniteNext, FS_Subset

LEMMA QuietSpread ==
  ASSUME SpreadInv, Quiet
  PROVE  SpreadInv'
<1> SUFFICES ASSUME Cardinality(Attempts') <= Capacity
             PROVE  /\ global_thread_seq' \in 0..Cardinality(Passed')
                    /\ \E num \in [Threads -> Nat] : Numbering(num)'
  BY DEF SpreadInv
<1>1. /\ Cardinality(Passed) <= Cardinality(Passed')
      /\ Cardinality(Attempts) <= Cardinality(Attempts')
  BY CountsGrow DEF Quiet
<1>2. Cardinality(Attempts) <= Capacity
  BY <1>1, SetsAreFinite, SetsAreFiniteNext, BeforeProperties
<1>3. global_thread_seq \in 0..Cardinality(Passed)
  BY <1>2 DEF SpreadInv
<1>4. global_thread_seq' \in 0..Cardinality(Passed')
  BY <1>1, <1>3, SetsAreFinite, SetsAreFiniteNext DEF Quiet
<1>5. PICK num \in [Threads -> Nat] : Numbering(num)
  BY <1>2 DEF SpreadInv
<1>6. Numbered' \subseteq Numbered
  <2> SUFFICES ASSUME NEW c \in Numbered'  PROVE c \in Numbered
    OBVIOUS
  <2>1. c \in Threads \ {Main}
    BY DEF Numbered
  <2>2. CASE \E t \in Threads : child'[t] = c /\ pc'[t] \in HasNumber
    BY <2>1, <2>2 DEF Numbered, Quiet, HasNumber
  <2>3. CASE \E n \in Nodes : Placed(c, n)'
    BY <2>1, <2>3 DEF Numbered, Quiet, HasNumber
  <2> QED  BY <2>2, <2>3 DEF Numbered
<1>7. \A c \in Numbered' : num[c] < global_thread_seq'
  BY <1>5, <1>6 DEF Numbering, Quiet
<1>8. \A c, d \in Numbered' : num[c] = num[d] => c = d
  BY <1>5, <1>6 DEF Numbering
<1>9. \A t \in Threads : /\ pc'[t] \in {"unlock", "choose"} => seq'[t] = num[child'[t]]
                         /\ pc'[t] \in {"wrap", "create"} => Takes(num[child'[t]], node'[t])
  BY <1>5 DEF Numbering, Quiet
<1>10. \A c \in Threads \ {Main}, n \in Nodes : Placed(c, n)' => Takes(num[c], n)
  BY <1>5 DEF Numbering, Quiet
<1>11. Numbering(num)'
  BY <1>7, <1>8, <1>9, <1>10 DEF Numbering
<1> QED  BY <1>4, <1>11

(* Every step is quiet but the increment and the choice of the node.       *)
LEMMA QuietMove ==
  ASSUME CreateInv, NEW t \in Threads, NEW from, NEW to, Goto(t, from, to),
         UNCHANGED <<global_thread_seq, child>>, from # "unborn", to # "unborn",
         to \in Counting => from \in Counting,
         to \in {"unlock", "choose"} => from \in {"unlock", "choose"} /\ seq'[t] = seq[t],
         to \in {"wrap", "create"} => from \in {"wrap", "create"} /\ node'[t] = node[t],
         \A u \in Threads \ {t} : seq'[u] = seq[u] /\ node'[u] = node[u],
         \A c \in Threads \ {Main}, n \in Nodes : Placed(c, n)' =>
           Placed(c, n) \/ \E u \in Threads : child[u] = c /\ pc[u] = "wrap" /\ node[u] = n
  PROVE  Quiet
<1>1. pc[t] = from /\ pc'[t] = to /\ \A u \in Threads \ {t} : pc'[u] = pc[u]
  BY DEF CreateInv, TypeOK, Goto
<1>2. \A c \in Attempts : c \in Attempts'
  BY <1>1 DEF Attempts
<1> QED  BY <1>1, <1>2 DEF Quiet

LEMMA QuietSteps ==
  ASSUME CreateInv, [Next]_vars,
         \A t \in Threads : ~SeqWrite(t) /\ ~ChooseNode(t)
  PROVE  Quiet
<1>0. Main \in Threads /\ NoNode \notin Nodes /\ NoThread \notin Threads
  BY ThreadsAssumption
<1> USE DEF Counting
<1>1. CASE UNCHANGED vars
  <2>1. UNCHANGED <<global_thread_seq, pc, child, seq, node, wrapper, home>>
    BY <1>1 DEF vars, counter
  <2> QED  BY <2>1 DEF Quiet, Placed, Attempts
<1>2. CASE KumfInit
  <2>1. /\ UNCHANGED <<global_thread_seq, child, seq, node, wrapper>>
        /\ \A u \in Threads \ {Main} : home'[u] = home[u]
        /\ \E from \in Constructor, to \in {"clear", "fill", "home", "bind_main", "run"} :
             Goto(Main, from, to)
    BY <1>0, <1>2 DEF KumfInit, SetMode, CacheClear, CacheFill, CacheLoaded, HomeMain, Bind, counter,
                      CreateInv, TypeOK, Constructor
  <2>2. PICK from \in Constructor, to \in {"clear", "fill", "home", "bind_main", "run"} :
          Goto(Main, from, to)
    BY <2>1
  <2>3. \A c \in Threads \ {Main}, n \in Nodes : Placed(c, n)' => Placed(c, n)
    BY <2>1, <2>2 DEF Placed, Goto
  <2> QED  BY <1>0, <2>1, <2>2, <2>3, QuietMove DEF Constructor
<1>3. ASSUME NEW t \in Threads, NEW c \in Threads, CallCreate(t, c)
      PROVE  Quiet
  <2>1. /\ pc[t] = "run" /\ pc[c] = "unborn" /\ c # t /\ c \notin Attempts
        /\ UNCHANGED <<global_thread_seq, seq, node, wrapper, home>>
        /\ \A u \in Threads : child[u] # c
    BY <1>3 DEF CallCreate, Goto, counter, Attempts
  <2>2. \A d \in Threads, n \in Nodes : Placed(d, n)' => Placed(d, n)
    <3>1. \A d \in Threads : pc'[d] = "set_home" => pc[d] = "set_home"
      BY <1>3, <2>1 DEF CallCreate, Goto, CreateInv, TypeOK
    <3> QED  BY <2>1, <3>1 DEF Placed
  <2>3. CASE Goto(t, "run", "lock") /\ child' = [child EXCEPT ![t] = c]
    <3>1. /\ pc'[t] = "lock" /\ \A u \in Threads \ {t} : pc'[u] = pc[u] /\ child'[u] = child[u]
          /\ child'[t] = c
      BY <2>3 DEF CreateInv, TypeOK, Goto
    <3>2. child[t] = NoThread
      BY <2>1 DEF CreateInv, ChildInv, Creating
    <3>3. \A d \in Attempts : d \in Attempts'
      BY <1>0, <2>1, <3>1, <3>2 DEF Attempts
    <3> QED  BY <2>1, <2>2, <3>1, <3>3 DEF Quiet
  <2>4. CASE pc' = [pc EXCEPT ![c] = "run"] /\ UNCHANGED child
    <3>1. pc'[c] = "run" /\ \A u \in Threads \ {c} : pc'[u] = pc[u]
      BY <2>4 DEF CreateInv, TypeOK
    <3>2. \A d \in Attempts : d \in Attempts'
      BY <2>4, <3>1 DEF Attempts
    <3> QED  BY <2>1, <2>2, <2>4, <3>1, <3>2 DEF Quiet
  <2> QED  BY <1>3, <2>3, <2>4 DEF CallCreate
<1>4. ASSUME NEW t \in Threads, NEW from \in {"wrap", "create"}, NEW state \in {"entry", "failed"},
             CreateReturn(t, from, child[t], state),
             UNCHANGED <<global_thread_seq, seq, wrapper, home>>
      PROVE  Quiet
  <2> DEFINE c == child[t]
  <2>1. /\ pc[t] = from /\ c \in Threads /\ c # t /\ pc[c] = "unborn" /\ c # NoThread
    BY <1>0, <1>4, CreatorHas DEF CreateReturn, CreateInv, Creating
  <2>2. /\ pc' = [pc EXCEPT ![t] = "run", ![c] = state]
        /\ child' = [child EXCEPT ![t] = NoThread] /\ node' = [node EXCEPT ![t] = NoNode]
    BY <1>4 DEF CreateReturn
  <2> HIDE DEF c
  <2>3. /\ pc'[t] = "run" /\ pc'[c] = state
        /\ \A u \in Threads \ {t, c} : pc'[u] = pc[u]
        /\ \A u \in Threads \ {t} : child'[u] = child[u] /\ node'[u] = node[u]
    BY <2>1, <2>2 DEF CreateInv, TypeOK
  <2>4. \A d \in Attempts : d \in Attempts'
    BY <2>1, <2>3 DEF Attempts, c
  <2>5. \A d \in Threads, n \in Nodes : Placed(d, n)' => Placed(d, n)
    BY <1>4, <2>1, <2>3 DEF Placed
  <2> QED  BY <1>4, <2>1, <2>3, <2>4, <2>5 DEF Quiet
<1>5. ASSUME NEW t \in Threads, Create(t)  PROVE Quiet
  <2>1. CASE SeqLock(t) \/ SeqRead(t) \/ SeqUnlock(t)
    <3>1. \A d \in Threads, n \in Nodes : Placed(d, n)' => Placed(d, n)
      BY <2>1 DEF SeqLock, SeqRead, SeqUnlock, Placed, Goto, CreateInv, TypeOK
    <3>2. CASE SeqLock(t)
      BY <3>1, <3>2, QuietMove DEF SeqLock
    <3>3. CASE SeqRead(t)
      <4>1. \A u \in Threads \ {t} : seq'[u] = seq[u]
        BY <3>3 DEF SeqRead, CreateInv, TypeOK
      <4> QED  BY <3>1, <3>3, <4>1, QuietMove DEF SeqRead, counter
    <3>4. CASE SeqUnlock(t)
      BY <3>1, <3>4, QuietMove DEF SeqUnlock
    <3> QED  BY <2>1, <3>2, <3>3, <3>4
  <2>2. CASE LibcCreate(t)
    BY <1>4, <2>2 DEF LibcCreate, counter
  <2>3. CASE MakeWrapper(t)
    <3>1. CASE /\ CreateReturn(t, "wrap", child[t], "failed")
               /\ UNCHANGED <<intercepting, cache, counter, seq, wrapper, home, bound>>
      BY <1>4, <3>1 DEF counter
    <3>2. CASE /\ Goto(t, "wrap", "create") /\ wrapper' = [wrapper EXCEPT ![child[t]] = node[t]]
               /\ UNCHANGED <<intercepting, cache, counter, seq, node, child, home, bound>>
      <4>1. pc[t] = "wrap" /\ \A d \in Threads : wrapper'[d] = wrapper[d] \/
              (d = child[t] /\ wrapper'[d] = node[t])
        BY <3>2 DEF Goto, CreateInv, TypeOK
      <4>2. \A d \in Threads : pc'[d] = "set_home" => pc[d] = "set_home"
        BY <3>2 DEF Goto, CreateInv, TypeOK
      <4>3. \A d \in Threads, n \in Nodes : Placed(d, n)' =>
              Placed(d, n) \/ \E u \in Threads : child[u] = d /\ pc[u] = "wrap" /\ node[u] = n
        BY <3>2, <4>1, <4>2 DEF Placed
      <4> QED  BY <3>2, <4>3, QuietMove DEF counter
    <3> QED  BY <2>3, <3>1, <3>2 DEF MakeWrapper
  <2> QED  BY <1>5, <2>1, <2>2, <2>3 DEF Create
<1>6. ASSUME NEW t \in Threads, Start(t) \/ Exit(t)  PROVE Quiet
  <2>1. /\ \E from \in {"entry", "set_home", "bind", "run"}, to \in {"set_home", "bind", "run", "gone"} :
             Goto(t, from, to)
        /\ UNCHANGED <<global_thread_seq, child, seq>>
        /\ \A u \in Threads \ {t} : node'[u] = node[u]
    BY <1>6 DEF Start, Entry, SetHome, Bind, Exit, counter, CreateInv, TypeOK
  <2>2. \A d \in Threads, n \in Nodes : Placed(d, n)' => Placed(d, n)
    <3> SUFFICES ASSUME NEW d \in Threads, NEW n \in Nodes, Placed(d, n)'  PROVE Placed(d, n)
      OBVIOUS
    <3>1. d # t => pc'[d] = pc[d]
      BY <2>1 DEF Goto
    <3>2. CASE Entry(t)
      BY <1>0, <3>1, <3>2 DEF Entry, Placed, Goto, CreateInv, TypeOK
    <3>3. CASE SetHome(t)
      BY <1>0, <3>1, <3>3 DEF SetHome, Placed, Goto, CreateInv, TypeOK
    <3>4. CASE Bind(t, "bind") \/ Exit(t)
      BY <1>0, <3>1, <3>4 DEF Bind, Exit, Placed, Goto, CreateInv, TypeOK
    <3> QED  BY <1>6, <3>2, <3>3, <3>4 DEF Start
  <2> QED  BY <2>1, <2>2, QuietMove
<1> QED  BY <1>1, <1>2, <1>3, <1>5, <1>6 DEF Next

(* The increment: the number of the creator is its new thread's, and no    *)
(* earlier one's.                                                          *)
LEMMA SeqWriteSpread ==
  ASSUME CreateInv, LockInv, SpreadInv, NEW t \in Threads, SeqWrite(t)
  PROVE  SpreadInv'
<1> DEFINE g == global_thread_seq
<1> SUFFICES ASSUME Cardinality(Attempts') <= Capacity
             PROVE  /\ global_thread_seq' \in 0..Cardinality(Passed')
                    /\ \E num \in [Threads -> Nat] : Numbering(num)'
  BY DEF SpreadInv
<1>0. Main \in Threads /\ NoThread \notin Threads /\ NoNode \notin Nodes
  BY ThreadsAssumption
<1>1. /\ pc[t] = "write" /\ pc'[t] = "unlock" /\ \A u \in Threads \ {t} : pc'[u] = pc[u]
      /\ UNCHANGED <<seq, node, child, wrapper, home>>
      /\ seq[t] = g /\ g' = IF g = MaxInt THEN -MaxInt - 1 ELSE g + 1
  BY DEF SeqWrite, Goto, CreateInv, TypeOK, LockInv
<1>2. PICK c \in Threads \ (Early \cup {Main}) :
        /\ c = child[t] /\ c # t /\ pc[c] = "unborn" /\ pc'[c] = "unborn"
        /\ \A u \in Threads : child[u] = c => u = t
  BY <1>1, CreatorHas DEF CreateInv, MainInv, Creating
<1>3. /\ \A d \in Attempts : d \in Attempts'
      /\ \A d \in Attempts' : d \in Attempts
      /\ c \in Attempts
  BY <1>1, <1>2 DEF Attempts
<1>4. Attempts' = Attempts
  BY <1>3
<1>5. Cardinality(Attempts) <= Capacity
  BY <1>4
<1>6. g \in Nat /\ g <= Cardinality(Passed)
  BY <1>5, SetsAreFinite DEF SpreadInv
<1>7. c \notin Passed
  BY <1>1, <1>2 DEF Passed
<1>8. Passed \cup {c} \subseteq Passed'
  BY <1>1, <1>2, <1>3 DEF Passed
<1>9. Cardinality(Passed \cup {c}) = Cardinality(Passed) + 1
  BY <1>7, SetsAreFinite, FS_AddElement
<1>10. Cardinality(Passed) + 1 <= Cardinality(Passed')
  BY <1>8, <1>9, SetsAreFiniteNext, FS_Subset
<1>11. g' = g + 1 /\ g' \in 0..Cardinality(Passed')
  <2>1. Cardinality(Passed) + 1 <= Capacity
    BY <1>10, SetsAreFinite, SetsAreFiniteNext, BeforeProperties
  <2>2. g + 1 <= MaxInt /\ MaxInt \in Nat
    BY <1>6, <2>1, SetsAreFinite, BeforeProperties, IntAssumption
  <2>3. g # MaxInt
    BY <1>6, <2>2
  <2> QED  BY <1>1, <1>6, <1>10, <2>3, SetsAreFinite, SetsAreFiniteNext
<1>12. PICK num \in [Threads -> Nat] : Numbering(num)
  BY <1>5 DEF SpreadInv
<1>13. PICK new \in [Threads -> Nat] : new[c] = g /\ \A d \in Threads \ {c} : new[d] = num[d]
  <2> DEFINE f == [num EXCEPT ![c] = g]
  <2>1. f \in [Threads -> Nat] /\ f[c] = g /\ \A d \in Threads \ {c} : f[d] = num[d]
    BY <1>2, <1>6, <1>12
  <2> HIDE DEF f
  <2> QED  BY <2>1
<1>14. \A n \in Nodes : ~Placed(c, n) /\ ~Placed(c, n)'
  <2>1. home[c] = NoNode /\ wrapper[c] = NoNode
    BY <1>1, <1>2 DEF CreateInv, NodeInv, WrapperInFlight
  <2> QED  BY <1>0, <1>1, <1>2, <2>1 DEF Placed
<1>15. \A d \in Threads, n \in Nodes : Placed(d, n)' => Placed(d, n)
  BY <1>1 DEF Placed
<1>16. \A d \in Numbered' : d = c \/ d \in Numbered
  BY <1>1, <1>2, <1>15 DEF Numbered, HasNumber
<1>17. c \notin Numbered
  BY <1>1, <1>2, <1>14 DEF Numbered, HasNumber
<1>18. Numbered' \subseteq Threads /\ Numbered \subseteq Threads
  BY DEF Numbered
<1>19. \A d \in Numbered : num[d] < g /\ new[d] = num[d] /\ num[d] \in Nat
  BY <1>12, <1>13, <1>17, <1>18 DEF Numbering
<1>20. \A d \in Numbered' : new[d] < g'
  BY <1>6, <1>11, <1>13, <1>16, <1>19
<1>21. \A d, e \in Numbered' : new[d] = new[e] => d = e
  BY <1>6, <1>12, <1>13, <1>16, <1>19 DEF Numbering
<1>22. \A u \in Threads : /\ pc'[u] \in {"unlock", "choose"} => seq'[u] = new[child'[u]]
                          /\ pc'[u] \in {"wrap", "create"} => Takes(new[child'[u]], node'[u])
  <2> SUFFICES ASSUME NEW u \in Threads
               PROVE  /\ pc'[u] \in {"unlock", "choose"} => seq'[u] = new[child'[u]]
                      /\ pc'[u] \in {"wrap", "create"} => Takes(new[child'[u]], node'[u])
    OBVIOUS
  <2>1. CASE u = t
    BY <1>1, <1>2, <1>13, <2>1
  <2>2. CASE u # t
    <3>1. pc'[u] \in Creating => child[u] \in Threads \ {c}
      BY <1>1, <1>2, <2>2, CreatorHas DEF CreateInv
    <3> QED  BY <1>1, <1>12, <1>13, <2>2, <3>1 DEF Numbering, Creating
  <2> QED  BY <2>1, <2>2
<1>23. \A d \in Threads \ {Main}, n \in Nodes : Placed(d, n)' => Takes(new[d], n)
  BY <1>12, <1>13, <1>14, <1>15 DEF Numbering
<1>24. Numbering(new)'
  BY <1>20, <1>21, <1>22, <1>23 DEF Numbering
<1> QED  BY <1>11, <1>13, <1>24

(* The number becomes the node that it is worth.                           *)
LEMMA ChooseNodeSpread ==
  ASSUME CreateInv, CacheInv, SpreadInv, NEW t \in Threads, ChooseNode(t)
  PROVE  SpreadInv'
<1> SUFFICES ASSUME Cardinality(Attempts') <= Capacity
             PROVE  /\ global_thread_seq' \in 0..Cardinality(Passed')
                    /\ \E num \in [Threads -> Nat] : Numbering(num)'
  BY DEF SpreadInv
<1>1. /\ pc[t] = "choose" /\ pc'[t] = "wrap" /\ \A u \in Threads \ {t} : pc'[u] = pc[u]
      /\ UNCHANGED <<global_thread_seq, child, wrapper, home>>
      /\ node'[t] = CompactNode(seq[t])
      /\ \A u \in Threads \ {t} : seq'[u] = seq[u] /\ node'[u] = node[u]
  BY DEF ChooseNode, Goto, CreateInv, TypeOK, counter
<1>2. /\ child[t] \in Threads /\ pc[child[t]] = "unborn"
      /\ \A u \in Threads : child[u] = child[t] => u = t
  BY <1>1, CreatorHas DEF CreateInv, Creating
<1>3. \A c \in Attempts : c \in Attempts'
  BY <1>1 DEF Attempts
<1>4. /\ Cardinality(Passed) <= Cardinality(Passed')
      /\ Cardinality(Attempts) <= Cardinality(Attempts')
  BY <1>1, <1>3, CountsGrow DEF Counting
<1>5. Cardinality(Attempts) <= Capacity
  BY <1>4, SetsAreFinite, SetsAreFiniteNext, BeforeProperties
<1>6. global_thread_seq \in 0..Cardinality(Passed)
  BY <1>5 DEF SpreadInv
<1>7. global_thread_seq' \in 0..Cardinality(Passed')
  BY <1>1, <1>4, <1>6, SetsAreFinite, SetsAreFiniteNext
<1>8. PICK num \in [Threads -> Nat] : Numbering(num)
  BY <1>5 DEF SpreadInv
<1>9. child[t] \in Numbered
  BY <1>1, <1>2 DEF Numbered, HasNumber, CreateInv, MainInv
<1>10. Takes(num[child[t]], node'[t])
  <2>1. seq[t] = num[child[t]] /\ num[child[t]] \in Nat /\ num[child[t]] < global_thread_seq
    BY <1>1, <1>2, <1>8, <1>9 DEF Numbering
  <2>2. seq[t] \in Nat /\ seq[t] < Capacity
    BY <1>5, <1>6, <2>1, SetsAreFinite, BeforeProperties
  <2> QED  BY <1>1, <2>1, <2>2, CompactNodeIsNode
<1>11. \A c \in Threads, n \in Nodes : Placed(c, n)' => Placed(c, n)
  <2>1. \A c \in Threads : pc'[c] = "set_home" => pc[c] = "set_home" /\ node'[c] = node[c]
    BY <1>1
  <2> QED  BY <1>1, <2>1 DEF Placed
<1>12. Numbered' \subseteq Numbered
  <2>1. \A u \in Threads : pc'[u] \in HasNumber => pc[u] \in HasNumber
    BY <1>1 DEF HasNumber
  <2> QED  BY <1>1, <1>11, <2>1 DEF Numbered
<1>13. \A c \in Numbered' : num[c] < global_thread_seq'
  BY <1>1, <1>8, <1>12 DEF Numbering
<1>14. \A c, d \in Numbered' : num[c] = num[d] => c = d
  BY <1>8, <1>12 DEF Numbering
<1>15. \A u \in Threads : /\ pc'[u] \in {"unlock", "choose"} => seq'[u] = num[child'[u]]
                          /\ pc'[u] \in {"wrap", "create"} => Takes(num[child'[u]], node'[u])
  <2> SUFFICES ASSUME NEW u \in Threads
               PROVE  /\ pc'[u] \in {"unlock", "choose"} => seq'[u] = num[child'[u]]
                      /\ pc'[u] \in {"wrap", "create"} => Takes(num[child'[u]], node'[u])
    OBVIOUS
  <2>1. CASE u = t
    BY <1>1, <1>10, <2>1
  <2>2. CASE u # t
    BY <1>1, <1>8, <2>2 DEF Numbering
  <2> QED  BY <2>1, <2>2
<1>16. \A c \in Threads \ {Main}, n \in Nodes : Placed(c, n)' => Takes(num[c], n)
  BY <1>8, <1>11 DEF Numbering
<1>17. Numbering(num)'
  BY <1>13, <1>14, <1>15, <1>16 DEF Numbering
<1> QED  BY <1>7, <1>17

-----------------------------------------------------------------------------
(* The invariant holds. *)

LEMMA InitInv ==
  ASSUME Init
  PROVE  Inv
<1> USE DEF Init
<1>0. /\ Main \in Threads \ Early /\ Early \subseteq Threads /\ NoThread \notin Threads
      /\ NoNode \notin Nodes /\ MaxInt \in Nat /\ L \in Nat
  BY ThreadsAssumption, IntAssumption, ListType
<1>1. /\ pc[Main] = "init" /\ \A t \in Early : pc[t] = "run"
      /\ \A t \in Threads \ (Early \cup {Main}) : pc[t] = "unborn"
  BY <1>0
<1>2. \A t \in Threads : pc[t] \in {"init", "run", "unborn"}
  BY <1>1
<1>3. TypeOK
  <2>1. pc \in [Threads -> Locations]
    BY <1>2 DEF Locations, Constructor
  <2>2. 0 \in (-MaxInt - 1)..MaxInt /\ 0 \in 0..Len(affinity_nodes)
    BY <1>0 DEF L
  <2> QED  BY <2>1, <2>2 DEF TypeOK
<1>4. ChildInv /\ MainInv /\ NodeInv /\ WrapperInFlight
  BY <1>0, <1>1, <1>2 DEF ChildInv, MainInv, NodeInv, WrapperInFlight, Creating, Starting, Constructor
<1>5. CacheInv /\ LockInv
  BY <1>0, <1>1, <1>2 DEF CacheInv, LockInv
<1>6. SpreadInv
  <2>1. global_thread_seq \in 0..Cardinality(Passed)
    BY SetsAreFinite
  <2>2. Numbered = {}
    BY <1>0, <1>2 DEF Numbered, HasNumber, Placed
  <2>3. Numbering([c \in Threads |-> 0])
    BY <1>0, <1>2, <2>2 DEF Numbering, Placed
  <2>4. \E num \in [Threads -> Nat] : Numbering(num)
    <3>1. [c \in Threads |-> 0] \in [Threads -> Nat]
      OBVIOUS
    <3> QED  BY <2>3, <3>1
  <2> QED  BY <2>1, <2>4 DEF SpreadInv
<1> QED  BY <1>3, <1>4, <1>5, <1>6 DEF Inv, CreateInv

LEMMA NextInv ==
  ASSUME Inv, [Next]_vars
  PROVE  Inv'
<1>1. CreateInv /\ CacheInv /\ LockInv /\ SpreadInv
  BY DEF Inv
<1>2. TypeOK'
  BY <1>1, NextTypeOK DEF CreateInv
<1>3. CreateInv'
  BY <1>1, <1>2, NextChildWrapper, NextMainNode DEF CreateInv
<1>4. CacheInv' /\ LockInv'
  BY <1>1, NextCacheInv, NextLockInv
<1>5. SpreadInv'
  <2>1. ASSUME NEW t \in Threads, SeqWrite(t)  PROVE SpreadInv'
    BY <1>1, <2>1, SeqWriteSpread
  <2>2. ASSUME NEW t \in Threads, ChooseNode(t)  PROVE SpreadInv'
    BY <1>1, <2>2, ChooseNodeSpread
  <2>3. CASE \A t \in Threads : ~SeqWrite(t) /\ ~ChooseNode(t)
    BY <1>1, <2>3, QuietSteps, QuietSpread
  <2> QED  BY <2>1, <2>2, <2>3
<1> QED  BY <1>3, <1>4, <1>5 DEF Inv

LEMMA InvHolds == Spec => []Inv
BY InitInv, NextInv, PTL DEF Spec

-----------------------------------------------------------------------------
(* The theorems *)

(* Every variable has its type: get_next_node never goes beyond the list   *)
(* of nodes, not even with a number that has wrapped.                      *)
THEOREM TypeCorrect == Spec => []TypeOK
<1>1. Inv => TypeOK
  BY DEF Inv, CreateInv
<1> QED  BY <1>1, InvHolds, PTL

(* The wrapper cell of pthread_create is there until the new thread has    *)
(* copied it, and is leaked only when libc did not create the thread.      *)
THEOREM WrapperIsKept == Spec => []WrapperInFlight
<1>1. Inv => WrapperInFlight
  BY DEF Inv, CreateInv
<1> QED  BY <1>1, InvHolds, PTL

(* KUMF_NODES lists no node twice. *)
NodesDiffer ==
  \A i, j \in 1..Len(affinity_nodes) : affinity_nodes[i] = affinity_nodes[j] => i = j

(* A node's numbers are as many as its CPUs, and no two threads have one   *)
(* number.                                                                 *)
LEMMA AssignedFit ==
  ASSUME NodesDiffer, SpreadInv
  PROVE  NoNodeOversubscribed
<1> SUFFICES ASSUME Cardinality(Attempts) <= Capacity, NEW n \in Nodes
             PROVE  Cardinality(AssignedTo(n)) <= Cpus[n]
  BY DEF NoNodeOversubscribed
<1>1. PICK num \in [Threads -> Nat] : Numbering(num)
  BY DEF SpreadInv
<1>2. PICK i \in 1..L : affinity_nodes[i] = n
  BY ListType
<1>3. /\ L \in Nat /\ Before[i-1] \in Nat /\ Before[i] \in Nat /\ Cpus[n] \in Nat
      /\ Before[i] = Before[i-1] + Cpus[n]
  <2>1. L \in Nat /\ i-1 \in 0..L /\ i \in 0..L
    BY ListType
  <2> QED  BY <1>2, <2>1, BeforeProperties, ThreadsAssumption
<1> DEFINE A == AssignedTo(n)
           R == Before[i-1]..(Before[i] - 1)
           f == [c \in A |-> num[c]]
<1>4. A \subseteq Numbered /\ A \subseteq Threads \ {Main} /\ \A c \in A : Placed(c, n)
  BY DEF AssignedTo, Numbered, Placed
<1>5. \A c \in A : num[c] \in R
  <2> SUFFICES ASSUME NEW c \in A  PROVE num[c] \in R
    OBVIOUS
  <2>1. Takes(num[c], n) /\ num[c] \in Nat
    BY <1>1, <1>4 DEF Numbering
  <2>2. Before[i-1] <= num[c] /\ num[c] < Before[i]
    BY <1>2, <2>1 DEF Takes, NodesDiffer, L
  <2> QED  BY <1>3, <2>1, <2>2
<1>6. \A c, d \in A : num[c] = num[d] => c = d
  BY <1>1, <1>4 DEF Numbering
<1>7. f \in Injection(A, R)
  BY <1>5, <1>6 DEF Injection, IsInjective
<1>8. IsFiniteSet(R) /\ Cardinality(R) = Cpus[n]
  <2>1. /\ Before[i-1] \in Int /\ Before[i] - 1 \in Int
        /\ (Before[i] - 1) - Before[i-1] + 1 = Cpus[n]
        /\ Before[i-1] > Before[i] - 1 => Cpus[n] = 0
    BY <1>3
  <2>2. /\ IsFiniteSet(R)
        /\ Cardinality(R) = IF Before[i-1] > Before[i] - 1 THEN 0
                            ELSE (Before[i] - 1) - Before[i-1] + 1
    BY <2>1, FS_Interval, Zenon
  <2> HIDE DEF R
  <2> QED  BY <2>1, <2>2
<1>9. Cardinality(A) <= Cardinality(R)
  BY <1>7, <1>8, FS_Injection
<1> QED  BY <1>8, <1>9

(* Compact spread: while there are CPUs for every thread created, none of  *)
(* them shares a CPU's worth of a node with another, whatever the order in *)
(* which their creators took numbers, read them and chose.                 *)
THEOREM SpreadFitsNodes ==
  ASSUME NodesDiffer
  PROVE  Spec => []NoNodeOversubscribed
<1>1. Inv => NoNodeOversubscribed
  BY AssignedFit DEF Inv
<1> QED  BY <1>1, InvHolds, PTL

=============================================================================
