---------------------------- MODULE IntercThreads ----------------------------
(***************************************************************************)
(* The pthread_create hook of interc/ldlib.c in Mode 2 and Mode 3: each    *)
(* new thread is given a node by get_next_node (compact spread), carried   *)
(* to it in a wrapper cell, and binds itself before it runs user code.     *)
(*                                                                         *)
(* The constructor decides the mode while threads started by earlier       *)
(* constructors may already be creating others.                            *)
(***************************************************************************)
EXTENDS Integers, Sequences, FiniteSetsExt

CONSTANTS
  Threads,         \* the threads the process may ever have
  Main,            \* the thread that runs kumf_init
  Early,           \* threads that run before kumf_init
  affinity_nodes,  \* sequence of the configured nodes
  Cpus,            \* number of CPUs of each node
  MaxInt,          \* largest int; global_thread_seq wraps beyond it
  Failures,        \* what may fail: "wrap" (malloc), "create", "bind"
  NoThread, NoNode

Nodes == {affinity_nodes[i] : i \in DOMAIN affinity_nodes}

(* CPUs of the first i nodes of the list, where node n has count[n].       *)
CpusUpTo(count) ==
  LET sum[i \in 0..Len(affinity_nodes)] ==
        IF i = 0 THEN 0 ELSE sum[i-1] + count[affinity_nodes[i]]
  IN  sum

CpuCounts == [n \in Nodes |-> Cpus[n]]
Capacity == CpusUpTo(CpuCounts)[Len(affinity_nodes)]

ASSUME ThreadsAssumption ==
  /\ IsFiniteSet(Threads) /\ NoThread \notin Threads
  /\ Main \in Threads \ Early /\ Early \subseteq Threads
  /\ affinity_nodes \in Seq(Nat) /\ affinity_nodes # <<>> /\ NoNode \notin Nodes
  /\ \A n \in Nodes : Cpus[n] \in Nat

(* The CPUs of a machine can be counted in an int. *)
ASSUME IntAssumption == MaxInt \in Nat /\ Capacity <= MaxInt

VARIABLES
  intercepting,          \* kumf_mode_val is PER_THREAD or ROUTING
  node_cpu_counts, node_cpu_counts_loaded,
  filled,                \* nodes cache_node_cpu_counts has counted
  global_thread_seq,
  thread_seq_lock,       \* owner of the mutex
  pc,
  seq,                   \* local variable of get_next_node
  node,                  \* what get_next_node returned
  child,                 \* the thread a pthread_create call is to start
  wrapper,               \* assigned_node in the cell made for each thread
  home,                  \* thread_home_node
  bound                  \* node the thread is bound to

cache == <<node_cpu_counts, node_cpu_counts_loaded, filled>>
counter == <<global_thread_seq, thread_seq_lock>>
vars == <<intercepting, cache, counter, pc, seq, node, child, wrapper, home, bound>>

Constructor == {"init", "clear", "fill", "home", "bind_main"}
Creating == {"lock", "read", "write", "unlock", "choose", "wrap", "create"}
Starting == {"entry", "set_home", "bind"}
Locations == Constructor \cup Creating \cup Starting
             \cup {"unborn", "run", "gone", "failed"}

TypeOK ==
  /\ intercepting \in BOOLEAN
  /\ node_cpu_counts \in [Nodes -> Nat]
  /\ node_cpu_counts_loaded \in BOOLEAN
  /\ filled \in 0..Len(affinity_nodes)
  /\ global_thread_seq \in (-MaxInt - 1)..MaxInt
  /\ thread_seq_lock \in Threads \cup {NoThread}
  /\ pc \in [Threads -> Locations]
  /\ seq \in [Threads -> (-MaxInt - 1)..MaxInt]
  /\ node \in [Threads -> Nodes \cup {NoNode}]
  /\ child \in [Threads -> Threads \cup {NoThread}]
  /\ wrapper \in [Threads -> Nodes \cup {NoNode}]
  /\ home \in [Threads -> Nodes \cup {NoNode}]
  /\ bound \in [Threads -> Nodes \cup {NoNode}]

Init ==
  /\ intercepting = FALSE
  /\ node_cpu_counts = [n \in Nodes |-> 0]
  /\ node_cpu_counts_loaded = FALSE
  /\ filled = 0
  /\ global_thread_seq = 0
  /\ thread_seq_lock = NoThread
  /\ pc = [t \in Threads |-> CASE t = Main    -> "init"
                               [] t \in Early -> "run"
                               [] OTHER       -> "unborn"]
  /\ seq = [t \in Threads |-> 0]
  /\ node = [t \in Threads |-> NoNode]
  /\ child = [t \in Threads |-> NoThread]
  /\ wrapper = [t \in Threads |-> NoNode]
  /\ home = [t \in Threads |-> NoNode]
  /\ bound = [t \in Threads |-> NoNode]

Goto(t, from, to) ==
  /\ pc[t] = from
  /\ pc' = [pc EXCEPT ![t] = to]

-----------------------------------------------------------------------------
(* The end of init_affinity, by the main thread. *)

(* kumf_mode_val is set before the CPU counts are cached. *)
SetMode ==
  /\ Goto(Main, "init", "clear")
  /\ intercepting' = TRUE
  /\ UNCHANGED <<cache, counter, seq, node, child, wrapper, home, bound>>

(* Mutant: the cache is declared loaded before it is filled. *)
CacheClear_LoadedEarly ==
  /\ Goto(Main, "clear", "fill")
  /\ node_cpu_counts' = [n \in Nodes |-> 0]
  /\ node_cpu_counts_loaded' = TRUE
  /\ UNCHANGED <<filled, intercepting, counter, seq, node, child, wrapper, home, bound>>

(* memset of the cache. *)
CacheClear ==
  /\ Goto(Main, "clear", "fill")
  /\ node_cpu_counts' = [n \in Nodes |-> 0]
  /\ UNCHANGED <<node_cpu_counts_loaded, filled, intercepting, counter, seq,
                 node, child, wrapper, home, bound>>

CacheFill ==
  /\ filled < Len(affinity_nodes)
  /\ Goto(Main, "fill", "fill")
  /\ LET n == affinity_nodes[filled + 1]
     IN  node_cpu_counts' = [node_cpu_counts EXCEPT ![n] = Cpus[n]]
  /\ filled' = filled + 1
  /\ UNCHANGED <<node_cpu_counts_loaded, intercepting, counter, seq, node, child,
                 wrapper, home, bound>>

CacheLoaded ==
  /\ filled = Len(affinity_nodes)
  /\ Goto(Main, "fill", "home")
  /\ node_cpu_counts_loaded' = TRUE
  /\ UNCHANGED <<node_cpu_counts, filled, intercepting, counter, seq, node, child,
                 wrapper, home, bound>>

(* The main thread takes the first node without a sequence number. *)
HomeMain ==
  /\ Goto(Main, "home", "bind_main")
  /\ home' = [home EXCEPT ![Main] = affinity_nodes[1]]
  /\ UNCHANGED <<intercepting, cache, counter, seq, node, child, wrapper, bound>>

(* bind_thread_to_node(thread_home_node); its result is not looked at. *)
Bind(t, from) ==
  /\ Goto(t, from, "run")
  /\ \/ bound' = [bound EXCEPT ![t] = home[t]]
     \/ "bind" \in Failures /\ UNCHANGED bound
  /\ UNCHANGED <<intercepting, cache, counter, seq, node, child, wrapper, home>>

-----------------------------------------------------------------------------
(* pthread_create and get_next_node *)

(* Before the mode is set the hook passes through to libc. *)
CallCreate(t, c) ==
  /\ pc[c] = "unborn"
  /\ \A u \in Threads : child[u] # c
  /\ \/ /\ intercepting
        /\ Goto(t, "run", "lock")
        /\ child' = [child EXCEPT ![t] = c]
     \/ /\ ~intercepting
        /\ pc[t] = "run"
        /\ pc' = [pc EXCEPT ![c] = "run"]
        /\ UNCHANGED child
  /\ UNCHANGED <<intercepting, cache, counter, seq, node, wrapper, home, bound>>

SeqLock(t) ==
  /\ Goto(t, "lock", "read")
  /\ thread_seq_lock = NoThread
  /\ thread_seq_lock' = t
  /\ UNCHANGED <<intercepting, cache, global_thread_seq, seq, node, child, wrapper,
                 home, bound>>

SeqRead(t) ==
  /\ Goto(t, "read", "write")
  /\ seq' = [seq EXCEPT ![t] = global_thread_seq]
  /\ UNCHANGED <<intercepting, cache, counter, node, child, wrapper, home, bound>>

(* int arithmetic: the build wraps. *)
SeqWrite(t) ==
  /\ Goto(t, "write", "unlock")
  /\ global_thread_seq' = IF seq[t] = MaxInt THEN -MaxInt - 1 ELSE seq[t] + 1
  /\ UNCHANGED <<intercepting, cache, thread_seq_lock, seq, node, child, wrapper,
                 home, bound>>

(* Mutant: the early return forgets the lock. *)
SeqUnlock_Forgotten(t) ==
  /\ Goto(t, "unlock", "choose")
  /\ UNCHANGED <<intercepting, cache, counter, seq, node, child, wrapper, home, bound>>

SeqUnlock(t) ==
  /\ Goto(t, "unlock", "choose")
  /\ thread_seq_lock' = NoThread
  /\ UNCHANGED <<intercepting, cache, global_thread_seq, seq, node, child, wrapper,
                 home, bound>>

(* CPUs of the first i configured nodes: from the cache once it is loaded, *)
(* from libnuma before.                                                    *)
CpusOf(n) == IF node_cpu_counts_loaded THEN node_cpu_counts[n] ELSE Cpus[n]
Offset(i) == CpusUpTo([n \in Nodes |-> CpusOf(n)])[i]

(* Consecutive numbers fill a node before the next one is used; beyond the *)
(* last CPU they go round the nodes.  A number that has wrapped is below   *)
(* the bound of the first node: the remainder is never of a negative one.  *)
CompactNode(s) ==
  LET n == Len(affinity_nodes)
      fits == {i \in 1..n : s < Offset(i)}
  IN  affinity_nodes[IF fits # {} THEN Min(fits) ELSE (s % n) + 1]

ChooseNode(t) ==
  /\ Goto(t, "choose", "wrap")
  /\ node' = [node EXCEPT ![t] = CompactNode(seq[t])]
  /\ seq' = [seq EXCEPT ![t] = 0]
  /\ UNCHANGED <<intercepting, cache, counter, child, wrapper, home, bound>>

(* pthread_create returns to user code; c is started or never will be. *)
CreateReturn(t, from, c, state) ==
  /\ pc[t] = from
  /\ pc' = [pc EXCEPT ![t] = "run", ![c] = state]
  /\ child' = [child EXCEPT ![t] = NoThread]
  /\ node' = [node EXCEPT ![t] = NoNode]

MakeWrapper(t) ==
  \/ /\ Goto(t, "wrap", "create")
     /\ wrapper' = [wrapper EXCEPT ![child[t]] = node[t]]
     /\ UNCHANGED <<intercepting, cache, counter, seq, node, child, home, bound>>
  \/ /\ "wrap" \in Failures
     /\ CreateReturn(t, "wrap", child[t], "failed")
     /\ UNCHANGED <<intercepting, cache, counter, seq, wrapper, home, bound>>

(* The cell is not freed when libc's pthread_create fails. *)
LibcCreate(t) ==
  /\ \/ CreateReturn(t, "create", child[t], "entry")
     \/ "create" \in Failures /\ CreateReturn(t, "create", child[t], "failed")
  /\ UNCHANGED <<intercepting, cache, counter, seq, wrapper, home, bound>>

-----------------------------------------------------------------------------
(* thread_entry_wrapper *)

(* Mutant: the wrapper is not freed. *)
Entry_Leak(t) ==
  /\ Goto(t, "entry", "set_home")
  /\ node' = [node EXCEPT ![t] = wrapper[t]]
  /\ UNCHANGED <<intercepting, cache, counter, seq, child, wrapper, home, bound>>

(* The cell is copied and freed. *)
Entry(t) ==
  /\ Goto(t, "entry", "set_home")
  /\ node' = [node EXCEPT ![t] = wrapper[t]]
  /\ wrapper' = [wrapper EXCEPT ![t] = NoNode]
  /\ UNCHANGED <<intercepting, cache, counter, seq, child, home, bound>>

SetHome(t) ==
  /\ Goto(t, "set_home", "bind")
  /\ home' = [home EXCEPT ![t] = node[t]]
  /\ node' = [node EXCEPT ![t] = NoNode]
  /\ UNCHANGED <<intercepting, cache, counter, seq, child, wrapper, bound>>

(* The start routine returns. *)
Exit(t) ==
  /\ t # Main
  /\ Goto(t, "run", "gone")
  /\ UNCHANGED <<intercepting, cache, counter, seq, node, child, wrapper, home, bound>>

-----------------------------------------------------------------------------
KumfInit ==
  \/ SetMode \/ CacheClear \/ CacheFill \/ CacheLoaded \/ HomeMain
  \/ Bind(Main, "bind_main")

Create(t) ==
  \/ SeqLock(t) \/ SeqRead(t) \/ SeqWrite(t) \/ SeqUnlock(t) \/ ChooseNode(t)
  \/ MakeWrapper(t) \/ LibcCreate(t)

Start(t) == Entry(t) \/ SetHome(t) \/ Bind(t, "bind")

Next ==
  \/ KumfInit
  \/ \E t \in Threads : \/ \E c \in Threads : CallCreate(t, c)
                        \/ Create(t) \/ Start(t) \/ Exit(t)

(* The scheduler runs every thread that is not blocked. *)
Fairness ==
  /\ WF_vars(KumfInit)
  /\ \A t \in Threads : WF_vars(Create(t)) /\ WF_vars(Start(t))

Spec == Init /\ [][Next]_vars /\ Fairness

-----------------------------------------------------------------------------
(* Threads created through the hook that were given node n: it is in their *)
(* wrapper, in their entry function's local variable, or their home.       *)
AssignedTo(n) ==
  {c \in Threads \ {Main} : \/ wrapper[c] = n \/ home[c] = n
                            \/ pc[c] = "set_home" /\ node[c] = n}
Attempts == {c \in Threads \ (Early \cup {Main}) :
               pc[c] # "unborn" \/ \E t \in Threads : child[t] = c}

(* Compact spread: as long as there are CPUs for all the threads created,  *)
(* no node gets more of them than it has CPUs, in whatever order their     *)
(* creators went through get_next_node and whether or not the cache of CPU *)
(* counts was ready.  (A node that KUMF_NODES lists twice is used twice.)  *)
NoNodeOversubscribed ==
  Cardinality(Attempts) <= Capacity
    => \A n \in Nodes : Cardinality(AssignedTo(n)) <= Cpus[n]

(* The wrapper cell lives from the creator's malloc until the new thread   *)
(* has copied it: it is not freed before, and it is leaked only for a      *)
(* thread that libc failed to create.                                      *)
WrapperInFlight ==
  \A c \in Threads :
    LET needed == \/ pc[c] = "entry"
                  \/ \E t \in Threads : pc[t] = "create" /\ child[t] = c
    IN  /\ needed => wrapper[c] # NoNode
        /\ wrapper[c] # NoNode => needed \/ pc[c] = "failed"

(* Every call of pthread_create returns, and a thread that was created     *)
(* reaches its start routine.                                              *)
CreateReturns ==
  \A t \in Threads : (pc[t] \in Creating \cup Starting) ~> (pc[t] = "run")
=============================================================================
