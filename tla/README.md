# KUMF in TLA+

KUMF (Kunpeng Unified Memory Framework) places the memory and the threads of
unmodified programs on NUMA nodes. It consists of three libraries that are
preloaded into a program, a per-user daemon that tells the libraries which
programs have a profile, and offline tools that turn ARM SPE samples into
placement rules. This directory holds a formal model of it: TLA+ modules
translated from the source, TLC configurations that check them on small
instances, and proofs that TLAPS checks. Paths below are relative to the
repository's root; `interc` stands for `src/lib/interc/ldlib.c`, `mlock` for
`src/lib/mlock/ldlib.c`, `prof` for `src/lib/prof/ldlib.c`, `daemon` for
`tools/kumf_daemon`. (`PROJECT.json` writes every path with one more `src/` in
front, for the directory that holds the checkout.)

## 1. Inventory

| component | state | operations | talks to |
|---|---|---|---|
| **interc: rules** (`interc` 163-251, 658-720) | `addr_rules`, `name_rules` with their counts, `rules_loaded`, `layer2_active`, `rules_lock` | `load_rules`, `match_size`, `match_addr`, `resolve_node`, `resolve_node_relative` | read by every allocation hook, without the lock |
| **interc: allocation hooks** (106-141, 722-831) | `addr_hash` (lists of the routed blocks), `routing_ever_used` | `malloc`, `calloc`, `realloc`, `free`, `record_seg`, `check_and_remove_seg` | libc, libnuma, the rules |
| **interc: threads** (256-450, 560-613, 835-944) | `affinity_nodes`, the cache of CPU counts, `global_thread_seq`, `thread_seq_lock`, each thread's home node | `pthread_create`, `thread_entry_wrapper`, `get_next_node`, `cache_node_cpu_counts`, `init_affinity` | libc, libnuma |
| **interc: constructor** (452-562, 615-656, 835-1015) | mode, environment, the lookup socket, the connection | `kumf_init`, `query_daemon_for_config`, `connect_daemon`, `disconnect_daemon` | the daemon (datagrams), the environment of child processes |
| **mlock** | list of hot pages, `alloc_table` under `alloc_lock`, `alloc_count`, `total_locked_bytes` | the four hooks, `record_alloc`, `try_mlock`, `remove_alloc` | libc, `mlock`/`munlock` |
| **prof** | `tids` under a lock, a log array per thread, flags without one | allocation and `mmap` hooks, `get_log`, `get_trace`, `prof_cleanup`, a signal handler | log files read by `pac_to_interc.py` |
| **daemon: life cycle** (170-257, 327-344, 808-835) | PID file, socket, `running` | `start`, `autostart`, `stop`, `_run`, `_is_running`, `_cleanup` | other commands of the user, through the two files |
| **daemon: queries** (259-325) | `registered_procs`, profile links | `REG`, `DEREG`, `LOOKUP`, `WRAP`, `STATUS`, `CONFIG`, `PING` | the constructor of every preloaded program |
| **daemon: profile** (445-806) | profile files and symlinks | `profile`, `_save_profile` | `perf`, `spe_page_pac.py`, `pac_to_interc.py` |
| **SPE self profiler**, **preload shim** (`src/tools/*.c`) | the kernel's ring buffers, `profiling_active` | start, stop, `parse_spe_buffer` | `perf_event_open` |
| **spe_page_pac.py** | samples, scores per page | `parse_stream`, `parse_file_parallel` and its workers, `compute_pac_scores`, `detect_knee`, report | reads perf dumps, writes scores |
| **pac_to_interc.py** | allocations, scores | load, aggregate, cross-correlate, write rules | writes the file `load_rules` reads |
| **mini_md_v2** (`workloads/mini_md_v2.c`) | particles, forces, velocities | OpenMP loops: forces of pairs, of bonds, integration | the libraries, when preloaded |
| **kumf**, the other **workloads**, **Makefile** | files of earlier runs | front end, benchmarks, build | |

How they interact. A preloaded program starts in the constructor: it looks for
KUMF variables in its environment, otherwise asks the daemon over a datagram
socket named by its pid, sets the variables it is told for itself (and so for
its children), loads the rules, chooses a mode and binds its main thread. From
then on every allocation of any thread consults the rules and, when routed, the
hash map; every `pthread_create` chooses a home node. The daemon's commands
find each other through a PID file and a socket path only.

What is hard about it:

* **shared state without locks**: the hash map of routed blocks is written by
  all threads without any lock; the rule tables are filled under a lock and
  read without it; mlock's counters are updated outside the lock that guards
  its table; the cache of CPU counts is rebuilt while threads choose nodes.
* **partial failure**: each hook calls several allocators, any of which may
  fail after another one succeeded.
* **time-outs and late answers**: the constructor waits 50 ms for the daemon,
  which may answer later, when another program has the pid.
* **crashes**: daemon and commands may be killed between any two file
  operations.
* **re-entrance**: prof's dump runs in `exit`, in a signal handler and, through
  `exit`, inside `get_log` with its lock held; it allocates, and so runs the
  hooks it dumps.
* **producers that do not wait**: the kernel goes on filling the rings while
  the SPE profiler empties them, and drops what does not fit.
* **splitting**: a perf dump is cut into pieces for a pool of workers, at places
  where no record begins; a loop over particles is cut into chunks whose
  iterations write each other's forces.
* **boundaries**: thresholds, ranges of pages and intervals of sizes are passed
  from tool to tool and to a reader with its own idea of what is included.
* **identity**: a daemon is known by a pid in a file, a block by its address
  in a map, a profile by a variable that children inherit.

What makes each component correct:

* rules: nobody resolves against a table that is being filled; requests go
  where the lines say. For the keyword `local` and for `size_gt:` and `size_lt:`
  lines the code does not have this (section 6).
* allocation hooks: a block returns to the allocator it came from, with the
  size it was allocated with; the map is exact and its traversals end. The code
  has this only as long as no thread writes over what another one goes by.
* threads: no node gets more threads than CPUs while there are CPUs for all;
  the cell that carries a home is read before it is freed; creating never hangs.
* constructor: a program that was not configured gets its own configuration
  or stays untouched; the user's settings win; main is reached in any case.
* mlock: an entry never outlives its block; no page stays locked for nobody.
* daemon: one daemon at a time, reachable through its files, started and
  stopped by its commands whatever a crash left; of commands that overlap the
  code has this only up to a point (`crossed`, section 3).
* prof: slots and records have one owner; an exit in order writes every call
  once and whole, and ends.
* SPE profiler: the lines are the samples, in order and once; no room is given
  back unread; what is there when the program stops is written.
* tools: what a split of the dump loses is bounded; the hot pages have the share
  of accesses they are chosen for; the rules send hot sizes to the fast node and
  nothing outside their range (with exceptions, section 6).
* mini_md_v2: velocities change by forces of the present places; the loops end.

## 2. Plan

Done, most important first:

1. `IntercMatch`, `IntercRules`: rule matching and loading.
2. `SegTable` (abstract), `IntercAlloc` (detailed, implements it).
3. `IntercThreads`: placement of threads.
4. `IntercInit`: processes, constructor, daemon queries.
5. `DaemonLifecycle`: start and stop of the daemon.
6. `MlockTable`: the mlock library.
7. `ProfLog`: the prof library.
8. `SpeRing`: the SPE self profiler and the shim that starts it.
9. `PacScore`, `PacToInterc`, and `PacPipeline`, which composes them with
   `IntercMatch`.
10. `MiniMd`: the parallel workload.
11. Proofs: `IntercAllocProofs`, `IntercRulesProofs`, `IntercThreadsProofs`,
    `MlockTableProofs`, `ProfLogProofs`, `SpeRingProofs`, `MiniMdProofs`, each of
    one component; and `ConfigProofs`, which speaks of three specifications, all
    about where the library's configuration comes from: `DaemonLifecycle`,
    `IntercInit` and `PacPipeline`. It extends all three, which is why the
    definitions of `DaemonLifecycle` and `PacPipeline` that others have too carry
    a prefix (`LifecycleSpec`, `PipelineInit`).

Proved are every invariant and action property that the passing runs check, and
the refinement; liveness is left to the runs (end of section 5).

## 3. Modules and the code they model

**IntercMatch** holds the pure functions: `match_size`, `match_addr`,
`resolve_node_relative`, `resolve_node`. They take the tables as arguments and
are used by `IntercRules` and by the instance of `IntercAlloc`.

**IntercRules** is the double-checked lock of `load_rules` and the reader of
the file, line by line, with the capacities of both tables (an address line
that does not fit falls through to the branches below it, a size or name line
is dropped), the constructor and the allocating threads that call it, and the
test in the malloc hook. A line is a record of its kind and its numbers; a file
is any sequence of at most `MaxFile` lines. What a file means is said again
without tables, by positions of lines (`Declared`), as the reference the hook is
checked against: the first line that covers the size decides, then the first
whose addresses hold the caller, and `local` is the thread's home node, as the
comments have it. `RoutedAsDeclared` compares the two where the library reads
what is written (`ReadAsMeant`); `RoutedAsDocumented` compares them everywhere,
and fails.
`strncmp(line, "size_gt:", 9)` compares the terminating NUL too, so in the
model, as in the code, such a line is a name line.

**SegTable** is what the hash map promises: a set of (address, size), to which
a call adds an element (or drops it, when no memory is left for it) and from
which a call takes one, each in one step. **IntercAlloc** is the code: buckets,
`next` fields and entries, one step per access to shared memory, in malloc,
calloc, realloc and free, with numa_alloc_onnode, the allocation of the entry
and libc each able to fail. `Table` maps the lists to the set. Nothing keeps
threads out of one bucket, in the model as in the code. Two variables are
history. `overtaken` becomes true at the first write to the map that changes
what another thread has read and will go by: the head of a bucket, when the
other is about to write its own entry there or to unlink the first one; the
entry that the other compares, unlinks or stands on; the `next` field that it
read and will store. It stays false in most overlaps: others may link and
unlink before and behind a search, in its bucket, and the search remains right.
What is promised is promised until then, and each of the six places (`GoesByHead`,
`GoesByEntry`, `GoesByNext`) is needed: without any one of them TLC finds a
violation. `IntercAllocRace` shows what happens afterwards. `unrecorded` are the
routed blocks whose entry record_seg could not allocate or a failed realloc
had removed.

**IntercThreads** has the pthread_create hook, the lock and the counter (which
wraps at `MaxInt`), the choice of a node by compact spread from the cached
counts or, while the cache is not ready, from libnuma, the heap cell that
carries the node to the new thread, and the constructor's part. The code cannot
reach the round-robin branch of `get_next_node`, and it is left out.

**IntercInit** has processes that start, fork, exec, exit and are killed, each
running `kumf_init` step by step: environment, access to the socket, the
client socket at `/tmp/kumf_lookup_<pid>`, the request, the poll, the
answer, the rules, the mode, the registration. The daemon is a queue of at most
`MaxQueue` datagrams and the set of registered pids, and may stop and start at any
time. Requests are sent with MSG_DONTWAIT and the result is ignored, so `Send`
loses what finds no daemon or a full queue. The daemon's answer names the nodes or
leaves them to the variable that is there (`NodesNamed`; the length of the text
decides); an answer without a second `:` is left out, since this daemon sends
none.
Beside them the profile command, once in a session, puts a configuration
without rules in the place of the old one (over it, if the same command was
profiled before; then by unlink and symlink), or ends without saving anything
because `spe_page_pac.py` failed. On every input it does: without pages it
exits with 1, and its report (663-676) counts under keys that its table does
not have, so the branch of `profile` that calls `pac_to_interc.py` (692-762) is
never taken and is not modelled. Four variables record history for the
properties: which executables ever had a configuration to be told, which pids
were killed, whose DEREG found the queue full, and which had a request of an
earlier asker outstanding.

**DaemonLifecycle** has one pid per command or daemon and a step per access to
the PID file and the socket path: `_is_running` reads, probes and cleans up in
two unlinks; `start` unlinks a stale socket and forks; the daemon truncates and
writes the PID file, binds (which fails if the path exists), installs its
handler, serves, and removes both files by name; `stop` signals, looks again
and kills. A pid that became free may be given to another program, which
`kill(pid, 0)` then finds, or is not permitted to; it ends by itself or when
`stop` signals it, and may also outlive the signal. Any number of commands run at
any time, beside each other and beside daemons that start and exit, and no delay
is taken to be long enough: the half seconds that `start` and `stop` sleep only
let the others move. `crossed` is history: a daemon wrote its pid while another
process went by what it had read of the PID file before (a command between the
read and the last step that rests on it, or another daemon before its own
write). What is promised is promised until then; each of the places in
`GoesByPidFile` is needed, since without any one of them TLC finds a violation.

**MlockTable** has the four hooks of `mlock`: the table under its lock, the two
counters as separate reads and writes outside it, the mark written after the
lock was released, the pages the kernel keeps in memory. Blocks have a position
and a size in units smaller than a page, so that two of them may share one. The
list of hot pages matters only in that it is empty or not: `is_hot_page` is
never called.

**ProfLog** has the hooks of `prof` as one operation (they log alike): `get_log`
with the lock of the slots and its three outcomes, the index and count of a
record, its fields and its stack trace as separate steps; `prof_cleanup` with
its try-lock and its flag, file by file and record by record, and the calls to
the hooks that fopen and fclose make from inside it. It runs in a thread that
exits, in one that is refused a slot (which holds the lock then) and in one
that a signal interrupts anywhere. `joined` says whether the process ends in
order: other threads done, no signal. Threads without a slot share index 0.

**SpeRing** has two actors per ring: the kernel, which appends records that wrap
around if there is room beyond `data_tail`, and `parse_spe_buffer`, which reads
`data_head` once, then a record at a time, then writes `data_tail`. In mode
`self` it runs in a thread that the constructor of the shim starts and the
destructor joins; in mode `wrapper` in the main function, whose child stops,
continues and exits, each of which raises SIGCHLD. Every event may fail to
open. What the consumer reads past the end of a ring is another value (`Nil`)
or the end of the process.

**PacScore** has the pure part of `spe_page_pac.py`. A dump is a sequence of
lines, a line takes three units of the file, and a file is split between any two
of them: before a line, inside what comes ahead of the packet's operand, or
inside the operand, where an address cut short names another page (`Junk`). The
search for a boundary accepts only lines that begin with `TS`; those of perf
begin with the offset and the bytes of the packet, so `bare` distinguishes dumps
without them. `_parse_chunk_worker` stores the kind of an access under keys that
`_flush_sample` does not read, as in the code. Scores are in tenths, as
`round(pac, 1)` leaves them; of latencies there is the total one. Rows of equal
score may come in any order: in the code it is that in which the pages were met.

**PacToInterc** has the pure part of `pac_to_interc.py`: ranges of pages, the
correlation with the log of allocations (a set of sizes with their tiers, since
nothing depends on their order), and the two generators `main` can
reach. **PacPipeline** is the state: a dump is parsed alone or by workers that
take chunks in any order, scored and written to `page_pac.csv`; a configuration
is made of that and of a log, or of that alone; the interception library loads
it and chooses a node for a size, by the operators of `IntercMatch`. The order
of the steps is that of `kumf diagnose`, which goes on with the CSV although
`spe_page_pac.py` ends with a KeyError after writing it.

**MiniMd** is `mini_md_v2.c`: each loop is a region whose iterations the threads
of the team take, `schedule(static)` in equal blocks and `schedule(dynamic)` in
chunks, with a barrier behind it. A force is the bag of contributions that were
added to it since it was cleared, so that a lost and a doubled one both show;
the atomic updates are one step, `forces[i] += fi` (159) is two. Distances are
chosen anew whenever forces are computed.

Common conventions: one action per step of the source, a thread's position in
`pc`, a guard `Goto(t, from, to)`. Definitions named `X_Y` beside an `X` are
deliberate mistakes, one per property: a property is worth stating only if
some plausible change of the code breaks it.

## 4. Runs

`tlc -config <run>.cfg MC<module>.tla`; each takes between a few seconds and
two or three minutes.

| run | instance | shows |
|---|---|---|
| `IntercRules` | every file of up to 3 lines out of 9 (overlaps, a zero bound, `local`, a negative node, lines without effect), tables of 1 and 2 rules, the constructor and one allocating thread | `ResolvesWholeFile`, `RoutedAsDeclared`, `LoadReturns` |
| `IntercAlloc` | 2 threads, 3 blocks and 3 entries in one bucket, every allocator may fail, until a thread is overtaken | `FreeMatchesRecord`, `NoFreedEntryTouched`, `EntriesNotLeaked`, `TraversalEnds`, and `TableSpec`: the lists implement `SegTable` |
| `IntercThreads` | 5 threads, one older than the constructor; nodes with 1, 0 and 1 CPU; a counter that wraps at 2; every call may fail | `NoNodeOversubscribed`, `WrapperInFlight`, `CreateReturns` |
| `IntercInit` | 2 pids, 2 executables (one profiled before), 4 environments, 2 starts and 1 exec, kills, a daemon that comes and goes and has room for 2 datagrams, one profile command | `OwnConfigOrPassive`, `PassiveInert`, `ExplicitEnvWins`, `RegistryCurrent`, `ReachesMain` |
| `DaemonLifecycle` | 3 processes, each any command at any time, 2 of them killed at any point, one pid reused, until a pid is written behind the back of another process | `OneDaemon`, `LiveDaemonReachable`, `StopEndsDaemon`, `StartSucceeds` |
| `MlockTable` | 2 threads, 3 positions of which two blocks share a page, limits of 1 block and 3 pages, every call may fail | `EntriesMatchBlocks`, `LockedPagesAreUsed` |
| `ProfLog` | 3 threads for 2 slots, arrays of 2 records, 3 calls in all, a signal | `OneOwnerEach` (of slots and of records), `LogComplete`, `DumpedOnce`, `LockNotReentered`, `ExitEnds` |
| `SpeRing` | both modes; 2 CPUs, rings of 2 units, records of 1 and 2, 3 records in all | `LinesAreSamples`, `NoSampleSkipped`, `ProfilerEnds` |
| `PacPipeline` | every dump of up to 3 samples and dumps of 20; up to 3 workers, files of 20 units split; logs of up to 3 allocations; a numbered node and `local` | `CountsSurviveChunks`, `HotPagesCover`, `RangesPartition`, `RoutedAreHotSized` |
| `MiniMd` | 2 to 4 particles (2 are refused), near, far or in one place; 1 and 2 threads; chunks of 2; warm-up and 2 steps | `KickedByWholeForces`, `LostOnlyAcrossChunks`, `SimulationEnds` |

`IntercRules` and `IntercAlloc` also check the module's `TypeOK`, because it bounds
the tables and says that an entry has the size of a block; in the other modules it
only records the types of the variables, and holds when it is added to the
configuration. Two configurations have a CONSTRAINT: `IntercAlloc` does not go on
from states in which a thread was overtaken, `DaemonLifecycle` not from those in
which a pid was written behind the back of a process (`crossed`). Neither hides a
violation: both variables stay true, and each property of these runs is said of
the time before or is fulfilled by them.

Why the bounds are enough: two threads are all a race on one bucket, table or
lock needs, since every interleaving of two is explored; three blocks in one
bucket put an entry at the head, in the middle and at the end of a list; three
lines are the least for a first match, a shadowed rule and an overflowing table;
two nodes with CPUs and one without distinguish the first, an inner and the last
interval of compact spread; two pids and one exec are enough for an inherited
environment and a reused pid, and a queue of two is full when both have a
datagram in it (the properties hold for a queue of one, and with `NodesNamed =
FALSE`, too); three processes are a daemon and two commands, or two daemons and
the one that started them; two crashes leave the files half created and then
half cleaned up; three calls fill an array of two and overflow it, or meet one
thread too many; three records go around a ring of two, one of them across its
end, while the other CPU's ring is empty, full or in use; three samples of up to
four lines are split at each of their units by one to three workers, and twenty
give four pages every order and share the thresholds tell apart; two chunks of
particles are the least between which an update is lost, and a third particle in
a chunk's neighbour the least for a loss that is not everything.

`IntercAllocRace` and `IntercRulesDocumented` show statements of the repository
that the code does not keep (section 6): the first without the constraint, the
second with every file of one line that is parsed as it is meant.

**Fairness.** Weak fairness of a thread inside a hook (`IntercRules`,
`IntercAlloc`, `IntercThreads`): the scheduler runs it. Locks need no more,
because in these instances each caller takes a lock finitely often. Of the
application nothing is assumed: it may never call. In `IntercInit` only the
constructor is fair, and its poll ends after 50 ms; the daemon may never answer.
In `DaemonLifecycle` each process is fair; that the daemon's loop comes around
rests on the one-second time-out of its socket. In `ProfLog` the threads inside
a hook or the dump are fair, in `SpeRing` the consumer and a destructor whose
join can return; the kernel and the profiled program need do nothing. In `MiniMd`
each thread of the team is fair, and the barrier opens when all have arrived.
`PacPipeline` has only safety properties: a tool that is stopped has no promise.

Deadlock is checked in the runs whose system never stops (allocation and mlock
hooks, rules); the others end when the program does, or when the bounded supply
of threads, processes or pids is used up.

## 5. What is proved

TLAPS checks every theorem below for all values of the constants that satisfy
the `ASSUME` of the module: any sets of threads, processes, blocks, entries and
nodes, any file, any number of steps, every failure the model has. One theorem
has a hypothesis besides (`NodesDiffer`, below), which the run satisfies. Where the
code keeps a promise only up to a point, the property says up to which: until a
thread is overtaken, a pid is written behind the back of a process, a queue was
full. The proofs have the same layout:
an inductive invariant `Inv` as a conjunction of named parts, a lemma that it
holds initially (`InitInv`), lemmas that the actions preserve each part, and a
theorem per property that `Inv` implies (in `ConfigProofs` with the names
`LifecycleInv`, `Inv`, `PipelineInv` and `ConfInv`).

| module | theorem | property | under |
|---|---|---|---|
| `IntercAllocProofs` | `TypeCorrect` | `TypeOK` | |
| | `FreesMatchRecord` | `FreeMatchesRecord` | |
| | `TraversalsAreSafe` | `NoFreedEntryTouched` | |
| | `NoEntryLeaked` | `EntriesNotLeaked` | |
| | `ListsImplementTable` | `TableSpec` (refinement) | |
| `IntercRulesProofs` | `TypeCorrect` | `TypeOK` | |
| | `OnlyWholeFiles` | `ResolvesWholeFile` | |
| | `RoutingFollowsFile` | `RoutedAsDeclared` (action property) | |
| `IntercThreadsProofs` | `WrapperIsKept` | `WrapperInFlight` | |
| | `SpreadFitsNodes` | `NoNodeOversubscribed` | `NodesDiffer` |
| `ConfigProofs` (`IntercInit`) | `OwnAnswers` | `OwnConfigOrPassive` | |
| | `PassiveIsInert` | `PassiveInert` | |
| | `UserDecides` | `ExplicitEnvWins` | |
| | `RegistryKept` | `RegistryCurrent` | |
| (`DaemonLifecycle`) | `AtMostOneDaemon` | `OneDaemon` | |
| | `ServingIsReachable` | `LiveDaemonReachable` | |
| (`PacPipeline`) | `NoAccessTwice` | `CountsSurviveChunks` | |
| | `HotPagesSuffice` | `HotPagesCover` | |
| | `RangesArePages` | `RangesPartition` | |
| | `RoutingIsHotSized` | `RoutedAreHotSized` | |
| `MlockTableProofs` | `TableMatchesBlocks` | `EntriesMatchBlocks` | |
| | `LockedPagesBelong` | `LockedPagesAreUsed` | |
| `ProfLogProofs` | `OwnersAreUnique` | `OneOwnerEach` | |
| | `NoSelfDeadlock` | `LockNotReentered` | |
| | `CallsDumpedOnce` | `DumpedOnce` | |
| | `DumpIsComplete` | `LogComplete` | |
| `SpeRingProofs` | `FileMatchesRings` | `LinesAreSamples` | |
| | `NothingSkipped` | `NoSampleSkipped` | |
| `MiniMdProofs` | `KicksAreWhole` | `KickedByWholeForces` (action property) | |
| | `LossIsAcrossChunks` | `LostOnlyAcrossChunks` (action property) | |

`IntercThreadsProofs`, `ConfigProofs` (for `IntercInit`), `MlockTableProofs`,
`ProfLogProofs` and `SpeRingProofs` prove `TypeOK` as well (`TypeCorrect` in each).

The hypothesis. `NodesDiffer`: KUMF_NODES lists no node twice; the code does not
look, and a node listed twice gets twice as many threads as it has CPUs. Of the
assumptions on constants one is about numbers: `IntAssumption` in
`IntercThreads` has the CPUs of all nodes together fit an int. `MdAssumption` has
`main` refuse to run with less than two particles (it refuses fewer than 100,
the constant `MinParticles`): the bond of a single particle with itself would
add to one force twice. `PipelineAssumption` says what samples and allocations are made of (a dump
is any finite sequence of them, the pages of the program are finitely many), and
that the word `local` is no number.

**Allocation hooks** (`IntercAllocProofs`). `TypeOK` is not inductive:
`NumaFree`, for example, writes `block[call[t].ptr]`, and nothing in the types
says that this pointer is an address and not `Nil`. `TypeInv` adds
`WellCalled(t)`, which ties each place of a hook to the operation that leads
there and to the arguments it uses: no interleaving makes a hook use a pointer
that its branch did not set, even in the presence of the race that breaks the
map, of which `TypeCorrect` says nothing less after a thread was overtaken.

The other theorems rest on `UntilOvertaken`: the types, and `Inv` as long as no
thread was overtaken. A free is right only if the map is, the map only if the
entries are, and the entries only if nobody else has the block:

* `Ownership`: a block belongs to the application, is the argument of one hook
  or the result of one, and never two of these.
* `FlagRaised`: a routed block implies `routing_ever_used`, so that the fast
  path of free is taken by libc's blocks only.
* `EntriesAreBlocks`: each linked entry has the address and size of a routed
  block, and no two have one address. `BlocksAreEntries` is the converse, except
  for a block that a thread is about to record or has removed, and for those in
  `unrecorded`.
* `Knows(t)`: what a thread may rely on in each place, such as that the block at
  `libc_free` has no entry, and that the head of the bucket is still the one to
  which it has linked its own entry.
* `OneCellEach`: no two threads fill one entry.
* `TableInv(r)`: `r` is a rank of the entries that falls along `next` from the
  head of each bucket and skips no entry of the bucket (`Lists`), and what each
  thread has read still holds (`Reads`): a search stands on a linked entry and has
  passed no entry of its block; a thread that has found its entry stands in front
  of it. `Inv` says that such a rank exists. Only two steps need thought: the new
  head is ranked above the old one, and an entry is taken out where two neighbours
  have nothing between them but it. Where a search ends, nothing of the bucket
  ranks lower, so a block that was not found has no entry, and is libc's or
  unrecorded (`UnroutedIsLibc`).

What the other threads of the bucket have read is where the conditions of
`overtaken` are needed: in `WriteTable`, `UnlinkTable` and `CellKept`.

**The map as a table** (`IntercAllocProofs`). `EntriesNotLeaked` speaks of the
entries that the buckets reach: the least set closed under `next` (`InTable`).
`ReachedAreLinked` shows that they are the linked ones; an entry of a bucket that
a closed set leaves out would have one of a higher rank above it that is left
out too, up to the head, which is not. The refinement maps the lists to the set of
segments of the linked entries, and the place of a thread to its pending call:
`RecordWrite` is `Record`, a failed allocation of the entry is `Drop`, `Unlink`
and the end of a search without success are `Remove`, the steps before and
between are stutters (`StepTable`, a step per action). A search that others
link and unlink around takes effect in its last step, because it has passed
nothing of its block. From the step that overtakes a thread on, `SegTable`
promises nothing (`Tear`).

**Rules** (`IntercRulesProofs`). `LockInv` and `FlagsInv` are the double-checked
lock: while a thread reads, nobody else has `rules_lock` and `rules_loaded` is
false, so that a thread that saw it true sees a file read to its end, and one
that saw `layer2_active` knows that the reader has only one store left.
`FilledFrom` says what a table holds halfway through the file: its rules are, in
order, those of the first lines of their kind, by an increasing map from indices
to lines. `FirstHit` concludes that the first rule that matches is the rule of
the first line that does, `DecideIsReadAs` that `resolve_node` returns what the
lines say when they are read as the library reads them, and `ReadAsDeclared` that
this is what they declare where `ReadAsMeant` holds; `RoutedAsDeclared` follows.

**Threads** (`IntercThreadsProofs`). `Numbering(num)`: the threads that were
counted have different numbers below `global_thread_seq`, and the node of each
is the one whose interval has its number. The counter is not inductive by
itself, since numbers of failed attempts are lost: `SpreadInv` bounds it by the
attempts that have passed it, which makes the wrap harmless while there are CPUs
for every attempt. `CacheInv` says that the cache is whole before its flag is up,
so that both ways to count CPUs agree. A node's interval has as many numbers as
the node has CPUs, and the threads on it inject into it (`AssignedFit`); here
`NodesDiffer` is needed.

**Constructor** (`ConfigProofs`). `AtStage` and `HasDecided` say what one
process has at each place of `kumf_init`; `Answered(p)`, that the only request
or answer at a pid is of the process that waits there, unless one outlived its
asker (`stray`). `RegistryInv` looks into the queue: a registration that no DEREG
behind it will take back belongs to a process that is connected or will be, an
exec in between included, or to a pid that ended without a word (`Silent`: killed,
or its DEREG lost).

**Daemon** (`ConfigProofs`, `LifecycleInv`). `FilesNameDaemon`: the PID file names the
only daemon (`Named`) and the socket is its own; `LearntBy(p)`: a command or a starting
daemon that goes by what it read knows that no daemon is named but, while it
probes or stops, the one it has read. Both hold until `crossed`, since only the
write of a pid can make what another process knows untrue. What a sleeping
command knew is not used: it reads the file again.

**mlock** (`MlockTableProofs`). `EntriesDescribeBlocks`, `Knows(t)`: what a thread
at each place knows of the table although it has released the lock.
`PagesCovered`: a locked page is in a recorded block whose entry is marked, or
will be by a thread on its way to the mark (`Locking`), and whose removal has not
begun. That the mark is written without the lock is harmless because a block
cannot be freed before malloc has returned it.

**prof** (`ProfLogProofs`). `SlotInv`: slots are found and claimed under the lock
and keep their thread, the first free one first. `WriterInv`: the record a thread
fills is in its own slot and below the count; threads without a slot come only
as the one that dumps (`DumperInv`). `CallInv`: a call has one record at most.
`DumpInv`: what is in a file has been passed by the dump, which therefore
does not come to it again.

`LogComplete` needs the order as well. It speaks of exits in order, and
`CalmInv` says what these are like: no signal, and a thread that leaves is alone.
`ArrayInv(t)`: the records of a thread are its calls, in
order, without a gap, from the first up to the one under way or to the end of
the array (`Reached`, `Entry`); `OwnInv`: threads and slots in use are one to one,
and a free slot has no records. `FilesInv`: a file has a beginning of its array, as far
as the dump has come, and all of it once the dump has passed (`Dumped`). A
sequence that SelectSeq or a sort would build is never formed: each record has
its rank.

**SPE profiler** (`SpeRingProofs`). `LogInv`: records lie one behind the other
up to `data_head`, and `data_tail` is where one begins. `RingInv`: each unit of
a record that ends beyond `data_tail` is still where the kernel put it
(`PutRing`; units in the ring at a time have different places, `SlotsDiffer`).
`ParseInv`: while it parses, the consumer is at the beginning of a record or at
the `head` that it read, which is such a place too, so that it never takes the
middle of a record for a header, though the kernel writes on. `WriteInv`: the
file has as many lines of a CPU as there are samples before `Parsed`; a new line
therefore has the rank of its sample. `DueInv`: nothing becomes due once the last
round has begun, and the CPUs it has passed have nothing due left; `EventInv`
takes care of those without an event, `ModeInv` of a thread that was never
created.

**mini_md** (`MiniMdProofs`). Forces are bags, but as long as nothing is in one
twice (`Single`) a bag is its set, and the proof speaks of sets. While the forces
of pairs are computed, a pair of near particles is behind the thread that has it
(`Passed`) or not; `PairInv` says which contributions a force has then, `SumInv`
what a thread has summed up for its own particle, and `ReadInv` what it read from
`forces[i]` and will write back: everything there but what others added in
between. The latter come from other threads, and so from other chunks
(`OneHand`), because a chunk is taken whole by one thread and worked off in order
(`ChunkInv`): this is all that `LostOnlyAcrossChunks` leaves to be lost. The
blocks of `schedule(static)` partition the particles (`BlocksPartition`), so the
loops over bonds and particles visit each once; `BondsInv` adds the bonds one by
one, and `WholeForce` is what integration finds.

**From samples to rules** (`ConfigProofs`). The library's induction theorems
cannot be used, so what a fold or a recursive function computes is proved by a
least counterexample: `LeastNatural` gives the first index, `SmallestSet` a
smallest finite set, at which a statement fails, and the step before it
contradicts. In this way a sum does not depend on the order of its summands
(`SumsAgree`), can be split, reindexed and compared, and a sorted set is in order
and complete (`Sorted`).

* `PipelineInv` keeps what each stage hands on: `InputInv` (the types of the
  input and of the counts), `PartsInv` (each part is the parse of its chunk, and
  `stats` the parse of the dump or the sum of all parts), `CsvInv` (the rows are
  ranked and each page has one).
* `HotPagesSuffice`: the rows whose score reaches the threshold include all up
  to its place (`PlaceIs`), which have the share; those that score more come
  before the place, which was the first.
* `RoutingIsHotSized`: `ConfInv` says that the configuration is one line from the
  smallest to the largest hot size, or a line that `load_rules` does not take,
  or none; `OneRuleMatches` and `NothingMatches` evaluate `resolve_node`, and
  `ConfRoutes` puts them together.
* `RangesArePages`: `Grouped` says of a beginning of the sorted pages that the
  finished ranges and the open one have exactly these, each `RangeOK`, and leave
  gaps between them; each page lengthens the open range or begins another
  (`GroupsGrow`).
* `NoAccessTwice` is the longest. `ParsedIs` gives a parse in closed form: the
  accesses of a page are the lines that give its address, and its latency that of
  the latency lines near such an address with no end of a record between them. In
  a chunk, lines in the middle are whole and only the first and the last may be
  pieces (`PiecesAre`). The chunks are a chain (`Splits`), so that each line is read
  whole by one of them at most (`OneReader`): nothing is counted twice. A line
  that nobody reads whole lies across an end of a chunk that is a cut, another
  one for each such line (`LostIsCut`), and so does each page that a worker
  invents (`InventedAreCut`). Without cuts a worker changes only where a record
  begins, so a latency and its address have the same reader (`ReaderChanges`,
  `NoCutKeepsLatencies`).

Only model-checked: liveness, in every module, since the prover has neither
fairness nor ENABLED. Two numbers are definitions of the model and no constants, so
that the theorems hold for them only: a line of a dump takes three units, a page
two (`LineUnits`, `PageUnits`).

## 6. Where code and documentation disagree

Shown by a run:

* `IntercAllocRace` - `interc` 117-141: two threads in one bucket lose an
  entry, and a routed block is given to libc's free. Each of the six ways to be
  overtaken (`overtaken`, section 3) can do this or worse: an entry is unlinked
  twice, a freed one is read, a list is cut.
* `IntercRulesDocumented` - `interc` 701 and 710 test `node >= 0`, so the keyword
  `local`, stored as -2, sends an allocation to libc instead of the home node of
  its thread (comments at 678 and 684), and `resolve_node_relative` never meets the
  -2 it looks for. `RoutedAsDeclared` therefore leaves out requests that a `local`
  line decides.

Met while modelling, without a run of its own:

* `interc` 201 and 212: the length given to strncmp counts the NUL, so no
  `size_gt:` or `size_lt:` line is ever recognised, although `pac_to_interc.py`
  316 promises "Allocations larger than this → fast node (hot data)" of the line
  it writes. `RoutedAsDocumented` denies this too (replace the lines of the run by
  a `size_gt` line to see it); `RoutedAsDeclared` leaves out files with such lines,
  and `RoutedAreHotSized` speaks of configurations made from allocations only.
* `daemon` 173: two shells that start at the same time leave two daemons, the
  first without a socket and without a PID file, against the line for rc files
  (844, "zero-cost if already running"), which every interactive shell runs. It
  takes a daemon that writes its pid after the other shell has looked: without
  `~crossed` in `OneDaemon` and without the constraint TLC shows it. A `stop` that
  overlaps a start may likewise remove the files of the new daemon, or signal none.
* `daemon` 814: while another program has the pid in the file, `start` takes it
  for the daemon and refuses, and `stop` (334) sends it SIGTERM and, if it is still
  there, SIGKILL.
  `StartSucceeds` therefore speaks of starts that get as far as forking.
* `spe_page_pac.py` 482 and 387 say that the file is split at record boundaries;
  since no line of perf begins with `TS`, each boundary is found by the fallback
  (511), `offset + chunk_size * i`, twice the offset and anywhere in a record.
  `CountsSurviveChunks` says what that costs: at most one access per cut, or a
  page that does not exist.
* `spe_page_pac.py` 463-467 against 198-203: "Reuse the same parsing logic"
  (370), but a worker's loads, stores and SVE accesses are never counted, so
  that the same dump gives other scores in parallel; 439-442 likewise loses the
  0x9e latencies and 436 adds up latencies that 172 replaces.
* `pac_to_interc.py` 356 and `interc` 670: the largest hot size, and a single
  one, is never routed, since the upper bound is exclusive. Cold and warm sizes
  between the smallest and the largest hot one are routed, against "NO routing
  rule" (363); `RoutedAreHotSized` says that hot sizes below the largest are.
* `pac_to_interc.py` 333-334: the node `local`, the default, sends allocations
  to libc, not to the home node; so `kumf diagnose`, which gives no node, routes
  nothing; `RoutedAreHotSized` is about numbered nodes. It also ignores whether `spe_page_pac.py` succeeded: it goes on with
  the `page_pac.csv` of an earlier run if there is one (298, 323), with the first
  log only (327), to which `prof` appended the calls of all runs with that name.
* `mini_md_v2.c` 159: the comment at 149 has only `forces[j]` written with
  conflicts; but `forces[i]` is read and written without the atomic other
  iterations use, so what they add meanwhile is lost (`LostOnlyAcrossChunks`
  says which updates can be).
* `daemon` 765 prints "✅ Profile saved for:" after `spe_page_pac.py` failed,
  when nothing was saved; and it fails on every input (see `IntercInit` above),
  so `profile` saves configurations without rules or none.
* `daemon` 456: `realpath(cmd[0])` does not search `PATH`, so a command given by
  its bare name is saved under a path no process has in `/proc/self/exe`.
* `interc` 485: an answer later than the 50 ms reaches the next program with
  this pid. `OwnConfigOrPassive` therefore leaves out pids in `stray`.
* `interc` 549: the variables set on the daemon's answer are inherited by
  children as if the user had set them; a child then runs with its parent's
  configuration and never asks for its own. `OwnConfigOrPassive` speaks of
  processes that found no variable.
* `interc` 201-222: a `size_gt:` or `page_range:` line becomes a name rule, and
  a name rule alone sets `layer2_active`, although none is ever matched: the
  mode is then ROUTING and nothing is routed.
* `interc` 119: when no memory is left for an entry, the routed block is
  returned unrecorded, and its free goes to libc. `interc` 787-795: realloc
  removes the entry of the old block before it knows that the new one exists;
  after a failure the old block has no entry. `FreeMatchesRecord` therefore
  excepts the blocks in `unrecorded`; `IntercAllocRace` has only numa_alloc_onnode
  fail, so that it shows the race and not these.
* `interc` 1005: rules are loaded before the mode is known, and malloc tests
  only `layer2_active`, so mode batch routes if there is a rule file (comment at
  725), and a `kumf.conf` in the working directory is enough (179, header at
  15).
* `interc` 647: DEREG is sent without waiting and the result is ignored. When the
  queue of the daemon, which one thread empties, is full,
  the pid stays registered although its process exited in order, and STATUS goes on
  counting it. `RegistryCurrent` therefore excepts `dropped`. A lost LOOKUP (507)
  costs the program its configuration, after the 50 ms; a lost REG only the count.
* `interc` 612: when libc's pthread_create fails, the hook returns its error, but
  the heap cell with the home node is never freed, nor is the number given back
  that the thread would have had: compact spread leaves that CPU out from then on.
  `WrapperInFlight` says that a cell is left over in this case only (`failed`), and
  `NoNodeOversubscribed` still holds, since a number too many makes no node fuller.
* `interc` 646: DEREG goes to the default socket even if REG went to the one in
  `KUMF_DAEMON`.
* `interc` 431: after `global_thread_seq` wraps, every thread goes to the first
  node; `NoNodeOversubscribed` speaks of fewer threads than CPUs and so of the
  time before.
* `mlock` 168 marks an entry as locked whether or not mlock was called or
  succeeded, so that its removal subtracts from the budget what was never added
  and more than the 10 MB may be locked; 124 and 143 lose updates when threads
  race; 187 unlocks whole pages, also those a neighbour shares.
* `mlock` 111: `is_hot_page` is never called: which allocations are locked
  depends on their order, not on the list of hot pages (header, line 5).

## 7. Not modelled, and abstracted

* Memory is sequentially consistent; the code has no barriers, and AArch64 may
  show more. Undefined behaviour of the races is the interleaving of their
  accesses.
* `IntercAlloc`: what libc does with a routed block that is given to it is left
  open by the code; in the model the block is free afterwards.
* `PacScore`: that an address cut short is none of the pages of the program
  (`Junk`) is an assumption; if it were one, an access would move to it.
* `DaemonLifecycle`: the files belong to one user.
* calloc's product `nmemb * size` is taken not to wrap.
* The text of lines, messages and reports; parsing is by kind.
* `prof`: the lookup of libc's functions at start and the small heap used
  meanwhile; libc's own locks, which the signal handler, allocating and
  writing, may find held by the thread it interrupted. A thread interrupted
  while it holds `prof_cleanup_lock` stays stuck (`stuck` in the model, and the
  reason why `ExitEnds` speaks of an exit in order). Not modelled and worth
  knowing: slots are never given back, so a program that ever had `MAX_TID`
  threads is ended by `get_log`; files are opened for appending, so a second
  run with the same names adds to the first; realloc does not log the old
  pointer; free does not write `caller_addr`.
* SPE profiler: the choice and bits of the event; the line buffer of 128 bytes,
  which truncates longer records; the buffer of the output file that forked
  children inherit and write again. An event opened with pid 0 counts the
  thread that opens it, the profiling thread, where the comment has the process
  (`Profiled`); SIGCHLD of a stopped child blocks the wrapper until the next
  change of state, while full rings drop samples; ARM SPE writes its records to
  the AUX area, not to the ring that is read here: the model takes the ring for
  what the code takes it for.
* `spe_page_pac.py`: latencies other than the total one, events, `--mlp`, the
  thresholds a user may give, the reports beside the CSV. `max_records`, which
  ends the parse of a stream early. `pac_to_interc.py`: the page-range generator
  (231-261), which nothing calls; comments.
* `daemon profile` behind `spe_page_pac.py`: never reached (section 3). STATUS,
  CONFIG, WRAP and PING change no state.
* `kumf`, the front end: it starts the other programs one after the other. Its
  only state are the files they leave, see section 6.
* `kumf_tiered`, `kumf_stream` and the build: nothing in them is shared by two
  actors or kept over a failure.
* `mini_md_v2`: the values of forces, of which the contributions are kept, and
  their three coordinates, which are updated one by one in the same way. An
  OpenMP runtime that gives fewer threads than asked for is a smaller team.
