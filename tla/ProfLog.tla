------------------------------- MODULE ProfLog -------------------------------
(***************************************************************************)
(* libkumf_prof.so (lib/prof/ldlib.c): the hooks that log every call of an *)
(* allocator in an array of their thread, and prof_cleanup, which writes   *)
(* the arrays to files when the process exits or is sent a signal.         *)
(*                                                                         *)
(* The calls of libc inside a hook are part of the step that calls the     *)
(* hook; _in_our_alloc keeps them out of the log.  A thread that handles a *)
(* signal or calls exit never comes back to what it did, so it needs no    *)
(* stack: whatever it held stays held.                                     *)
(***************************************************************************)
EXTENDS Naturals, SequencesExt

CONSTANTS
  Threads,
  MAX_TID, ARR_SIZE,
  MaxCalls,         \* bound: calls of the application
  Signals,          \* what the process may be sent
  Raw,              \* a record nobody has written
  Nil

(* A record is whole when its stack trace has been taken; calls of the     *)
(* library's own have n = 0.                                               *)
Records == [by : Threads, n : Nat, whole : BOOLEAN]

ASSUME ProfAssumption ==
  /\ MAX_TID \in Nat \ {0} /\ ARR_SIZE \in Nat \ {0} /\ MaxCalls \in Nat
  /\ Nil \notin Threads \cup [1..ARR_SIZE -> Records \cup {Raw}]
  /\ Raw \notin Records

VARIABLES
  tids,             \* the thread of each slot
  log_arr, log_index,
  lock,             \* who holds the lock of tids
  prof_cleanup_lock, prof_cleanup_done,
  tid, tid_index, in_trace,     \* thread-local
  pc, ret,          \* where a thread is, and where the hook returns
  l,                \* result of get_log: slot and record
  i, j,             \* the loops of prof_cleanup
  why,              \* what made the thread run it
  files,            \* data.raw.<tid>
  proc,             \* the process
  armed,            \* signals with their handler installed
  joined,           \* is the process in order?  (see Init)
  made              \* calls of the application

slots == <<tids, lock, tid, tid_index>>
logs == <<log_arr, log_index>>
cleanup == <<prof_cleanup_lock, prof_cleanup_done, i, j, why, files>>
env == <<proc, armed, joined, made>>
vars == <<slots, logs, cleanup, env, in_trace, pc, ret, l>>

Indices == 0..MAX_TID-1
Places == {"idle", "get_log", "lock", "scan", "claim", "reserve", "count",
           "fill", "trace", "cleanup", "test", "slot", "dump", "next", "stuck"}

TypeOK ==
  /\ tids \in [Indices \ {0} -> Threads \cup {Nil}]
  /\ log_arr \in [Indices -> [1..ARR_SIZE -> Records \cup {Raw}] \cup {Nil}]
  /\ log_index \in [Indices -> 0..ARR_SIZE]
  /\ {lock, prof_cleanup_lock} \subseteq Threads \cup {Nil}
  /\ prof_cleanup_done \in BOOLEAN
  /\ tid \in [Threads -> BOOLEAN] /\ tid_index \in [Threads -> Indices]
  /\ in_trace \in [Threads -> BOOLEAN]
  /\ pc \in [Threads -> Places] /\ ret \in [Threads -> {"idle", "dump", "next"}]
  /\ l \in [Threads -> [slot : Indices, rec : 0..ARR_SIZE]]
  /\ i \in [Threads -> 1..MAX_TID] /\ j \in [Threads -> 0..ARR_SIZE]
  /\ why \in [Threads -> {"none", "exit", "signal"}]
  /\ files \in [Threads -> Seq(Records \cup {Raw})]
  /\ proc \in {"running", "exited", "killed"}
  /\ armed \subseteq Signals /\ joined \in BOOLEAN
  /\ made \in [Threads -> Nat]

(* m_init has run.  joined: the application exits when its other threads   *)
(* have ended or wait, and is sent no signal.  The others run too.         *)
Init ==
  /\ tids = [k \in Indices \ {0} |-> Nil]
  /\ log_arr = [k \in Indices |-> Nil] /\ log_index = [k \in Indices |-> 0]
  /\ lock = Nil /\ prof_cleanup_lock = Nil /\ prof_cleanup_done = FALSE
  /\ tid = [t \in Threads |-> FALSE] /\ tid_index = [t \in Threads |-> 0]
  /\ in_trace = [t \in Threads |-> FALSE]
  /\ pc = [t \in Threads |-> "idle"] /\ ret = [t \in Threads |-> "idle"]
  /\ l = [t \in Threads |-> [slot |-> 0, rec |-> 0]]
  /\ i = [t \in Threads |-> 1] /\ j = [t \in Threads |-> 0]
  /\ why = [t \in Threads |-> "none"]
  /\ files = [t \in Threads |-> <<>>]
  /\ proc = "running" /\ armed = Signals /\ joined \in BOOLEAN
  /\ made = [t \in Threads |-> 0]

Goto(t, from, to) == pc[t] = from /\ pc' = [pc EXCEPT ![t] = to]

Leaving == {t \in Threads : why[t] # "none"}

-----------------------------------------------------------------------------
(* The hooks: malloc, calloc, realloc, memalign, posix_memalign, free,     *)
(* mmap, mmap64 and munmap log alike.                                      *)

(* The hook has called libc. *)
Call(t) ==
  /\ joined => Leaving = {}
  /\ FoldFunction(+, 0, made) < MaxCalls
  /\ Goto(t, "idle", IF in_trace[t] THEN "idle" ELSE "get_log")
  /\ made' = [made EXCEPT ![t] = @ + 1]
  /\ UNCHANGED <<slots, logs, cleanup, in_trace, ret, l, proc, armed, joined>>

(* Mutant: the thread id is not kept. *)
GetLog_Forgotten(t) ==
  /\ Goto(t, "get_log", IF tid[t] THEN "reserve" ELSE "lock")
  /\ UNCHANGED <<slots, logs, cleanup, env, in_trace, ret, l>>

GetLog(t) ==
  /\ Goto(t, "get_log", IF tid[t] THEN "reserve" ELSE "lock")
  /\ tid' = [tid EXCEPT ![t] = TRUE]
  /\ UNCHANGED <<tids, lock, tid_index, logs, cleanup, env, in_trace, ret, l>>

(* Mutant: the slots are searched without the lock. *)
Lock_Ignored(t) ==
  /\ Goto(t, "lock", "scan")
  /\ UNCHANGED <<slots, logs, cleanup, env, in_trace, ret, l>>

Lock(t) ==
  /\ lock = Nil
  /\ Goto(t, "lock", "scan")
  /\ lock' = t
  /\ UNCHANGED <<tids, tid, tid_index, logs, cleanup, env, in_trace, ret, l>>

FreeSlots == {k \in Indices \ {0} : tids[k] = Nil}

(* The first free slot is found. *)
Scan(t) ==
  /\ \E k \in FreeSlots :
       /\ \A m \in FreeSlots : k <= m
       /\ l' = [l EXCEPT ![t] = [slot |-> k, rec |-> 0]]
  /\ Goto(t, "scan", "claim")
  /\ UNCHANGED <<slots, logs, cleanup, env, in_trace, ret>>

(* Mutant: the lock is kept. *)
LockAfter_Kept(t) == t
LockAfter(t) == Nil

Claim(t) ==
  /\ Goto(t, "claim", "reserve")
  /\ tids' = [tids EXCEPT ![l[t].slot] = t]
  /\ tid_index' = [tid_index EXCEPT ![t] = l[t].slot]
  /\ lock' = LockAfter(t)
  /\ UNCHANGED <<tid, logs, cleanup, env, in_trace, ret, l>>

(* "Too many threads!": exit, with the lock held.                          *)
TooMany(t) ==
  /\ FreeSlots = {}
  /\ \/ (* exit runs prof_cleanup. *)
        /\ \A u \in Threads : why[u] # "exit"
        /\ Goto(t, "scan", "cleanup")
        /\ why' = [why EXCEPT ![t] = "exit"]
        /\ UNCHANGED proc
     \/ (* A second exit has no handler left to run. *)
        /\ \E u \in Threads : why[u] = "exit"
        /\ Goto(t, "scan", "scan")
        /\ proc' = "exited"
        /\ UNCHANGED why
     \/ (* In another thread it may wait for the first. *)
        /\ \E u \in Threads \ {t} : why[u] = "exit"
        /\ Goto(t, "scan", "stuck")
        /\ UNCHANGED <<proc, why>>
  /\ joined' = FALSE
  /\ UNCHANGED <<slots, logs, prof_cleanup_lock, prof_cleanup_done, i, j, files, armed, made,
                 in_trace, ret, l>>

IsFull(k) == log_index[k] >= ARR_SIZE

(* The array of the slot is allocated with its first record. *)
Reserve(t) ==
  LET k == tid_index[t] IN
  /\ Goto(t, "reserve", IF IsFull(k) THEN ret[t] ELSE "count")
  /\ log_arr' = IF log_arr[k] = Nil THEN [log_arr EXCEPT ![k] = [m \in 1..ARR_SIZE |-> Raw]]
                ELSE log_arr
  /\ l' = [l EXCEPT ![t] = [slot |-> k, rec |-> IF IsFull(k) THEN 0 ELSE log_index[k] + 1]]
  /\ UNCHANGED <<slots, log_index, cleanup, env, in_trace, ret>>

Count(t) ==
  /\ Goto(t, "count", "fill")
  /\ log_index' = [log_index EXCEPT ![l[t].slot] = @ + 1]
  /\ UNCHANGED <<slots, log_arr, cleanup, env, in_trace, ret, l>>

Put(t, w) ==
  log_arr' = [log_arr EXCEPT ![l[t].slot][l[t].rec] =
                [by |-> t, n |-> IF ret[t] = "idle" THEN made[t] ELSE 0, whole |-> w]]

Fill(t) ==
  /\ Goto(t, "fill", "trace")
  /\ Put(t, FALSE)
  /\ in_trace' = [in_trace EXCEPT ![t] = TRUE]
  /\ UNCHANGED <<slots, log_index, cleanup, env, ret, l>>

(* Mutant: get_trace leaves its flag up. *)
TraceFlag_Up(t) == TRUE
TraceFlag(t) == FALSE

(* get_trace; what backtrace allocates is not logged. *)
Trace(t) ==
  /\ Goto(t, "trace", ret[t])
  /\ Put(t, TRUE)
  /\ in_trace' = [in_trace EXCEPT ![t] = TraceFlag(t)]
  /\ UNCHANGED <<slots, log_index, cleanup, env, ret, l>>

-----------------------------------------------------------------------------
(* exit, signals and prof_cleanup *)

Exit(t) ==
  /\ \A u \in Threads : why[u] # "exit"
  /\ joined => \A u \in Threads : pc[u] = "idle"
  /\ Goto(t, "idle", "cleanup")
  /\ why' = [why EXCEPT ![t] = "exit"]
  /\ UNCHANGED <<slots, logs, prof_cleanup_lock, prof_cleanup_done, i, j, files, env,
                 in_trace, ret, l>>

(* A handler runs once in some thread, on top of whatever it does; the     *)
(* next signal of the kind kills the process (SA_RESETHAND).               *)
Signal(t, s) ==
  /\ ~joined
  /\ IF s \in armed
     THEN /\ pc' = [pc EXCEPT ![t] = "cleanup"]
          /\ why' = [why EXCEPT ![t] = "signal"]
          /\ armed' = armed \ {s}
          /\ UNCHANGED proc
     ELSE proc' = "killed" /\ UNCHANGED <<pc, why, armed>>
  /\ UNCHANGED <<slots, logs, prof_cleanup_lock, prof_cleanup_done, i, j, files, joined, made,
                 in_trace, ret, l>>

CleanupLock(t) ==
  /\ prof_cleanup_lock = Nil
  /\ Goto(t, "cleanup", "test")
  /\ prof_cleanup_lock' = t
  /\ UNCHANGED <<slots, logs, prof_cleanup_done, i, j, why, files, env, in_trace, ret, l>>

(* The handler raises its signal again; exit ends the process. *)
Finish(t) == proc' = IF why[t] = "signal" THEN "killed" ELSE "exited"

(* Mutant: the flag is not set. *)
DoneAfter_Unset == prof_cleanup_done
DoneAfter == TRUE

CleanupTest(t) ==
  /\ Goto(t, "test", "slot")
  /\ prof_cleanup_lock' = Nil
  /\ IF prof_cleanup_done
     THEN Finish(t) /\ UNCHANGED <<prof_cleanup_done, i>>
     ELSE /\ prof_cleanup_done' = DoneAfter
          /\ i' = [i EXCEPT ![t] = 1]
          /\ UNCHANGED proc
  /\ UNCHANGED <<slots, logs, j, why, files, armed, joined, made, in_trace, ret, l>>

(* A hook that fopen or fclose calls. *)
Nested(t, from, then) ==
  /\ Goto(t, from, IF in_trace[t] THEN then ELSE "get_log")
  /\ ret' = [ret EXCEPT ![t] = then]

IsUsed(t) == i[t] < MAX_TID /\ tids[i[t]] # Nil

(* open_file allocates. *)
OpenFile(t) ==
  /\ IsUsed(t)
  /\ Nested(t, "slot", "dump")
  /\ j' = [j EXCEPT ![t] = 0]
  /\ UNCHANGED <<slots, logs, prof_cleanup_lock, prof_cleanup_done, i, why, files, env,
                 in_trace, l>>

(* The file cannot be opened: exit, out of an exit handler or a handler.   *)
OpenFails(t) ==
  /\ pc[t] = "slot" /\ IsUsed(t) /\ ~joined
  /\ proc' = "exited"
  /\ UNCHANGED <<slots, logs, cleanup, armed, joined, made, in_trace, pc, ret, l>>

AllDumped(t) ==
  /\ pc[t] = "slot" /\ ~IsUsed(t)
  /\ Finish(t)
  /\ UNCHANGED <<slots, logs, cleanup, armed, joined, made, in_trace, pc, ret, l>>

(* A line of the file.  Symbols are resolved, and that is not logged,      *)
(* neither here nor later in this thread.                                  *)
DumpLine(t) ==
  /\ pc[t] = "dump" /\ j[t] < log_index[i[t]]
  /\ in_trace' = [in_trace EXCEPT ![t] = TRUE]
  /\ files' = [files EXCEPT ![tids[i[t]]] = Append(@, log_arr[i[t]][j[t] + 1])]
  /\ j' = [j EXCEPT ![t] = @ + 1]
  /\ UNCHANGED <<slots, logs, prof_cleanup_lock, prof_cleanup_done, i, why, env, pc, ret, l>>

(* The trace of a record that is not whole has any length: the dump may    *)
(* end the process.                                                        *)
DumpTorn(t) ==
  /\ pc[t] = "dump" /\ j[t] < log_index[i[t]]
  /\ LET r == log_arr[i[t]][j[t] + 1] IN ~(r # Raw /\ r.whole)
  /\ proc' = "killed"
  /\ UNCHANGED <<slots, logs, cleanup, armed, joined, made, in_trace, pc, ret, l>>

(* fclose frees. *)
CloseFile(t) ==
  /\ Nested(t, "dump", "next")
  /\ j[t] >= log_index[i[t]]
  /\ UNCHANGED <<slots, logs, cleanup, env, in_trace, l>>

NextSlot(t) ==
  /\ Goto(t, "next", "slot")
  /\ i' = [i EXCEPT ![t] = @ + 1]
  /\ UNCHANGED <<slots, logs, prof_cleanup_lock, prof_cleanup_done, j, why, files, env,
                 in_trace, ret, l>>

-----------------------------------------------------------------------------
Work(t) ==
  \/ GetLog(t) \/ Lock(t) \/ Scan(t) \/ Claim(t) \/ TooMany(t) \/ Reserve(t)
  \/ Count(t) \/ Fill(t) \/ Trace(t)
  \/ CleanupLock(t) \/ CleanupTest(t) \/ OpenFile(t) \/ OpenFails(t) \/ AllDumped(t)
  \/ DumpLine(t) \/ DumpTorn(t) \/ CloseFile(t) \/ NextSlot(t)

Next ==
  /\ proc = "running"
  /\ \E t \in Threads : Call(t) \/ Exit(t) \/ Work(t) \/ \E s \in Signals : Signal(t, s)

(* A thread inside a hook or in prof_cleanup is scheduled. *)
Spec == Init /\ [][Next]_vars /\ \A t \in Threads : WF_vars(proc = "running" /\ Work(t))

-----------------------------------------------------------------------------
(* No two threads have one slot, and the slots in use have no gap, at      *)
(* which the dump would stop: the search and the claim are under the lock. *)
OneSlotEach ==
  /\ \A t, u \in Threads : tid_index[t] # 0 /\ tid_index[t] = tid_index[u] => t = u
  /\ \A k, m \in Indices \ {0} : k < m /\ tids[m] # Nil => tids[k] # Nil

(* No two threads write one record, though nothing guards the arrays and   *)
(* threads without a slot of their own share index 0.                      *)
OneWriterPerRecord ==
  \A t, u \in Threads :
    pc[t] \in {"count", "fill", "trace"} /\ pc[u] \in {"count", "fill", "trace"} /\ l[t] = l[u]
    => t = u

(* Slots and records have one owner each. *)
OneOwnerEach == OneSlotEach /\ OneWriterPerRecord

(* The lines of a file that are not calls of the library's own. *)
Logged(t) == {x \in DOMAIN files[t] : files[t][x] = Raw \/ files[t][x].n # 0}

(* The numbers of the calls that the array of the thread has room for. *)
Kept(t) == 1..(IF made[t] < ARR_SIZE THEN made[t] ELSE ARR_SIZE)

(* The file of a thread has the calls it has room for, in order and whole, *)
(* and has each of them once.                                              *)
Complete(t) ==
  /\ \A x \in Logged(t) : files[t][x] \in [by : {t}, n : Kept(t), whole : {TRUE}]
  /\ \A n \in Kept(t) : \E x \in Logged(t) : files[t][x].n = n
  /\ \A x, y \in Logged(t) : x < y => files[t][x].n < files[t][y].n

(* The dump is complete: when the process ends in order, the file of each  *)
(* thread has its calls, all of them (as far as the array went).           *)
LogComplete == joined /\ proc = "exited" => \A t \in Threads : Complete(t)

(* Whatever ends the process, and however often, no call is dumped twice.  *)
DumpedOnce ==
  \A t \in Threads : \A k, m \in DOMAIN files[t] :
    files[t][k] # Raw /\ files[t][k].n # 0 /\ files[t][m] # Raw
      /\ files[t][k].n = files[t][m].n /\ files[t][k].by = files[t][m].by => k = m

(* The dump never waits for the lock of the slots when its own thread has  *)
(* it: not in a handler that interrupted get_log, nor in the exit that     *)
(* get_log calls.                                                          *)
LockNotReentered == \A t \in Threads : pc[t] = "lock" => lock # t

(* An exit in order ends. *)
ExitEnds == (joined /\ \E t \in Threads : why[t] = "exit") ~> (proc # "running")
=============================================================================
