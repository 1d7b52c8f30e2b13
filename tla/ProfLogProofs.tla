---------------------------- MODULE ProfLogProofs ----------------------------
(***************************************************************************)
(* Proofs about the allocation log (ProfLog), for any number of threads,   *)
(* slots, records and signals: slots and records have one owner each, the  *)
(* lock of the slots is not entered twice, no call is dumped twice, and an *)
(* exit in order dumps all of them.                                        *)
(***************************************************************************)
EXTENDS ProfLog, SequenceTheorems, TLAPS

-----------------------------------------------------------------------------
(* The inductive invariant. *)

Slots == Indices \ {0}
InHook == {"get_log", "lock", "scan", "claim", "reserve", "count", "fill", "trace"}
Writing == {"count", "fill", "trace"}

(* A thread is in prof_cleanup's loop, or was when it was interrupted in a *)
(* hook the loop had called.                                               *)
Dumper(t) == ret[t] # "idle" \/ pc[t] \in {"slot", "dump", "next"}

(* The slots: the search and the claim are under the lock, a slot keeps    *)
(* its thread, and a thread that interrupted get_log has none and does not *)
(* look for one again.                                                     *)
SlotInv ==
  /\ \A t \in Threads : /\ pc[t] \in {"scan", "claim"} => lock = t
                        /\ lock = t => tid[t]
                        /\ pc[t] = "lock" => tid[t] /\ lock # t
                        /\ tid_index[t] # 0 => tids[tid_index[t]] = t
                        /\ pc[t] = "claim" => /\ l[t].slot \in FreeSlots
                                              /\ \A m \in FreeSlots : l[t].slot <= m
  /\ \A k, m \in Slots : k < m /\ tids[m] # Nil => tids[k] # Nil

(* Only one thread dumps, and only it may write without a slot. *)
DumperInv ==
  /\ \A t \in Threads : /\ pc[t] \in {"idle"} => ret[t] = "idle"
                        /\ pc[t] \in {"slot", "dump", "next"} => prof_cleanup_done
                        /\ ret[t] # "idle" => prof_cleanup_done
  /\ \A t, u \in Threads : ret[t] # "idle" /\ ret[u] # "idle" => t = u
  /\ proc = "running" => \A t, u \in Threads : Dumper(t) /\ Dumper(u) => t = u
  /\ \A t \in Threads : ret[t] = "idle" /\ tid_index[t] = 0 =>
       /\ pc[t] \notin {"reserve"} \cup Writing
       /\ pc[t] \in {"idle", "get_log"} => ~tid[t]

(* The record a thread has reserved. *)
Cell(t) == log_arr[l[t].slot][l[t].rec]
CallOf(t) == IF ret[t] = "idle" THEN made[t] ELSE 0

WriterInv ==
  /\ \A k \in Indices :
       IF log_arr[k] = Nil THEN log_index[k] = 0
       ELSE \A a \in 1..ARR_SIZE : a > log_index[k] => log_arr[k][a] = Raw
  /\ \A t \in Threads :
       /\ pc[t] \in Writing => /\ l[t].slot = tid_index[t] /\ l[t].rec # 0
                               /\ log_arr[l[t].slot] # Nil
       /\ pc[t] = "count" => l[t].rec = log_index[l[t].slot] + 1
       /\ pc[t] = "fill" => l[t].rec <= log_index[l[t].slot] /\ Cell(t) = Raw
       /\ pc[t] = "trace" => /\ l[t].rec <= log_index[l[t].slot] /\ Cell(t) # Raw
                             /\ Cell(t).by = t /\ Cell(t).n = CallOf(t)

(* Each call of the application has one record, if any. *)
Recorded(k, a) == log_arr[k] # Nil /\ log_arr[k][a] # Raw
Of(r, t, n) == r.by = t /\ r.n = n

CallInv ==
  /\ \A k, m \in Indices, a, b \in 1..ARR_SIZE :
       Recorded(k, a) /\ Recorded(m, b) /\ log_arr[k][a].n # 0
         /\ log_arr[k][a].by = log_arr[m][b].by /\ log_arr[k][a].n = log_arr[m][b].n
         => k = m /\ a = b
  /\ \A k \in Indices, a \in 1..ARR_SIZE : Recorded(k, a) =>
       /\ log_arr[k][a].n <= made[log_arr[k][a].by]
       /\ \A t \in Threads : pc[t] \in InHook \ {"trace"} /\ ret[t] = "idle" =>
            ~Of(log_arr[k][a], t, made[t])

(* The dump has passed a record. *)
Behind(d, k, a) == k < i[d] \/ (k = i[d] /\ pc[d] # "slot" /\ a <= j[d])

DumpInv ==
  /\ \A t \in Threads : pc[t] \in {"dump", "next"} \/ (ret[t] # "idle" /\ pc[t] \in InHook) =>
       i[t] \in Slots /\ tids[i[t]] \in Threads
  /\ ~prof_cleanup_done => files = [t \in Threads |-> <<>>]
  /\ proc = "running" => \A d \in Threads : Dumper(d) =>
       \A t \in Threads : \A x \in DOMAIN files[t] : files[t][x] # Raw =>
         \E k \in Indices, a \in 1..ARR_SIZE :
           /\ Behind(d, k, a) /\ Recorded(k, a)
           /\ Of(log_arr[k][a], files[t][x].by, files[t][x].n)

(* An exit in order.  What each thread and the process are at: a thread    *)
(* that has not been told to leave is at work or in a hook of its own; the *)
(* one that leaves is alone.                                               *)
Calm(t) ==
  /\ why[t] # "signal" /\ pc[t] # "stuck"
  /\ pc[t] \in {"cleanup", "test"} => ~prof_cleanup_done
  /\ why[t] = "none" => /\ ret[t] = "idle" /\ pc[t] \in {"idle"} \cup InHook
                        /\ in_trace[t] => pc[t] = "trace"
  /\ why[t] # "none" => /\ pc[t] # "idle" /\ (pc[t] \in InHook => ret[t] # "idle")
                        /\ \A u \in Threads \ {t} : pc[u] = "idle" /\ why[u] = "none"

CalmInv == (\A t \in Threads : Calm(t)) /\ (Leaving = {} => ~prof_cleanup_done)

(* Threads and slots in use are one to one; a free slot has no records.    *)
OwnInv ==
  /\ \A t \in Threads : tid_index[t] # 0 <=> tid[t] /\ pc[t] \notin {"lock", "scan", "claim"}
  /\ \A k \in Slots : IF tids[k] = Nil THEN log_index[k] = 0 ELSE tid_index[tids[k]] = k

(* The last call of a thread has not got to its record yet; the calls that *)
(* have.                                                                   *)
Pending(t) == ret[t] = "idle" /\ pc[t] \in {"get_log", "lock", "scan", "claim", "reserve"}
Reached(t) == IF Pending(t) THEN made[t] - 1 ELSE made[t]

(* Line or record a of a thread: its call a, or one of the dump's own      *)
(* after the last.                                                         *)
Entry(r, t, a, last) ==
  IF a <= last THEN r = [by |-> t, n |-> a, whole |-> TRUE] ELSE r # Raw /\ r.n = 0

(* The array of a thread has its calls in order, but for the record that   *)
(* it is writing.                                                          *)
ArrayInv(t) ==
  LET k == tid_index[t] IN
  /\ Pending(t) => made[t] # 0
  /\ k = 0 => Reached(t) = 0
  /\ k # 0 =>
       /\ why[t] = "none" => log_index[k] <= Reached(t)
       /\ IF pc[t] = "count" /\ ret[t] = "idle" THEN log_index[k] + 1 = Reached(t)
          ELSE Reached(t) <= log_index[k] \/ log_index[k] = ARR_SIZE
       /\ pc[t] \in {"fill", "trace"} =>
            IF ret[t] = "idle" THEN l[t].rec = Reached(t) ELSE l[t].rec > Reached(t)
       /\ \A a \in 1..log_index[k] : \/ pc[t] \in {"fill", "trace"} /\ a = l[t].rec
                                     \/ Entry(log_arr[k][a], t, a, Reached(t))

(* The files are prefixes of the arrays, and those of the slots that the   *)
(* dump has passed have all of their calls.                                *)
FileGood(t) ==
  /\ Len(files[t]) <= ARR_SIZE
  /\ \A x \in DOMAIN files[t] : Entry(files[t][x], t, x, made[t])

Dumped(t) == made[t] <= Len(files[t]) \/ Len(files[t]) = ARR_SIZE

At(d, p) == IF pc[d] \in InHook THEN ret[d] = p ELSE pc[d] = p

FileInv(d, t) ==
  LET k == tid_index[t] IN
  /\ k = 0 \/ k > i[d] \/ (k = i[d] /\ At(d, "slot")) => files[t] = <<>>
  /\ k = i[d] /\ At(d, "dump") => Len(files[t]) = j[d]
  /\ k # 0 /\ (k < i[d] \/ (k = i[d] /\ At(d, "next"))) => Dumped(t)

FilesInv == \A t \in Threads : FileGood(t) /\ \A d \in Threads : Dumper(d) => FileInv(d, t)

Ordered == CalmInv /\ OwnInv /\ (\A t \in Threads : ArrayInv(t)) /\ FilesInv
OrderInv == joined /\ proc = "running" => Ordered

Inv ==
  /\ TypeOK /\ SlotInv /\ DumperInv /\ WriterInv /\ CallInv /\ DumpInv /\ DumpedOnce
  /\ OrderInv /\ LogComplete

-----------------------------------------------------------------------------
(* The type invariant *)

(* The initial states.                                                     *)
LEMMA InitInv == Init => Inv
<1> SUFFICES ASSUME Init  PROVE Inv
  OBVIOUS
<1> USE DEF Init, Indices
<1>1. TypeOK
  <2>1. 0 \in 0..ARR_SIZE /\ 0 \in Indices /\ 1 \in 1..MAX_TID
    BY ProfAssumption
  <2>2. l \in [Threads -> [slot : Indices, rec : 0..ARR_SIZE]]
    BY <2>1
  <2>3. files \in [Threads -> Seq(Records \cup {Raw})]
    OBVIOUS
  <2>4. /\ tids \in [Indices \ {0} -> Threads \cup {Nil}]
        /\ log_arr \in [Indices -> [1..ARR_SIZE -> Records \cup {Raw}] \cup {Nil}]
        /\ log_index \in [Indices -> 0..ARR_SIZE]
        /\ {lock, prof_cleanup_lock} \subseteq Threads \cup {Nil}
        /\ prof_cleanup_done \in BOOLEAN
    BY <2>1
  <2>5. /\ tid \in [Threads -> BOOLEAN] /\ tid_index \in [Threads -> Indices]
        /\ in_trace \in [Threads -> BOOLEAN]
        /\ pc \in [Threads -> Places] /\ ret \in [Threads -> {"idle", "dump", "next"}]
        /\ i \in [Threads -> 1..MAX_TID] /\ j \in [Threads -> 0..ARR_SIZE]
        /\ why \in [Threads -> {"none", "exit", "signal"}]
        /\ proc \in {"running", "exited", "killed"}
        /\ armed \subseteq Signals /\ joined \in BOOLEAN
        /\ made \in [Threads -> Nat]
    BY <2>1 DEF Places
  <2> HIDE DEF Init, Indices
  <2> QED  BY <2>2, <2>3, <2>4, <2>5 DEF TypeOK
<1>2. SlotInv
  BY ProfAssumption DEF SlotInv, Slots
<1>3. DumperInv
  BY DEF DumperInv, Dumper, Writing
<1>4. WriterInv /\ CallInv
  BY DEF WriterInv, CallInv, Recorded, Writing
<1>5. DumpInv /\ DumpedOnce
  BY DEF DumpInv, Dumper, DumpedOnce, InHook
<1>6. OrderInv
  <2>1. CalmInv
    BY DEF CalmInv, Calm, Leaving
  <2>2. OwnInv
    BY DEF OwnInv, Slots
  <2>3. \A t \in Threads : ArrayInv(t) /\ FileGood(t) /\ ~Dumper(t)
    BY ProfAssumption DEF ArrayInv, Reached, Pending, FileGood, Dumper
  <2> QED  BY <2>1, <2>2, <2>3 DEF OrderInv, Ordered, FilesInv
<1>7. LogComplete
  BY DEF LogComplete
<1> QED  BY <1>1, <1>2, <1>3, <1>4, <1>5, <1>6, <1>7 DEF Inv

(* Writing a record keeps the array one of records.                        *)
LEMMA PutTypes ==
  ASSUME TypeOK, WriterInv, NEW t \in Threads, pc[t] \in {"fill", "trace"},
         NEW w \in BOOLEAN, Put(t, w)
  PROVE  /\ log_arr' \in [Indices -> [1..ARR_SIZE -> Records \cup {Raw}] \cup {Nil}]
         /\ l[t].slot \in Indices /\ l[t].rec \in 1..ARR_SIZE
         /\ \A k \in Indices : log_arr'[k] = Nil <=> log_arr[k] = Nil
         /\ \A k \in Indices, a \in 1..ARR_SIZE : log_arr[k] # Nil =>
              log_arr'[k][a] = IF k = l[t].slot /\ a = l[t].rec
                               THEN [by |-> t, n |-> CallOf(t), whole |-> w]
                               ELSE log_arr[k][a]
<1> DEFINE k0 == l[t].slot
           a0 == l[t].rec
           r == [by |-> t, n |-> CallOf(t), whole |-> w]
           row == [log_arr[k0] EXCEPT ![a0] = r]
           Rows == [1..ARR_SIZE -> Records \cup {Raw}]
<1>1. k0 \in Indices /\ a0 \in 1..ARR_SIZE /\ log_arr[k0] \in Rows
  <2>1. l[t] \in [slot : Indices, rec : 0..ARR_SIZE]
    BY DEF TypeOK
  <2>2. a0 # 0 /\ log_arr[k0] # Nil
    BY DEF WriterInv, Writing
  <2>3. k0 \in Indices /\ a0 \in 0..ARR_SIZE
    BY <2>1
  <2>4. a0 \in 1..ARR_SIZE
    BY <2>2, <2>3, ProfAssumption
  <2>5. log_arr[k0] \in Rows \cup {Nil}
    BY <2>3 DEF TypeOK
  <2> QED  BY <2>2, <2>3, <2>4, <2>5
<1>2. r \in Records
  BY DEF CallOf, Records, TypeOK
<1>3. log_arr' = [log_arr EXCEPT ![k0] = row]
  BY DEF Put, CallOf
<1>4. row \in Rows /\ \A a \in 1..ARR_SIZE : row[a] = IF a = a0 THEN r ELSE log_arr[k0][a]
  BY <1>1, <1>2
<1>5. log_arr \in [Indices -> Rows \cup {Nil}] /\ Nil \notin Rows
  BY ProfAssumption DEF TypeOK
<1> HIDE DEF k0, a0, r, row, Rows
<1>6. log_arr' \in [Indices -> Rows \cup {Nil}]
  BY <1>1, <1>3, <1>4, <1>5
<1>7. \A k \in Indices : log_arr'[k] = IF k = k0 THEN row ELSE log_arr[k]
  BY <1>1, <1>3, <1>5
<1>8. \A k \in Indices : log_arr'[k] = Nil <=> log_arr[k] = Nil
  BY <1>1, <1>4, <1>5, <1>7
<1>9. \A k \in Indices, a \in 1..ARR_SIZE :
        log_arr'[k][a] = IF k = k0 /\ a = a0 THEN r ELSE log_arr[k][a]
  BY <1>4, <1>7
<1> QED  BY <1>1, <1>6, <1>8, <1>9 DEF k0, a0, r, Rows

(* The line that is dumped is a record of a slot in use.                   *)
LEMMA LineTypes ==
  ASSUME TypeOK, WriterInv, DumpInv, NEW t \in Threads, pc[t] = "dump",
         j[t] < log_index[i[t]]
  PROVE  /\ i[t] \in Slots /\ i[t] \in Indices /\ tids[i[t]] \in Threads
         /\ j[t] \in Nat /\ j[t] + 1 \in 1..ARR_SIZE /\ j[t] + 1 \in 0..ARR_SIZE
         /\ log_arr[i[t]] # Nil /\ log_arr[i[t]][j[t] + 1] \in Records \cup {Raw}
<1>1. i[t] \in Slots /\ i[t] \in Indices /\ tids[i[t]] \in Threads
  BY DEF DumpInv, Slots
<1>2. log_index[i[t]] \in 0..ARR_SIZE /\ j[t] \in 0..ARR_SIZE
  BY <1>1 DEF TypeOK
<1>3. j[t] \in Nat /\ j[t] + 1 \in 1..ARR_SIZE /\ j[t] + 1 \in 0..ARR_SIZE
  BY <1>2, ProfAssumption
<1>4. log_index[i[t]] # 0
  BY <1>2
<1>5. log_arr[i[t]] # Nil
  BY <1>1, <1>4 DEF WriterInv
<1>6. log_arr[i[t]] \in [1..ARR_SIZE -> Records \cup {Raw}]
  BY <1>1, <1>5 DEF TypeOK
<1> QED  BY <1>1, <1>3, <1>5, <1>6

(* Every step keeps the types.                                             *)
LEMMA NextTypeOK ==
  ASSUME TypeOK, SlotInv, WriterInv, DumpInv, [Next]_vars
  PROVE  TypeOK'
<1> USE DEF TypeOK, Goto, Places, slots, logs, cleanup, env
<1>0. 0 \in Indices /\ Indices = 0..MAX_TID-1
  BY ProfAssumption DEF Indices
<1>1. ASSUME NEW t \in Threads, Call(t)  PROVE TypeOK'
  <2>0. made' = [made EXCEPT ![t] = made[t] + 1]
        /\ pc' = [pc EXCEPT ![t] = IF in_trace[t] THEN "idle" ELSE "get_log"]
    BY <1>1 DEF Call
  <2>1. pc' \in [Threads -> Places] /\ made' \in [Threads -> Nat]
    BY <2>0
  <2> QED  BY <1>1, <2>1 DEF Call
<1>2. ASSUME NEW t \in Threads, GetLog(t) \/ Lock(t)  PROVE TypeOK'
  <2>1. CASE GetLog(t)
    BY <2>1 DEF GetLog
  <2>2. CASE Lock(t)
    BY <2>2 DEF Lock
  <2> QED  BY <1>2, <2>1, <2>2
<1>3. ASSUME NEW t \in Threads, Scan(t)  PROVE TypeOK'
  <2>1. PICK k \in FreeSlots : l' = [l EXCEPT ![t] = [slot |-> k, rec |-> 0]]
    BY <1>3 DEF Scan
  <2>2. [slot |-> k, rec |-> 0] \in [slot : Indices, rec : 0..ARR_SIZE]
    BY ProfAssumption DEF FreeSlots
  <2>3. l' \in [Threads -> [slot : Indices, rec : 0..ARR_SIZE]] /\ pc' \in [Threads -> Places]
    BY <1>3, <2>1, <2>2 DEF Scan
  <2> QED  BY <1>3, <2>3 DEF Scan
<1>4. ASSUME NEW t \in Threads, Claim(t)  PROVE TypeOK'
  BY SMTT(30), <1>4 DEF Claim, LockAfter, SlotInv, FreeSlots
<1>5. ASSUME NEW t \in Threads, TooMany(t)  PROVE TypeOK'
  BY <1>5 DEF TooMany
<1>6. ASSUME NEW t \in Threads, Reserve(t)  PROVE TypeOK'
  <2> DEFINE k == tid_index[t]
  <2>1. log_arr' \in [Indices -> [1..ARR_SIZE -> Records \cup {Raw}] \cup {Nil}]
    BY <1>6 DEF Reserve
  <2>2. log_index[k] \in 0..ARR_SIZE
    OBVIOUS
  <2>3. (IF IsFull(k) THEN 0 ELSE log_index[k] + 1) \in 0..ARR_SIZE
    BY <2>2, ProfAssumption DEF IsFull
  <2>4. l' \in [Threads -> [slot : Indices, rec : 0..ARR_SIZE]]
    BY <1>6, <2>3 DEF Reserve
  <2>5. pc' \in [Threads -> Places]
    BY <1>6 DEF Reserve
  <2> QED  BY <1>6, <2>1, <2>4, <2>5 DEF Reserve
<1>7. ASSUME NEW t \in Threads, Count(t)  PROVE TypeOK'
  <2>1. l[t].slot \in Indices /\ log_index[l[t].slot] + 1 \in 0..ARR_SIZE
    BY <1>7 DEF Count, WriterInv
  <2>2. log_index' \in [Indices -> 0..ARR_SIZE]
    BY <1>7, <2>1 DEF Count
  <2> QED  BY <1>7, <2>2 DEF Count
<1>8. ASSUME NEW t \in Threads, Fill(t)  PROVE TypeOK'
  <2>1. log_arr' \in [Indices -> [1..ARR_SIZE -> Records \cup {Raw}] \cup {Nil}]
    BY <1>8, PutTypes DEF Fill
  <2> QED  BY <1>8, <2>1 DEF Fill
<1>9. ASSUME NEW t \in Threads, Trace(t)  PROVE TypeOK'
  <2>1. log_arr' \in [Indices -> [1..ARR_SIZE -> Records \cup {Raw}] \cup {Nil}]
    BY <1>9, PutTypes DEF Trace
  <2> QED  BY <1>9, <2>1 DEF Trace, TraceFlag
<1>10. ASSUME NEW t \in Threads, Exit(t) \/ \E s \in Signals : Signal(t, s)  PROVE TypeOK'
  BY <1>10 DEF Exit, Signal
<1>11. ASSUME NEW t \in Threads, CleanupLock(t) \/ CleanupTest(t)  PROVE TypeOK'
  <2>1. CASE CleanupLock(t)
    BY <2>1 DEF CleanupLock
  <2>2. CASE CleanupTest(t)
    <3>1. /\ pc' \in [Threads -> Places] /\ prof_cleanup_lock' = Nil
          /\ proc' \in {"running", "exited", "killed"}
      BY <2>2 DEF CleanupTest, Finish
    <3>2. i' \in [Threads -> 1..MAX_TID] /\ prof_cleanup_done' \in BOOLEAN
      <4>1. 1 \in 1..MAX_TID
        BY ProfAssumption
      <4>2. CASE prof_cleanup_done
        BY <2>2, <4>2 DEF CleanupTest
      <4>3. CASE ~prof_cleanup_done
        BY <2>2, <4>1, <4>3 DEF CleanupTest, DoneAfter
      <4> QED  BY <4>2, <4>3
    <3> QED  BY <2>2, <3>1, <3>2 DEF CleanupTest
  <2> QED  BY <1>11, <2>1, <2>2
<1>12. ASSUME NEW t \in Threads, OpenFile(t) \/ OpenFails(t) \/ AllDumped(t)  PROVE TypeOK'
  <2>1. CASE OpenFile(t)
    <3>1. /\ pc' \in [Threads -> Places] /\ ret' \in [Threads -> {"idle", "dump", "next"}]
          /\ j' \in [Threads -> 0..ARR_SIZE]
      BY SMTT(30), <2>1, ProfAssumption DEF OpenFile, Nested
    <3> QED  BY <2>1, <3>1 DEF OpenFile
  <2>2. CASE OpenFails(t)
    BY <2>2 DEF OpenFails
  <2>3. CASE AllDumped(t)
    BY <2>3 DEF AllDumped, Finish
  <2> QED  BY <1>12, <2>1, <2>2, <2>3
<1>13. ASSUME NEW t \in Threads, DumpLine(t)  PROVE TypeOK'
  <2>1. /\ i[t] \in Indices /\ tids[i[t]] \in Threads
        /\ j[t] + 1 \in 1..ARR_SIZE /\ j[t] + 1 \in 0..ARR_SIZE
        /\ log_arr[i[t]][j[t] + 1] \in Records \cup {Raw}
    BY <1>13, LineTypes DEF DumpLine
  <2>4. files' \in [Threads -> Seq(Records \cup {Raw})]
    <3> DEFINE u == tids[i[t]]
               r == log_arr[i[t]][j[t] + 1]
    <3>1. Append(files[u], r) \in Seq(Records \cup {Raw})
      BY <2>1, AppendProperties
    <3>2. files' = [files EXCEPT ![u] = Append(files[u], r)]
      BY <1>13 DEF DumpLine
    <3> HIDE DEF u, r
    <3> QED  BY <3>1, <3>2
  <2> QED  BY <1>13, <2>1, <2>4 DEF DumpLine
<1>14. ASSUME NEW t \in Threads, DumpTorn(t) \/ CloseFile(t)  PROVE TypeOK'
  <2>1. CASE DumpTorn(t)
    BY <2>1 DEF DumpTorn
  <2>2. CASE CloseFile(t)
    <3>1. pc' \in [Threads -> Places] /\ ret' \in [Threads -> {"idle", "dump", "next"}]
      BY <2>2 DEF CloseFile, Nested
    <3> QED  BY <2>2, <3>1 DEF CloseFile
  <2> QED  BY <1>14, <2>1, <2>2
<1>15. ASSUME NEW t \in Threads, NextSlot(t)  PROVE TypeOK'
  <2>1. i[t] + 1 \in 1..MAX_TID
    <3>1. i[t] \in Slots
      BY <1>15 DEF NextSlot, DumpInv
    <3>2. \A k \in Slots : k + 1 \in 1..MAX_TID
      BY ProfAssumption DEF Slots, Indices
    <3> QED  BY <3>1, <3>2
  <2> QED  BY <1>15, <2>1 DEF NextSlot
<1>16. CASE UNCHANGED vars
  BY <1>16 DEF vars
<1> QED
  BY <1>1, <1>2, <1>3, <1>4, <1>5, <1>6, <1>7, <1>8, <1>9, <1>10, <1>11, <1>12, <1>13, <1>14,
     <1>15, <1>16
  DEF Next, Work

-----------------------------------------------------------------------------
(* The slots *)

(* A thread that is not searching the slots, and leaves them alone.        *)
LEMMA SlotFrame ==
  ASSUME TypeOK, SlotInv, UNCHANGED slots, NEW t \in Threads,
         pc'[t] \notin {"scan", "claim", "lock"},
         \A u \in Threads \ {t} : pc'[u] = pc[u] /\ l'[u] = l[u]
  PROVE  SlotInv'
BY DEF SlotInv, slots, FreeSlots

(* Every step keeps the invariant of the slots.                            *)
LEMMA NextSlotInv ==
  ASSUME TypeOK, SlotInv, [Next]_vars
  PROVE  SlotInv'
<1> USE DEF TypeOK, Goto
<1>1. ASSUME NEW t \in Threads, Call(t)  PROVE SlotInv'
  <2>1. pc' = [pc EXCEPT ![t] = IF in_trace[t] THEN "idle" ELSE "get_log"] /\ l' = l
        /\ UNCHANGED slots
    BY <1>1 DEF Call
  <2> QED  BY <2>1, SlotFrame
<1>2. ASSUME NEW t \in Threads, GetLog(t)  PROVE SlotInv'
  BY SMTT(30), <1>2 DEF GetLog, SlotInv, FreeSlots
<1>3. ASSUME NEW t \in Threads, Lock(t)  PROVE SlotInv'
  BY SMTT(30), <1>3, ProfAssumption DEF Lock, SlotInv, FreeSlots
<1>4. ASSUME NEW t \in Threads, Scan(t)  PROVE SlotInv'
  <2>1. PICK k \in FreeSlots : /\ \A m \in FreeSlots : k <= m
                               /\ l' = [l EXCEPT ![t] = [slot |-> k, rec |-> 0]]
    BY <1>4 DEF Scan
  <2>2. l'[t].slot = k /\ (\A u \in Threads \ {t} : l'[u] = l[u]) /\ FreeSlots' = FreeSlots
    BY <1>4, <2>1 DEF Scan, FreeSlots, slots
  <2> QED  BY <1>4, <2>1, <2>2 DEF Scan, SlotInv, slots
<1>5. ASSUME NEW t \in Threads, Claim(t)  PROVE SlotInv'
  <2> DEFINE k == l[t].slot
  <2>1. k \in FreeSlots /\ (\A m \in FreeSlots : k <= m) /\ lock = t
    BY <1>5 DEF Claim, SlotInv
  <2>2. /\ tids' = [tids EXCEPT ![k] = t] /\ tid_index' = [tid_index EXCEPT ![t] = k]
        /\ lock' = Nil /\ pc' = [pc EXCEPT ![t] = "reserve"] /\ pc[t] = "claim"
        /\ UNCHANGED <<tid, l>>
    BY <1>5 DEF Claim, LockAfter
  <2> HIDE DEF k
  <2>3. k \in Indices \ {0} /\ tids[k] = Nil /\ t # Nil
    BY <2>1, ProfAssumption DEF FreeSlots
  <2>4. \A m \in Indices \ {0} : tids'[m] = IF m = k THEN t ELSE tids[m]
    BY <2>2
  <2>5. \A u \in Threads : pc'[u] \notin {"scan", "claim"} /\ lock' # u
    BY <2>1, <2>2, ProfAssumption DEF SlotInv
  <2>6. \A u \in Threads : pc'[u] = "lock" => tid'[u]
    BY <2>2 DEF SlotInv
  <2>7. \A u \in Threads : tid_index'[u] # 0 => tids'[tid_index'[u]] = u
    <3> SUFFICES ASSUME NEW u \in Threads, tid_index'[u] # 0
                 PROVE  tids'[tid_index'[u]] = u
      OBVIOUS
    <3>1. CASE u = t
      BY <2>2, <2>3, <2>4, <3>1
    <3>2. CASE u # t
      <4>1. tid_index'[u] = tid_index[u] /\ tids[tid_index[u]] = u
        BY <2>2, <3>2 DEF SlotInv
      <4>2. tid_index[u] # k
        BY <2>3, <4>1, ProfAssumption
      <4> QED  BY <2>4, <4>1, <4>2
    <3> QED  BY <3>1, <3>2
  <2>8. \A a, m \in Slots : a < m /\ tids'[m] # Nil => tids'[a] # Nil
    <3> SUFFICES ASSUME NEW a \in Slots, NEW m \in Slots, a < m, tids'[m] # Nil
                 PROVE  tids'[a] # Nil
      OBVIOUS
    <3>0. a \in Indices \ {0} /\ m \in Indices \ {0} /\ a \in Nat /\ m \in Nat /\ k \in Nat
      BY <2>3 DEF Slots, Indices
    <3>1. CASE m = k
      <4>1. a \notin FreeSlots
        BY <2>1, <3>0, <3>1
      <4> QED  BY <2>3, <2>4, <3>0, <4>1 DEF FreeSlots
    <3>2. CASE m # k
      BY <2>3, <2>4, <3>0, <3>2 DEF SlotInv, Slots
    <3> QED  BY <3>1, <3>2
  <2> QED  BY <2>5, <2>6, <2>7, <2>8 DEF SlotInv
<1>6. ASSUME NEW t \in Threads, TooMany(t)  PROVE SlotInv'
  <2>1. UNCHANGED <<slots, l>>
    BY <1>6 DEF TooMany
  <2>2. \/ pc' = [pc EXCEPT ![t] = "cleanup"] \/ pc' = [pc EXCEPT ![t] = "stuck"]
        \/ pc[t] = "scan" /\ pc' = [pc EXCEPT ![t] = "scan"]
    BY <1>6 DEF TooMany
  <2>3. CASE pc' = [pc EXCEPT ![t] = "cleanup"] \/ pc' = [pc EXCEPT ![t] = "stuck"]
    <3>1. pc'[t] \in {"cleanup", "stuck"} /\ \A u \in Threads \ {t} : pc'[u] = pc[u]
      BY <2>3
    <3> QED  BY <2>1, <3>1, SlotFrame
  <2>4. CASE pc[t] = "scan" /\ pc' = [pc EXCEPT ![t] = "scan"]
    <3>1. \A u \in Threads : pc'[u] = pc[u]
      BY <2>4
    <3> QED  BY <2>1, <3>1 DEF SlotInv, slots, FreeSlots
  <2> QED  BY <2>2, <2>3, <2>4
<1>7. ASSUME NEW t \in Threads, Reserve(t)  PROVE SlotInv'
  <2>1. /\ pc' = [pc EXCEPT ![t] = IF IsFull(tid_index[t]) THEN ret[t] ELSE "count"]
        /\ (\A u \in Threads \ {t} : l'[u] = l[u]) /\ UNCHANGED slots
    BY <1>7 DEF Reserve
  <2>2. pc'[t] \notin {"scan", "claim", "lock"}
    BY <2>1
  <2> QED  BY <2>1, <2>2, SlotFrame
<1>8. ASSUME NEW t \in Threads, Count(t) \/ Fill(t) \/ Trace(t)  PROVE SlotInv'
  <2>1. /\ \E x \in {"fill", "trace", ret[t]} : pc' = [pc EXCEPT ![t] = x]
        /\ UNCHANGED <<slots, l>>
    BY <1>8 DEF Count, Fill, Trace
  <2>2. pc'[t] \notin {"scan", "claim", "lock"} /\ \A u \in Threads \ {t} : pc'[u] = pc[u]
    BY <2>1
  <2> QED  BY <2>1, <2>2, SlotFrame
<1>9. ASSUME NEW t \in Threads, Exit(t) \/ \E s \in Signals : Signal(t, s)  PROVE SlotInv'
  <2>1. /\ pc' = [pc EXCEPT ![t] = "cleanup"] \/ UNCHANGED pc
        /\ UNCHANGED <<slots, l>>
    BY <1>9 DEF Exit, Signal
  <2>2. CASE UNCHANGED pc
    BY <2>1, <2>2 DEF SlotInv, slots, FreeSlots
  <2>3. CASE pc' = [pc EXCEPT ![t] = "cleanup"]
    BY <2>1, <2>3, SlotFrame
  <2> QED  BY <2>1, <2>2, <2>3
<1>10. ASSUME NEW t \in Threads,
              CleanupLock(t) \/ CleanupTest(t) \/ NextSlot(t) \/ OpenFile(t) \/ CloseFile(t)
       PROVE  SlotInv'
  <2>1. /\ \E x \in {"test", "slot", "get_log", "dump", "next"} : pc' = [pc EXCEPT ![t] = x]
        /\ UNCHANGED <<slots, l>>
    BY <1>10 DEF CleanupLock, CleanupTest, NextSlot, OpenFile, CloseFile, Nested
  <2>2. pc'[t] \notin {"scan", "claim", "lock"} /\ \A u \in Threads \ {t} : pc'[u] = pc[u]
    BY <2>1
  <2> QED  BY <2>1, <2>2, SlotFrame
<1>11. ASSUME NEW t \in Threads, OpenFails(t) \/ AllDumped(t) \/ DumpLine(t) \/ DumpTorn(t)
       PROVE  SlotInv'
  <2>1. UNCHANGED <<slots, pc, l>>
    BY <1>11 DEF OpenFails, AllDumped, DumpLine, DumpTorn
  <2> QED  BY <2>1 DEF SlotInv, slots, FreeSlots
<1>12. CASE UNCHANGED vars
  BY <1>12 DEF vars, SlotInv, slots, FreeSlots
<1> QED
  BY <1>1, <1>2, <1>3, <1>4, <1>5, <1>6, <1>7, <1>8, <1>9, <1>10, <1>11, <1>12 DEF Next, Work

-----------------------------------------------------------------------------
(* The dumper *)

(* A step of a thread that neither starts nor ends a dump.                 *)
LEMMA DumperFrame ==
  ASSUME TypeOK, DumperInv, NEW t \in Threads, proc = "running",
         UNCHANGED <<ret, prof_cleanup_done, tid, tid_index>>,
         \A u \in Threads \ {t} : pc'[u] = pc[u],
         pc'[t] = "idle" => ret[t] = "idle",
         pc'[t] \in {"slot", "dump", "next"} => Dumper(t),
         ret[t] = "idle" /\ tid_index[t] = 0 =>
           /\ pc'[t] \notin {"reserve"} \cup Writing
           /\ pc'[t] \in {"idle", "get_log"} => ~tid[t]
  PROVE  DumperInv'
<1>1. \A u \in Threads : Dumper(u)' => Dumper(u)
  BY DEF Dumper
<1>2. \A t1, u \in Threads : Dumper(t1)' /\ Dumper(u)' => t1 = u
  BY <1>1 DEF DumperInv
<1>3. \A u \in Threads : /\ pc'[u] \in {"idle"} => ret'[u] = "idle"
                         /\ pc'[u] \in {"slot", "dump", "next"} => prof_cleanup_done'
                         /\ ret'[u] # "idle" => prof_cleanup_done'
  BY DEF DumperInv, Dumper
<1>4. \A u \in Threads : ret'[u] = "idle" /\ tid_index'[u] = 0 =>
        /\ pc'[u] \notin {"reserve"} \cup Writing
        /\ pc'[u] \in {"idle", "get_log"} => ~tid'[u]
  <2> SUFFICES ASSUME NEW u \in Threads, ret'[u] = "idle", tid_index'[u] = 0
               PROVE  /\ pc'[u] \notin {"reserve"} \cup Writing
                      /\ pc'[u] \in {"idle", "get_log"} => ~tid'[u]
    OBVIOUS
  <2>1. CASE u = t
    BY <2>1
  <2>2. CASE u # t
    BY <2>2 DEF DumperInv
  <2> QED  BY <2>1, <2>2
<1> QED  BY <1>2, <1>3, <1>4 DEF DumperInv

(* Every step keeps the invariant of the dumper.                           *)
LEMMA NextDumperInv ==
  ASSUME TypeOK, SlotInv, DumperInv, [Next]_vars
  PROVE  DumperInv'
<1> USE DEF TypeOK, Goto, Writing
<1>0. Next => proc = "running"
  BY DEF Next
<1>1. ASSUME NEW t \in Threads, Call(t), Next  PROVE DumperInv'
  <2>1. /\ pc' = [pc EXCEPT ![t] = IF in_trace[t] THEN "idle" ELSE "get_log"] /\ pc[t] = "idle"
        /\ UNCHANGED <<ret, prof_cleanup_done, tid, tid_index>>
    BY <1>1 DEF Call, slots, cleanup
  <2>2. ret[t] = "idle" /\ (tid_index[t] = 0 => ~tid[t])
    BY <2>1 DEF DumperInv
  <2>3. pc'[t] \in {"idle", "get_log"} /\ \A u \in Threads \ {t} : pc'[u] = pc[u]
    BY <2>1
  <2> QED  BY <1>0, <1>1, <2>1, <2>2, <2>3, DumperFrame
<1>2. ASSUME NEW t \in Threads, GetLog(t), Next  PROVE DumperInv'
  <2>1. /\ pc' = [pc EXCEPT ![t] = IF tid[t] THEN "reserve" ELSE "lock"] /\ pc[t] = "get_log"
        /\ tid' = [tid EXCEPT ![t] = TRUE]
        /\ UNCHANGED <<ret, prof_cleanup_done, tid_index>>
    BY <1>2 DEF GetLog, cleanup
  <2>2. ret[t] = "idle" /\ tid_index[t] = 0 => ~tid[t]
    BY <2>1 DEF DumperInv
  <2>3. /\ pc'[t] \in {"reserve", "lock"} /\ (pc'[t] = "reserve" => tid[t])
        /\ \A u \in Threads \ {t} : pc'[u] = pc[u] /\ tid'[u] = tid[u]
    BY <2>1
  <2>4. \A u \in Threads : Dumper(u)' = Dumper(u)
    BY <2>1, <2>3 DEF Dumper
  <2>5. \A t1, u \in Threads : Dumper(t1)' /\ Dumper(u)' => t1 = u
    BY <1>0, <1>2, <2>4 DEF DumperInv
  <2>6. \A u \in Threads : ret'[u] = "idle" /\ tid_index'[u] = 0 =>
          /\ pc'[u] \notin {"reserve"} \cup Writing
          /\ pc'[u] \in {"idle", "get_log"} => ~tid'[u]
    BY <2>1, <2>2, <2>3 DEF DumperInv
  <2> QED  BY <2>1, <2>3, <2>5, <2>6 DEF DumperInv
<1>3. ASSUME NEW t \in Threads, Lock(t) \/ Scan(t) \/ TooMany(t), Next  PROVE DumperInv'
  <2>1. /\ \E x \in {"scan", "claim", "cleanup", "stuck"} : pc' = [pc EXCEPT ![t] = x]
        /\ UNCHANGED <<ret, prof_cleanup_done, tid, tid_index>>
    BY <1>3 DEF Lock, Scan, TooMany, slots, cleanup
  <2>2. pc'[t] \in {"scan", "claim", "cleanup", "stuck"} /\ \A u \in Threads \ {t} : pc'[u] = pc[u]
    BY <2>1
  <2> QED  BY <1>0, <1>3, <2>1, <2>2, DumperFrame
<1>4. ASSUME NEW t \in Threads, Claim(t), Next  PROVE DumperInv'
  <2>1. /\ pc' = [pc EXCEPT ![t] = "reserve"] /\ pc[t] = "claim"
        /\ tid_index' = [tid_index EXCEPT ![t] = l[t].slot]
        /\ UNCHANGED <<ret, prof_cleanup_done, tid>>
    BY <1>4 DEF Claim, cleanup
  <2>2. l[t].slot # 0
    BY <2>1 DEF SlotInv, FreeSlots
  <2>3. pc'[t] = "reserve" /\ tid_index'[t] # 0
        /\ \A u \in Threads \ {t} : pc'[u] = pc[u] /\ tid_index'[u] = tid_index[u]
    BY <2>1, <2>2
  <2>4. \A u \in Threads : Dumper(u)' = Dumper(u)
    BY <2>1, <2>3 DEF Dumper
  <2>5. \A t1, u \in Threads : Dumper(t1)' /\ Dumper(u)' => t1 = u
    BY <1>0, <1>4, <2>4 DEF DumperInv
  <2>6. \A u \in Threads : ret'[u] = "idle" /\ tid_index'[u] = 0 =>
          /\ pc'[u] \notin {"reserve"} \cup Writing
          /\ pc'[u] \in {"idle", "get_log"} => ~tid'[u]
    BY <2>1, <2>3 DEF DumperInv
  <2> QED  BY <2>1, <2>3, <2>5, <2>6 DEF DumperInv
<1>5. ASSUME NEW t \in Threads, Reserve(t) \/ Count(t) \/ Fill(t) \/ Trace(t), Next
      PROVE  DumperInv'
  <2>1. /\ \E x \in {"count", "fill", "trace", ret[t]} : pc' = [pc EXCEPT ![t] = x]
        /\ pc[t] \in {"reserve"} \cup Writing
        /\ UNCHANGED <<ret, prof_cleanup_done, tid, tid_index>>
    BY <1>5 DEF Reserve, Count, Fill, Trace, slots, cleanup
  <2>2. ~(ret[t] = "idle" /\ tid_index[t] = 0)
    BY <2>1 DEF DumperInv
  <2>3. /\ pc'[t] \in {"count", "fill", "trace", ret[t]}
        /\ \A u \in Threads \ {t} : pc'[u] = pc[u]
    BY <2>1
  <2>4. pc'[t] \in {"slot", "dump", "next"} => Dumper(t)
    BY <2>3 DEF Dumper
  <2> QED  BY <1>0, <1>5, <2>1, <2>2, <2>3, <2>4, DumperFrame
<1>6. ASSUME NEW t \in Threads, Exit(t) \/ (\E s \in Signals : Signal(t, s)) \/ CleanupLock(t)
      PROVE  DumperInv'
  <2>1. /\ (\E x \in {"cleanup", "test"} : pc' = [pc EXCEPT ![t] = x]) \/ UNCHANGED pc
        /\ UNCHANGED <<ret, prof_cleanup_done, tid, tid_index>>
        /\ proc' = "running" => proc = "running"
    BY <1>6, <1>0 DEF Exit, Signal, CleanupLock, slots, env
  <2>2. \A u \in Threads : pc'[u] = pc[u] \/ pc'[u] \in {"cleanup", "test"}
    BY <2>1
  <2>3. \A u \in Threads : Dumper(u)' => Dumper(u)
    BY <2>1, <2>2 DEF Dumper
  <2> QED  BY <2>1, <2>2, <2>3 DEF DumperInv
<1>7. ASSUME NEW t \in Threads, CleanupTest(t), Next  PROVE DumperInv'
  <2>1. pc' = [pc EXCEPT ![t] = "slot"] /\ pc[t] = "test" /\ UNCHANGED <<ret, tid, tid_index>>
        /\ prof_cleanup_done'
    BY <1>7 DEF CleanupTest, DoneAfter, slots
  <2>2. pc'[t] = "slot" /\ \A u \in Threads \ {t} : pc'[u] = pc[u]
    BY <2>1
  <2>3. CASE prof_cleanup_done
    <3>1. proc' # "running"
      BY <1>7, <2>3 DEF CleanupTest, Finish
    <3> QED  BY <2>1, <2>2, <3>1 DEF DumperInv
  <2>4. CASE ~prof_cleanup_done
    <3>1. \A u \in Threads : ~Dumper(u)
      BY <2>4 DEF DumperInv, Dumper
    <3>2. \A u \in Threads : Dumper(u)' => u = t
      BY <2>1, <2>2, <3>1 DEF Dumper
    <3> QED  BY <2>1, <2>2, <3>2 DEF DumperInv
  <2> QED  BY <2>3, <2>4
<1>8. ASSUME NEW t \in Threads, OpenFile(t) \/ CloseFile(t), Next  PROVE DumperInv'
  <2>1. /\ pc[t] \in {"slot", "dump"}
        /\ \E x \in {"dump", "next"} :
             /\ ret' = [ret EXCEPT ![t] = x]
             /\ pc' = [pc EXCEPT ![t] = IF in_trace[t] THEN x ELSE "get_log"]
        /\ UNCHANGED <<prof_cleanup_done, tid, tid_index>>
    BY <1>8 DEF OpenFile, CloseFile, Nested, slots, cleanup
  <2>2. /\ pc'[t] \in {"dump", "next", "get_log"} /\ ret'[t] # "idle"
        /\ \A u \in Threads \ {t} : pc'[u] = pc[u] /\ ret'[u] = ret[u]
    BY <2>1
  <2>3. Dumper(t) /\ prof_cleanup_done
    BY <2>1 DEF Dumper, DumperInv
  <2>4. \A u \in Threads : Dumper(u)' => Dumper(u)
    BY <2>2, <2>3 DEF Dumper
  <2>5. \A t1, u \in Threads : Dumper(t1)' /\ Dumper(u)' => t1 = u
    BY <1>0, <1>8, <2>4 DEF DumperInv
  <2>6. \A u \in Threads : ret'[u] # "idle" => Dumper(u)'
    BY DEF Dumper
  <2>7. \A t1, u \in Threads : ret'[t1] # "idle" /\ ret'[u] # "idle" => t1 = u
    BY <2>5, <2>6
  <2>8. \A u \in Threads : ret'[u] = "idle" /\ tid_index'[u] = 0 =>
          /\ pc'[u] \notin {"reserve"} \cup Writing
          /\ pc'[u] \in {"idle", "get_log"} => ~tid'[u]
    BY <2>1, <2>2 DEF DumperInv
  <2> QED  BY <2>1, <2>2, <2>3, <2>5, <2>7, <2>8 DEF DumperInv
<1>9. ASSUME NEW t \in Threads, OpenFails(t) \/ AllDumped(t) \/ DumpLine(t) \/ DumpTorn(t), Next
      PROVE  DumperInv'
  <2>1. /\ UNCHANGED <<pc, ret, prof_cleanup_done, tid, tid_index>>
        /\ proc' = "running" => proc = "running"
    BY <1>0, <1>9 DEF OpenFails, AllDumped, DumpLine, DumpTorn, slots, cleanup
  <2> QED  BY <2>1 DEF DumperInv, Dumper
<1>10. ASSUME NEW t \in Threads, NextSlot(t), Next  PROVE DumperInv'
  <2>1. /\ pc' = [pc EXCEPT ![t] = "slot"] /\ pc[t] = "next"
        /\ UNCHANGED <<ret, prof_cleanup_done, tid, tid_index>>
    BY <1>10 DEF NextSlot, slots
  <2>2. pc'[t] = "slot" /\ Dumper(t) /\ \A u \in Threads \ {t} : pc'[u] = pc[u]
    BY <2>1 DEF Dumper
  <2> QED  BY <1>0, <1>10, <2>1, <2>2, DumperFrame
<1>11. CASE UNCHANGED vars
  BY <1>11 DEF vars, DumperInv, Dumper, slots, cleanup, env
<1> QED
  BY <1>1, <1>2, <1>3, <1>4, <1>5, <1>6, <1>7, <1>8, <1>9, <1>10, <1>11 DEF Next, Work

-----------------------------------------------------------------------------
(* The records *)

(* Two threads that write have an index each.                              *)
LEMMA OwnSlots ==
  ASSUME TypeOK, SlotInv, DumperInv,
         NEW t \in Threads, NEW u \in Threads,
         pc[t] \in {"reserve"} \cup Writing, pc[u] \in {"reserve"} \cup Writing,
         tid_index[t] = tid_index[u]
  PROVE  t = u
<1>1. CASE tid_index[t] # 0
  BY <1>1 DEF SlotInv
<1>2. CASE tid_index[t] = 0
  <2>1. ret[t] # "idle" /\ ret[u] # "idle"
    BY <1>2 DEF DumperInv
  <2> QED  BY <2>1 DEF DumperInv
<1> QED  BY <1>1, <1>2

(* The record a thread writes is one of its array.                         *)
LEMMA WriterCell ==
  ASSUME TypeOK, WriterInv, NEW t \in Threads, pc[t] \in Writing
  PROVE  /\ l[t].slot \in Indices /\ l[t].rec \in 1..ARR_SIZE
         /\ l[t].slot = tid_index[t] /\ log_arr[l[t].slot] # Nil
<1>1. l[t] \in [slot : Indices, rec : 0..ARR_SIZE]
  BY DEF TypeOK
<1>2. l[t].slot = tid_index[t] /\ l[t].rec # 0 /\ log_arr[l[t].slot] # Nil
  BY DEF WriterInv
<1>3. l[t].slot \in Indices /\ l[t].rec \in 0..ARR_SIZE
  BY <1>1
<1> QED  BY <1>2, <1>3, ProfAssumption

(* A step that leaves the arrays alone.                                    *)
LEMMA WriterFrame ==
  ASSUME TypeOK, WriterInv, UNCHANGED logs,
         \A u \in Threads : pc'[u] \in Writing =>
           /\ pc'[u] = pc[u] /\ l'[u] = l[u] /\ tid_index'[u] = tid_index[u]
           /\ ret'[u] = ret[u] /\ made'[u] = made[u]
  PROVE  WriterInv'
BY DEF WriterInv, logs, Cell, CallOf, Writing

(* A thread that writes, and what another's step may not change.           *)
LEMMA NextWriterInv ==
  ASSUME TypeOK, SlotInv, DumperInv, WriterInv, [Next]_vars
  PROVE  WriterInv'
<1> USE DEF TypeOK, Goto
<1>1. ASSUME NEW t \in Threads, Call(t)  PROVE WriterInv'
  <2>1. /\ pc' = [pc EXCEPT ![t] = IF in_trace[t] THEN "idle" ELSE "get_log"]
        /\ made' = [made EXCEPT ![t] = made[t] + 1]
        /\ UNCHANGED <<logs, l, tid_index, ret>>
    BY <1>1 DEF Call, slots
  <2>2. pc'[t] \notin Writing /\ \A u \in Threads \ {t} : pc'[u] = pc[u] /\ made'[u] = made[u]
    BY <2>1 DEF Writing
  <2> QED  BY <2>1, <2>2, WriterFrame
<1>2. ASSUME NEW t \in Threads, GetLog(t) \/ Lock(t) \/ Scan(t) \/ Claim(t) \/ TooMany(t)
      PROVE  WriterInv'
  <2>1. /\ \E x \in {"reserve", "lock", "scan", "claim", "cleanup", "stuck"} :
             pc' = [pc EXCEPT ![t] = x]
        /\ UNCHANGED <<logs, ret, made>>
        /\ \A u \in Threads \ {t} : l'[u] = l[u] /\ tid_index'[u] = tid_index[u]
    BY <1>2 DEF GetLog, Lock, Scan, Claim, TooMany, slots, env
  <2>2. pc'[t] \notin Writing /\ \A u \in Threads \ {t} : pc'[u] = pc[u]
    BY <2>1 DEF Writing
  <2> QED  BY <2>1, <2>2, WriterFrame
<1>3. ASSUME NEW t \in Threads, Reserve(t)  PROVE WriterInv'
  <2> DEFINE k == tid_index[t]
             new == [m \in 1..ARR_SIZE |-> Raw]
             Rows == [1..ARR_SIZE -> Records \cup {Raw}]
  <2>1. /\ pc[t] = "reserve" /\ pc' = [pc EXCEPT ![t] = IF IsFull(k) THEN ret[t] ELSE "count"]
        /\ log_arr' = IF log_arr[k] = Nil THEN [log_arr EXCEPT ![k] = new] ELSE log_arr
        /\ l' = [l EXCEPT ![t] = [slot |-> k, rec |-> IF IsFull(k) THEN 0 ELSE log_index[k] + 1]]
        /\ UNCHANGED <<log_index, tid_index, ret, made>>
    BY <1>3 DEF Reserve, slots, env
  <2>2. /\ k \in Indices /\ new \in Rows /\ new # Nil /\ log_index[k] \in 0..ARR_SIZE
        /\ \A m \in 1..ARR_SIZE : new[m] = Raw
    BY ProfAssumption
  <2> HIDE DEF k, new, Rows
  <2>3. \A m \in Indices : log_arr'[m] = IF m = k /\ log_arr[k] = Nil THEN new ELSE log_arr[m]
    BY <2>1, <2>2
  <2>4. /\ pc'[t] \in Writing => ~IsFull(k) /\ pc'[t] = "count"
        /\ \A u \in Threads \ {t} : pc'[u] = pc[u] /\ l'[u] = l[u]
        /\ l'[t].slot = k /\ (~IsFull(k) => l'[t].rec = log_index[k] + 1)
    BY <2>1 DEF Writing
  <2>5. \A m \in Indices :
          IF log_arr'[m] = Nil THEN log_index'[m] = 0
          ELSE \A a \in 1..ARR_SIZE : a > log_index'[m] => log_arr'[m][a] = Raw
    BY <2>1, <2>2, <2>3 DEF WriterInv
  <2>6. pc'[t] \in Writing => /\ pc'[t] = "count"
                              /\ l'[t].slot = tid_index'[t] /\ l'[t].rec # 0
                              /\ log_arr'[l'[t].slot] # Nil
                              /\ l'[t].rec = log_index'[l'[t].slot] + 1
    BY <2>1, <2>2, <2>3, <2>4 DEF k
  <2>7. \A u \in Threads \ {t} : pc'[u] \in Writing =>
          l'[u] = l[u] /\ pc'[u] = pc[u] /\ l[u].slot \in Indices
            /\ log_arr'[l[u].slot] = log_arr[l[u].slot]
    <3> SUFFICES ASSUME NEW u \in Threads \ {t}, pc'[u] \in Writing
                 PROVE  l'[u] = l[u] /\ pc'[u] = pc[u] /\ l[u].slot \in Indices
                          /\ log_arr'[l[u].slot] = log_arr[l[u].slot]
      OBVIOUS
    <3>1. l'[u] = l[u] /\ pc'[u] = pc[u]
      BY <2>4
    <3>2. l[u].slot \in Indices /\ log_arr[l[u].slot] # Nil
      BY <3>1, WriterCell
    <3> QED  BY <2>3, <3>1, <3>2
  <2>8. \A u \in Threads \ {t} : CallOf(u)' = CallOf(u)
    BY <2>1 DEF CallOf
  <2>9. \A u \in Threads \ {t} : pc'[u] \in Writing =>
          l'[u] = l[u] /\ pc'[u] = pc[u] /\ Cell(u)' = Cell(u)
            /\ log_arr'[l'[u].slot] = log_arr[l[u].slot]
    BY <2>7 DEF Cell
  <2> QED  BY SMTT(30), <2>1, <2>5, <2>6, <2>8, <2>9 DEF WriterInv, Writing
<1>4. ASSUME NEW t \in Threads, Count(t)  PROVE WriterInv'
  <2> DEFINE k == l[t].slot
  <2>1. /\ pc[t] = "count" /\ pc' = [pc EXCEPT ![t] = "fill"]
        /\ log_index' = [log_index EXCEPT ![k] = log_index[k] + 1]
        /\ UNCHANGED <<log_arr, l, tid_index, ret, made>>
    BY <1>4 DEF Count, slots, env
  <2>2. /\ l[t] \in [slot : Indices, rec : 0..ARR_SIZE]
        /\ k = tid_index[t] /\ log_arr[k] # Nil /\ l[t].rec # 0
        /\ l[t].rec = log_index[k] + 1
    BY <2>1 DEF WriterInv, Writing
  <2>3. k \in Indices /\ l[t].rec \in 1..ARR_SIZE /\ log_index[k] \in Nat
    BY <2>2
  <2>4. \A m \in Indices : log_index'[m] = IF m = k THEN log_index[k] + 1 ELSE log_index[m]
    BY <2>1
  <2>5. \A m \in Indices :
          IF log_arr'[m] = Nil THEN log_index'[m] = 0
          ELSE \A a \in 1..ARR_SIZE : a > log_index'[m] => log_arr'[m][a] = Raw
    BY <2>1, <2>2, <2>3, <2>4 DEF WriterInv
  <2>6. Cell(t) = Raw
    <3>1. l[t].rec > log_index[k]
      BY <2>2, <2>3
    <3>2. log_arr[k][l[t].rec] = Raw
      BY <2>2, <2>3, <3>1 DEF WriterInv
    <3> QED  BY <3>2 DEF Cell
  <2>7. \A u \in Threads \ {t} : pc'[u] = pc[u] /\ (pc[u] \in Writing => l[u].slot # k)
    <3> SUFFICES ASSUME NEW u \in Threads \ {t}
                 PROVE  pc'[u] = pc[u] /\ (pc[u] \in Writing => l[u].slot # k)
      OBVIOUS
    <3>1. pc[t] \in Writing
      BY <2>1 DEF Writing
    <3>2. pc[u] \in Writing => l[u].slot = tid_index[u] /\ tid_index[u] # tid_index[t]
      BY <3>1, WriterCell, OwnSlots
    <3> QED  BY <2>1, <2>2, <3>2
  <2>8. pc'[t] = "fill" /\ l'[t].rec <= log_index'[k] /\ \A u \in Threads : l[u].slot \in Indices
    BY <2>1, <2>2, <2>3, <2>4
  <2>9. \A u \in Threads : Cell(u)' = Cell(u) /\ CallOf(u)' = CallOf(u)
    BY <2>1 DEF Cell, CallOf
  <2> HIDE DEF k
  <2>10. /\ pc'[t] \in Writing => /\ l'[t].slot = tid_index'[t] /\ l'[t].rec # 0
                                  /\ log_arr'[l'[t].slot] # Nil
         /\ pc'[t] = "fill" /\ l'[t].rec <= log_index'[l'[t].slot] /\ Cell(t)' = Raw
    BY <2>1, <2>2, <2>6, <2>8, <2>9 DEF k
  <2>11. \A u \in Threads \ {t} : pc[u] \in Writing => log_index'[l[u].slot] = log_index[l[u].slot]
    BY <2>4, <2>7, <2>8
  <2> QED  BY SMTT(30), <2>1, <2>5, <2>7, <2>9, <2>10, <2>11 DEF WriterInv, Writing
<1>5. ASSUME NEW t \in Threads, Fill(t) \/ Trace(t)  PROVE WriterInv'
  <2> DEFINE k == l[t].slot
             a == l[t].rec
             w == pc[t] = "trace"
             r == [by |-> t, n |-> CallOf(t), whole |-> w]
  <2>1. /\ pc[t] \in {"fill", "trace"} /\ (w \in BOOLEAN) /\ Put(t, w)
        /\ pc' = [pc EXCEPT ![t] = IF w THEN ret[t] ELSE "trace"]
        /\ UNCHANGED <<log_index, l, tid_index, ret, made>>
    <3>1. CASE Fill(t)
      BY <3>1 DEF Fill, slots, env
    <3>2. CASE Trace(t)
      BY <3>2 DEF Trace, slots, env
    <3> QED  BY <1>5, <3>1, <3>2
  <2>2. /\ k \in Indices /\ a \in 1..ARR_SIZE
        /\ \A m \in Indices : log_arr'[m] = Nil <=> log_arr[m] = Nil
        /\ \A m \in Indices, b \in 1..ARR_SIZE : log_arr[m] # Nil =>
             log_arr'[m][b] = IF m = k /\ b = a THEN r ELSE log_arr[m][b]
    BY ZenonT(60), <2>1, PutTypes
  <2>3. k = tid_index[t] /\ log_arr[k] # Nil /\ a <= log_index[k] /\ log_index[k] \in Nat
    BY <2>1, <2>2 DEF WriterInv, Writing
  <2>4. r \in Records /\ r # Raw
    <3>1. CallOf(t) \in Nat
      BY DEF CallOf
    <3>2. r \in Records
      BY <2>1, <3>1 DEF Records
    <3> QED  BY <3>2, ProfAssumption
  <2>5. r.by = t /\ r.n = CallOf(t)
    OBVIOUS
  <2>6. \A u \in Threads : CallOf(u)' = CallOf(u)
    BY <2>1 DEF CallOf
  <2>7. pc'[t] \in Writing => pc'[t] = "trace"
    BY <2>1 DEF Writing
  <2>8. \A u \in Threads \ {t} : pc'[u] = pc[u] /\ (pc[u] \in Writing => l[u].slot # k)
    <3> SUFFICES ASSUME NEW u \in Threads \ {t}
                 PROVE  pc'[u] = pc[u] /\ (pc[u] \in Writing => l[u].slot # k)
      OBVIOUS
    <3>1. pc[t] \in Writing
      BY <2>1 DEF Writing
    <3>2. pc[u] \in Writing => l[u].slot = tid_index[u] /\ tid_index[u] # tid_index[t]
      BY <3>1, WriterCell, OwnSlots
    <3> QED  BY <2>1, <2>3, <3>2
  <2> HIDE DEF k, a, w, r
  <2>9. \A m \in Indices :
          IF log_arr'[m] = Nil THEN log_index'[m] = 0
          ELSE \A b \in 1..ARR_SIZE : b > log_index'[m] => log_arr'[m][b] = Raw
    <3> SUFFICES ASSUME NEW m \in Indices
                 PROVE  IF log_arr'[m] = Nil THEN log_index'[m] = 0
                        ELSE \A b \in 1..ARR_SIZE : b > log_index'[m] => log_arr'[m][b] = Raw
      OBVIOUS
    <3>1. log_index'[m] = log_index[m] /\ log_index[m] \in Nat
      BY <2>1
    <3>2. IF log_arr[m] = Nil THEN log_index[m] = 0
          ELSE \A b \in 1..ARR_SIZE : b > log_index[m] => log_arr[m][b] = Raw
      BY DEF WriterInv
    <3>3. CASE log_arr[m] = Nil
      BY <2>2, <3>1, <3>2, <3>3
    <3>4. CASE log_arr[m] # Nil
      <4> SUFFICES ASSUME NEW b \in 1..ARR_SIZE, b > log_index[m]  PROVE log_arr'[m][b] = Raw
        BY <2>2, <3>1, <3>4
      <4>1. ~(m = k /\ b = a)
        BY <2>2, <2>3
      <4> QED  BY <2>2, <3>2, <3>4, <4>1
    <3> QED  BY <3>3, <3>4
  <2>10. Cell(t)' = r
    BY <2>1, <2>2, <2>3 DEF Cell, k, a
  <2>11. pc'[t] \in Writing =>
           /\ pc'[t] = "trace" /\ l'[t].slot = tid_index'[t] /\ l'[t].rec # 0
           /\ log_arr'[l'[t].slot] # Nil /\ l'[t].rec <= log_index'[l'[t].slot]
           /\ Cell(t)' # Raw /\ Cell(t)'.by = t /\ Cell(t)'.n = CallOf(t)'
    BY <2>1, <2>2, <2>3, <2>4, <2>5, <2>6, <2>7, <2>10 DEF k, a
  <2>12. \A u \in Threads \ {t} : pc'[u] \in Writing =>
           /\ pc'[u] = pc[u] /\ log_arr'[l'[u].slot] # Nil /\ Cell(u)' = Cell(u)
    <3> SUFFICES ASSUME NEW u \in Threads \ {t}, pc'[u] \in Writing
                 PROVE  pc'[u] = pc[u] /\ log_arr'[l'[u].slot] # Nil /\ Cell(u)' = Cell(u)
      OBVIOUS
    <3>1. l[u] \in [slot : Indices, rec : 0..ARR_SIZE] /\ log_arr[l[u].slot] # Nil /\ l[u].rec # 0
          /\ l[u].slot # k /\ pc'[u] = pc[u]
      BY <2>8 DEF WriterInv
    <3>2. l[u].slot \in Indices /\ l[u].rec \in 1..ARR_SIZE
      BY <3>1, ProfAssumption
    <3> QED  BY <2>1, <2>2, <3>1, <3>2 DEF Cell
  <2> QED  BY <2>1, <2>6, <2>9, <2>11, <2>12 DEF WriterInv, Writing
<1>6. ASSUME NEW t \in Threads,
             \/ Exit(t) \/ \E s \in Signals : Signal(t, s)
             \/ CleanupLock(t) \/ CleanupTest(t) \/ NextSlot(t) \/ OpenFile(t) \/ CloseFile(t)
      PROVE  WriterInv'
  <2>1. /\ \/ \E x \in {"cleanup", "test", "slot", "get_log", "dump", "next"} :
                pc' = [pc EXCEPT ![t] = x]
           \/ UNCHANGED pc /\ UNCHANGED ret
        /\ UNCHANGED <<logs, l, tid_index, made>>
        /\ \A u \in Threads \ {t} : ret'[u] = ret[u]
    BY <1>6 DEF Exit, Signal, CleanupLock, CleanupTest, NextSlot, OpenFile, CloseFile, Nested,
                slots, env
  <2>2. \A u \in Threads : pc'[u] \in Writing => pc'[u] = pc[u] /\ ret'[u] = ret[u]
    BY <2>1 DEF Writing
  <2> QED  BY <2>1, <2>2, WriterFrame
<1>7. ASSUME NEW t \in Threads, OpenFails(t) \/ AllDumped(t) \/ DumpLine(t) \/ DumpTorn(t)
       PROVE  WriterInv'
  <2>1. UNCHANGED <<logs, l, tid_index, made, pc, ret>>
    BY <1>7 DEF OpenFails, AllDumped, DumpLine, DumpTorn, slots, env
  <2> QED  BY <2>1, WriterFrame
<1>8. CASE UNCHANGED vars
  <2>1. UNCHANGED <<logs, l, tid_index, made, pc, ret>>
    BY <1>8 DEF vars, slots, env
  <2> QED  BY <2>1, WriterFrame
<1> QED
  BY <1>1, <1>2, <1>3, <1>4, <1>5, <1>6, <1>7, <1>8 DEF Next, Work

-----------------------------------------------------------------------------
(* The calls *)

(* What fill_in_log and the trace leave in the arrays.                     *)
LEMMA Writes ==
  ASSUME TypeOK, WriterInv, NEW t \in Threads, Fill(t) \/ Trace(t),
         NEW k, k = l[t].slot, NEW a, a = l[t].rec
  PROVE  /\ k \in Indices /\ a \in 1..ARR_SIZE
         /\ \A m \in Indices, b \in 1..ARR_SIZE :
              Recorded(m, b)' <=> Recorded(m, b) \/ (m = k /\ b = a)
         /\ \A m \in Indices, b \in 1..ARR_SIZE :
              Recorded(m, b) /\ ~(m = k /\ b = a) => log_arr'[m][b] = log_arr[m][b]
         /\ log_arr'[k][a].by = t /\ log_arr'[k][a].n = CallOf(t)
         /\ pc[t] = "fill" => ~Recorded(k, a)
         /\ pc[t] # "fill" => Recorded(k, a) /\ Of(log_arr[k][a], t, CallOf(t))
<1> DEFINE w == pc[t] = "trace"
           r == [by |-> t, n |-> CallOf(t), whole |-> w]
<1>1. pc[t] \in {"fill", "trace"} /\ w \in BOOLEAN /\ Put(t, w)
  <2>1. CASE Fill(t)
    BY <2>1 DEF Fill, Goto
  <2>2. CASE Trace(t)
    BY <2>2 DEF Trace, Goto
  <2> QED  BY <2>1, <2>2
<1>2. /\ k \in Indices /\ a \in 1..ARR_SIZE
      /\ \A m \in Indices : log_arr'[m] = Nil <=> log_arr[m] = Nil
      /\ \A m \in Indices, b \in 1..ARR_SIZE : log_arr[m] # Nil =>
           log_arr'[m][b] = IF m = k /\ b = a THEN r ELSE log_arr[m][b]
  <2>1. /\ l[t].slot \in Indices /\ l[t].rec \in 1..ARR_SIZE
        /\ \A m \in Indices : log_arr'[m] = Nil <=> log_arr[m] = Nil
        /\ \A m \in Indices, b \in 1..ARR_SIZE : log_arr[m] # Nil =>
             log_arr'[m][b] = IF m = l[t].slot /\ b = l[t].rec THEN r ELSE log_arr[m][b]
    BY <1>1, PutTypes
  <2> HIDE DEF r
  <2> QED  BY <2>1
<1>3. log_arr[k] # Nil
  BY <1>1, WriterCell DEF Writing
<1>4. r \in Records /\ r # Raw
  <2>1. CallOf(t) \in Nat
    BY DEF CallOf, TypeOK
  <2>2. r \in Records
    BY <1>1, <2>1 DEF Records
  <2> QED  BY <2>2, ProfAssumption
<1>5. r.by = t /\ r.n = CallOf(t)
  OBVIOUS
<1>6. /\ pc[t] = "fill" => ~Recorded(k, a)
      /\ pc[t] # "fill" => Recorded(k, a) /\ Of(log_arr[k][a], t, CallOf(t))
  BY <1>1, <1>3 DEF WriterInv, Cell, Recorded, Of
<1> HIDE DEF w, r
<1>7. log_arr'[k][a] = r
  BY <1>2, <1>3
<1>8. \A m \in Indices, b \in 1..ARR_SIZE :
        Recorded(m, b)' <=> Recorded(m, b) \/ (m = k /\ b = a)
  <2> SUFFICES ASSUME NEW m \in Indices, NEW b \in 1..ARR_SIZE
               PROVE  Recorded(m, b)' <=> Recorded(m, b) \/ (m = k /\ b = a)
    OBVIOUS
  <2>1. CASE m = k /\ b = a
    BY <1>2, <1>3, <1>4, <1>7, <2>1 DEF Recorded
  <2>2. CASE ~(m = k /\ b = a)
    BY <1>2, <2>2 DEF Recorded
  <2> QED  BY <2>1, <2>2
<1>9. \A m \in Indices, b \in 1..ARR_SIZE :
        Recorded(m, b) /\ ~(m = k /\ b = a) => log_arr'[m][b] = log_arr[m][b]
  BY <1>2 DEF Recorded
<1> QED  BY <1>2, <1>5, <1>6, <1>7, <1>8, <1>9

(* The steps that write no record make none.                               *)
LEMMA NoRecord ==
  ASSUME TypeOK, NEW t \in Threads,
         \/ Call(t) \/ Exit(t) \/ \E s \in Signals : Signal(t, s)
         \/ Work(t) /\ ~Fill(t) /\ ~Trace(t)
  PROVE  \A m \in Indices, b \in 1..ARR_SIZE :
           /\ Recorded(m, b)' <=> Recorded(m, b)
           /\ Recorded(m, b) => log_arr'[m][b] = log_arr[m][b]
<1>1. CASE UNCHANGED log_arr
  BY <1>1 DEF Recorded
<1>2. CASE Reserve(t)
  <2> DEFINE k == tid_index[t]
             new == [m \in 1..ARR_SIZE |-> Raw]
  <2>1. log_arr' = IF log_arr[k] = Nil THEN [log_arr EXCEPT ![k] = new] ELSE log_arr
    BY <1>2 DEF Reserve
  <2>2. \A m \in 1..ARR_SIZE : new[m] = Raw
    OBVIOUS
  <2>3. k \in Indices
    BY DEF TypeOK
  <2> HIDE DEF k, new
  <2>4. \A m \in Indices : log_arr'[m] = IF m = k /\ log_arr[k] = Nil THEN new ELSE log_arr[m]
    BY <2>1, <2>3 DEF TypeOK
  <2> QED  BY <2>2, <2>4 DEF Recorded
<1>3. UNCHANGED log_arr \/ Reserve(t)
  BY DEF Work, Call, Exit, Signal, GetLog, Lock, Scan, Claim, TooMany, Count, CleanupLock,
         CleanupTest, OpenFile, OpenFails, AllDumped, DumpLine, DumpTorn, CloseFile, NextSlot, logs
<1> QED  BY <1>1, <1>2, <1>3

(* A record, once made, stays, of the same thread and call.                *)
LEMMA RecordsStay ==
  ASSUME TypeOK, WriterInv, [Next]_vars
  PROVE  \A m \in Indices, b \in 1..ARR_SIZE : Recorded(m, b) =>
           /\ Recorded(m, b)'
           /\ Of(log_arr'[m][b], log_arr[m][b].by, log_arr[m][b].n)
<1>1. ASSUME NEW t \in Threads, Fill(t) \/ Trace(t)
      PROVE  \A m \in Indices, b \in 1..ARR_SIZE : Recorded(m, b) =>
               /\ Recorded(m, b)'
               /\ Of(log_arr'[m][b], log_arr[m][b].by, log_arr[m][b].n)
  BY <1>1, Writes DEF Of
<1>2. ASSUME NEW t \in Threads,
             \/ Call(t) \/ Exit(t) \/ \E s \in Signals : Signal(t, s)
             \/ Work(t) /\ ~Fill(t) /\ ~Trace(t)
      PROVE  \A m \in Indices, b \in 1..ARR_SIZE : Recorded(m, b) =>
               /\ Recorded(m, b)'
               /\ Of(log_arr'[m][b], log_arr[m][b].by, log_arr[m][b].n)
  BY <1>2, NoRecord DEF Of
<1>3. CASE UNCHANGED vars
  BY <1>3 DEF vars, logs, Recorded, Of
<1> QED  BY <1>1, <1>2, <1>3 DEF Next

(* A thread in the hook of a call of the application whose record is not   *)
(* written yet.                                                            *)
Unwritten(t) == pc[t] \in InHook \ {"trace"} /\ ret[t] = "idle"

(* A step that makes no record and no call.                                *)
LEMMA CallFrame ==
  ASSUME CallInv, UNCHANGED made,
         \A m \in Indices, b \in 1..ARR_SIZE :
           /\ Recorded(m, b)' <=> Recorded(m, b)
           /\ Recorded(m, b) => log_arr'[m][b] = log_arr[m][b],
         \A u \in Threads : Unwritten(u)' => Unwritten(u)
  PROVE  CallInv'
<1>1. \A k, m \in Indices, a, b \in 1..ARR_SIZE :
        Recorded(k, a)' /\ Recorded(m, b)' /\ log_arr'[k][a].n # 0
          /\ log_arr'[k][a].by = log_arr'[m][b].by /\ log_arr'[k][a].n = log_arr'[m][b].n
          => k = m /\ a = b
  BY DEF CallInv
<1>2. \A k \in Indices, a \in 1..ARR_SIZE : Recorded(k, a)' =>
        /\ log_arr'[k][a].n <= made'[log_arr'[k][a].by]
        /\ \A t \in Threads : Unwritten(t)' => ~Of(log_arr'[k][a], t, made'[t])
  BY DEF CallInv, Of, Unwritten
<1> QED  BY <1>1, <1>2 DEF CallInv, Unwritten, Of

(* Every step keeps one record of each call.                               *)
LEMMA NextCallInv ==
  ASSUME TypeOK, DumperInv, WriterInv, CallInv, [Next]_vars
  PROVE  CallInv'
<1> USE DEF Goto
<1>1. ASSUME NEW t \in Threads, Call(t)  PROVE CallInv'
  <2>1. /\ pc' = [pc EXCEPT ![t] = IF in_trace[t] THEN "idle" ELSE "get_log"]
        /\ made' = [made EXCEPT ![t] = made[t] + 1]
        /\ UNCHANGED <<log_arr, ret>>
    BY <1>1 DEF Call, logs
  <2>2. \A u \in Threads : made[u] \in Nat /\ made'[u] = IF u = t THEN made[u] + 1 ELSE made[u]
    BY <2>1 DEF TypeOK
  <2>3. \A u \in Threads \ {t} : pc'[u] = pc[u]
    BY <2>1 DEF TypeOK
  <2>4. \A k \in Indices, a \in 1..ARR_SIZE : Recorded(k, a) =>
          log_arr[k][a] \in Records /\ log_arr[k][a].by \in Threads /\ log_arr[k][a].n \in Nat
    <3> SUFFICES ASSUME NEW k \in Indices, NEW a \in 1..ARR_SIZE, Recorded(k, a)
                 PROVE  log_arr[k][a] \in Records /\ log_arr[k][a].by \in Threads
                          /\ log_arr[k][a].n \in Nat
      OBVIOUS
    <3>1. log_arr[k][a] \in Records
      <4>1. log_arr[k] \in [1..ARR_SIZE -> Records \cup {Raw}] \cup {Nil}
        BY DEF TypeOK
      <4> QED  BY <4>1 DEF Recorded
    <3> QED  BY <3>1 DEF Records
  <2>5. \A k \in Indices, a \in 1..ARR_SIZE : Recorded(k, a)' =>
          /\ log_arr'[k][a].n <= made'[log_arr'[k][a].by]
          /\ \A u \in Threads : Unwritten(u)' => ~Of(log_arr'[k][a], u, made'[u])
    <3> SUFFICES ASSUME NEW k \in Indices, NEW a \in 1..ARR_SIZE, Recorded(k, a)'
                 PROVE  /\ log_arr'[k][a].n <= made'[log_arr'[k][a].by]
                        /\ \A u \in Threads : Unwritten(u)' => ~Of(log_arr'[k][a], u, made'[u])
      OBVIOUS
    <3>1. Recorded(k, a) /\ log_arr'[k][a] = log_arr[k][a]
      BY <2>1 DEF Recorded
    <3>2. log_arr[k][a].n <= made[log_arr[k][a].by]
      BY <3>1 DEF CallInv
    <3>3. log_arr[k][a].by \in Threads /\ log_arr[k][a].n \in Nat
      BY <2>4, <3>1
    <3>4. log_arr[k][a].n <= made'[log_arr[k][a].by]
      BY <2>2, <3>2, <3>3
    <3>5. ASSUME NEW u \in Threads, Unwritten(u)'  PROVE ~Of(log_arr[k][a], u, made'[u])
      <4>1. CASE u = t
        BY <2>2, <3>2, <3>3, <4>1 DEF Of
      <4>2. CASE u # t
        BY <2>1, <2>2, <2>3, <3>1, <3>5, <4>2 DEF CallInv, Unwritten
      <4> QED  BY <4>1, <4>2
    <3> QED  BY <3>1, <3>4, <3>5
  <2>6. \A k, m \in Indices, a, b \in 1..ARR_SIZE :
          Recorded(k, a)' /\ Recorded(m, b)' /\ log_arr'[k][a].n # 0
            /\ log_arr'[k][a].by = log_arr'[m][b].by /\ log_arr'[k][a].n = log_arr'[m][b].n
            => k = m /\ a = b
    BY <2>1 DEF CallInv, Recorded
  <2> QED  BY <2>5, <2>6 DEF CallInv, Unwritten, Of
<1>2. ASSUME NEW t \in Threads, Fill(t) \/ Trace(t)  PROVE CallInv'
  <2> DEFINE k0 == l[t].slot
             a0 == l[t].rec
             Ours(m, b) == m = k0 /\ b = a0
  <2>1. /\ k0 \in Indices /\ a0 \in 1..ARR_SIZE
        /\ \A m \in Indices, b \in 1..ARR_SIZE :
             Recorded(m, b)' <=> Recorded(m, b) \/ Ours(m, b)
        /\ \A m \in Indices, b \in 1..ARR_SIZE :
             Recorded(m, b) /\ ~Ours(m, b) => log_arr'[m][b] = log_arr[m][b]
        /\ log_arr'[k0][a0].by = t /\ log_arr'[k0][a0].n = CallOf(t)
        /\ pc[t] = "fill" => ~Recorded(k0, a0)
        /\ pc[t] # "fill" => Recorded(k0, a0) /\ Of(log_arr[k0][a0], t, CallOf(t))
    BY <1>2, Writes
  <2>2. /\ pc[t] \in {"fill", "trace"} /\ UNCHANGED <<made, ret>>
        /\ pc' = [pc EXCEPT ![t] = IF pc[t] = "fill" THEN "trace" ELSE ret[t]]
    <3>1. CASE Fill(t)
      BY <3>1 DEF Fill, env
    <3>2. CASE Trace(t)
      BY <3>2 DEF Trace, env
    <3> QED  BY <1>2, <3>1, <3>2
  <2>3. /\ \A u \in Threads : Unwritten(u)' => Unwritten(u) /\ u # t
    <3>1. pc'[t] \notin InHook \ {"trace"} /\ \A u \in Threads \ {t} : pc'[u] = pc[u]
      BY <2>2 DEF TypeOK, InHook
    <3> QED  BY <2>2, <3>1 DEF Unwritten
  <2>4. pc[t] = "fill" /\ ret[t] = "idle" => Unwritten(t) /\ CallOf(t) = made[t]
    BY DEF Unwritten, InHook, CallOf
  <2>5. CallOf(t) # 0 => ret[t] = "idle" /\ CallOf(t) = made[t]
    BY DEF CallOf
  <2> HIDE DEF k0, a0
  (* No other record is of this call. *)
  <2>6. \A m \in Indices, b \in 1..ARR_SIZE :
          Recorded(m, b) /\ ~Ours(m, b) /\ CallOf(t) # 0 => ~Of(log_arr[m][b], t, CallOf(t))
    <3> SUFFICES ASSUME NEW m \in Indices, NEW b \in 1..ARR_SIZE, Recorded(m, b), ~Ours(m, b),
                        CallOf(t) # 0
                 PROVE  ~Of(log_arr[m][b], t, CallOf(t))
      OBVIOUS
    <3>1. CASE pc[t] = "fill"
      <4>1. Unwritten(t) /\ CallOf(t) = made[t]
        BY <2>4, <2>5, <3>1
      <4> QED  BY <4>1 DEF CallInv, Unwritten
    <3>2. CASE pc[t] # "fill"
      BY <2>1, <3>2 DEF CallInv, Of
    <3> QED  BY <3>1, <3>2
  <2>7. \A k, m \in Indices, a, b \in 1..ARR_SIZE :
          Recorded(k, a)' /\ Recorded(m, b)' /\ log_arr'[k][a].n # 0
            /\ log_arr'[k][a].by = log_arr'[m][b].by /\ log_arr'[k][a].n = log_arr'[m][b].n
            => k = m /\ a = b
    <3> SUFFICES ASSUME NEW k \in Indices, NEW m \in Indices,
                        NEW a \in 1..ARR_SIZE, NEW b \in 1..ARR_SIZE,
                        Recorded(k, a)', Recorded(m, b)', log_arr'[k][a].n # 0,
                        log_arr'[k][a].by = log_arr'[m][b].by,
                        log_arr'[k][a].n = log_arr'[m][b].n
                 PROVE  k = m /\ a = b
      OBVIOUS
    <3>1. CASE Ours(k, a) /\ Ours(m, b)
      BY <3>1
    <3>2. CASE Ours(k, a) /\ ~Ours(m, b)
      BY <2>1, <2>6, <3>2 DEF Of
    <3>3. CASE ~Ours(k, a) /\ Ours(m, b)
      BY <2>1, <2>6, <3>3 DEF Of
    <3>4. CASE ~Ours(k, a) /\ ~Ours(m, b)
      BY <2>1, <3>4 DEF CallInv
    <3> QED  BY <3>1, <3>2, <3>3, <3>4
  <2>8. \A k \in Indices, a \in 1..ARR_SIZE : Recorded(k, a)' =>
          /\ log_arr'[k][a].n <= made'[log_arr'[k][a].by]
          /\ \A u \in Threads : Unwritten(u)' => ~Of(log_arr'[k][a], u, made'[u])
    <3> SUFFICES ASSUME NEW k \in Indices, NEW a \in 1..ARR_SIZE, Recorded(k, a)'
                 PROVE  /\ log_arr'[k][a].n <= made'[log_arr'[k][a].by]
                        /\ \A u \in Threads : Unwritten(u)' => ~Of(log_arr'[k][a], u, made'[u])
      OBVIOUS
    <3>1. CASE Ours(k, a)
      <4>1. made[t] \in Nat
        BY DEF TypeOK
      <4>2. CallOf(t) <= made[t]
        BY <4>1 DEF CallOf
      <4> QED  BY <2>1, <2>2, <2>3, <3>1, <4>2 DEF Of
    <3>2. CASE ~Ours(k, a)
      BY <2>1, <2>2, <2>3, <3>2 DEF CallInv, Unwritten
    <3> QED  BY <3>1, <3>2
  <2> QED  BY <2>7, <2>8 DEF CallInv, Unwritten, Of
<1>3. ASSUME NEW t \in Threads,
             \/ Exit(t) \/ \E s \in Signals : Signal(t, s)
             \/ Work(t) /\ ~Fill(t) /\ ~Trace(t)
      PROVE  CallInv'
  <2>1. UNCHANGED made
    BY <1>3 DEF Work, Exit, Signal, GetLog, Lock, Scan, Claim, TooMany, Reserve, Count, CleanupLock,
         CleanupTest, OpenFile, OpenFails, AllDumped, DumpLine, DumpTorn, CloseFile, NextSlot, env
  <2>2. \A u \in Threads : Unwritten(u)' => Unwritten(u)
    <3> USE DEF TypeOK, Unwritten, InHook
    <3>1. CASE Exit(t) \/ \E s \in Signals : Signal(t, s)
      <4>1. CASE Exit(t)
        BY <4>1 DEF Exit
      <4>2. ASSUME NEW q \in Signals, Signal(t, q)  PROVE \A u \in Threads : Unwritten(u)' => Unwritten(u)
        BY <4>2 DEF Signal
      <4> QED  BY <3>1, <4>1, <4>2
    <3>2. CASE GetLog(t) \/ Lock(t) \/ Scan(t) \/ Claim(t) \/ TooMany(t) \/ Count(t)
      BY <3>2 DEF GetLog, Lock, Scan, Claim, TooMany, Count
    <3>3. CASE Reserve(t)
      <4>1. /\ pc' = [pc EXCEPT ![t] = IF IsFull(tid_index[t]) THEN ret[t] ELSE "count"]
            /\ ret' = ret /\ pc[t] = "reserve"
        BY <3>3 DEF Reserve
      <4> QED  BY <4>1
    <3>4. CASE CleanupLock(t) \/ CleanupTest(t) \/ NextSlot(t)
      BY <3>4 DEF CleanupLock, CleanupTest, NextSlot
    <3>5. CASE OpenFile(t) \/ CloseFile(t)
      <4>1. \E x \in {"dump", "next"} :
              /\ ret' = [ret EXCEPT ![t] = x]
              /\ pc' = [pc EXCEPT ![t] = IF in_trace[t] THEN x ELSE "get_log"]
        BY <3>5 DEF OpenFile, CloseFile, Nested
      <4> QED  BY <4>1
    <3>6. CASE OpenFails(t) \/ AllDumped(t) \/ DumpLine(t) \/ DumpTorn(t)
      BY <3>6 DEF OpenFails, AllDumped, DumpLine, DumpTorn
    <3> QED  BY <1>3, <3>1, <3>2, <3>3, <3>4, <3>5, <3>6 DEF Work
  <2> QED  BY <1>3, <2>1, <2>2, NoRecord, CallFrame
<1>4. CASE UNCHANGED vars
  BY <1>4 DEF vars, logs, env, CallInv, Recorded, Of
<1> QED
  BY <1>1, <1>2, <1>3, <1>4 DEF Next

-----------------------------------------------------------------------------
(* The dump *)

(* A thread is at a slot, or in a hook the dump of that slot called.       *)
InDump(t) == pc[t] \in {"dump", "next"} \/ (ret[t] # "idle" /\ pc[t] \in InHook)

(* The slot that is dumped is one in use, and stays so.                    *)
LEMMA NextLoop ==
  ASSUME TypeOK, SlotInv, DumperInv, DumpInv, [Next]_vars
  PROVE  \A t \in Threads : InDump(t)' => i'[t] \in Slots /\ tids'[i'[t]] \in Threads
<1> DEFINE Used(k) == k \in Slots /\ tids[k] \in Threads
<1>00. \A k \in 1..MAX_TID : k < MAX_TID => k \in Indices \ {0}
  BY ProfAssumption DEF Indices
<1> USE DEF TypeOK, Goto
<1>0. \A t \in Threads : InDump(t) => Used(i[t])
  BY DEF DumpInv, InDump
<1>1. \A k : Used(k) => k \in Slots /\ tids'[k] \in Threads
  <2>1. ASSUME NEW t \in Threads, Claim(t)  PROVE \A k : Used(k) => tids'[k] \in Threads
    BY <2>1 DEF Claim, Slots
  <2>2. ASSUME NEW t \in Threads, ~Claim(t),
               Call(t) \/ Exit(t) \/ Work(t) \/ \E s \in Signals : Signal(t, s)
        PROVE  UNCHANGED tids
    BY <2>2 DEF Work, Call, Exit, Signal, GetLog, Lock, Scan, TooMany, Reserve, Count, Fill, Trace,
         CleanupLock, CleanupTest, OpenFile, OpenFails, AllDumped, DumpLine, DumpTorn, CloseFile,
         NextSlot, slots
  <2>3. CASE UNCHANGED vars
    BY <2>3 DEF vars, slots
  <2> QED  BY <2>1, <2>2, <2>3 DEF Next
<1>2. ASSUME NEW t \in Threads, OpenFile(t)
      PROVE  \A u \in Threads : InDump(u)' => i'[u] \in Slots /\ tids'[i'[u]] \in Threads
  <2>1. Used(i[t])
    <3>1. i[t] \in 1..MAX_TID /\ i[t] < MAX_TID /\ tids[i[t]] # Nil
      BY <1>2 DEF OpenFile, IsUsed
    <3>2. i[t] \in Indices \ {0}
      BY <1>00, <3>1
    <3> QED  BY <3>1, <3>2 DEF Slots
  <2>2. /\ i' = i
        /\ \A u \in Threads \ {t} : InDump(u)' => InDump(u)
    BY <1>2 DEF OpenFile, Nested, InDump
  <2> HIDE DEF Used
  <2>3. \A u \in Threads : InDump(u)' => Used(i[u])
    BY <1>0, <2>1, <2>2
  <2> QED  BY <1>1, <2>2, <2>3
<1>3. ASSUME NEW t \in Threads,
             Call(t) \/ Exit(t) \/ Work(t) \/ \E s \in Signals : Signal(t, s), ~OpenFile(t)
      PROVE  \A u \in Threads : InDump(u)' => InDump(u) /\ i'[u] = i[u]
  <2> USE DEF InDump, InHook
  <2>1. CASE Call(t)
    <3>1. /\ pc' = [pc EXCEPT ![t] = IF in_trace[t] THEN "idle" ELSE "get_log"]
          /\ UNCHANGED <<ret, i>> /\ pc[t] = "idle"
      BY <2>1 DEF Call, cleanup
    <3>2. ret[t] = "idle"
      BY <3>1 DEF DumperInv
    <3> QED  BY <3>1, <3>2
  <2>2. CASE Exit(t) \/ \E s \in Signals : Signal(t, s)
    BY <2>2 DEF Exit, Signal
  <2>3. CASE GetLog(t) \/ Lock(t) \/ Scan(t) \/ Claim(t) \/ TooMany(t) \/ Count(t) \/ Fill(t)
    BY ZenonT(60), <2>3 DEF GetLog, Lock, Scan, Claim, TooMany, Count, Fill, cleanup
  <2>4. CASE Reserve(t) \/ Trace(t)
    <3>1. /\ \E x \in {"count", ret[t]} : pc' = [pc EXCEPT ![t] = x]
          /\ UNCHANGED <<ret, i>> /\ pc[t] \in {"reserve", "trace"}
      BY <2>4 DEF Reserve, Trace, cleanup
    <3> QED  BY <3>1
  <2>5. CASE CleanupLock(t) \/ CleanupTest(t) \/ NextSlot(t)
    <3>1. /\ \E x \in {"test", "slot"} : pc' = [pc EXCEPT ![t] = x]
          /\ UNCHANGED ret /\ \A u \in Threads \ {t} : i'[u] = i[u]
      BY <2>5 DEF CleanupLock, CleanupTest, NextSlot
    <3> QED  BY <3>1
  <2>6. CASE CloseFile(t)
    <3>1. /\ pc[t] = "dump" /\ i' = i /\ ret' = [ret EXCEPT ![t] = "next"]
          /\ \E x \in Places : pc' = [pc EXCEPT ![t] = x]
      BY <2>6 DEF CloseFile, Nested, cleanup, Places
    <3> QED  BY <3>1
  <2>7. CASE OpenFails(t) \/ AllDumped(t) \/ DumpLine(t) \/ DumpTorn(t)
    BY <2>7 DEF OpenFails, AllDumped, DumpLine, DumpTorn, cleanup
  <2> QED  BY <1>3, <2>1, <2>2, <2>3, <2>4, <2>5, <2>6, <2>7 DEF Work
<1>4. CASE UNCHANGED vars
  BY <1>0, <1>1, <1>4 DEF vars, slots, cleanup, InDump
<1> HIDE DEF Used
<1>5. ASSUME NEW t \in Threads,
             Call(t) \/ Exit(t) \/ Work(t) \/ \E s \in Signals : Signal(t, s), ~OpenFile(t)
      PROVE  \A u \in Threads : InDump(u)' => i'[u] \in Slots /\ tids'[i'[u]] \in Threads
  BY <1>0, <1>1, <1>3, <1>5
<1> QED  BY <1>2, <1>4, <1>5 DEF Next

(* A line is of a record that the dump has passed.                         *)
Passed(d) ==
  \A t \in Threads : \A x \in DOMAIN files[t] : files[t][x] # Raw =>
    \E k \in Indices, a \in 1..ARR_SIZE :
      /\ Behind(d, k, a) /\ Recorded(k, a)
      /\ Of(log_arr[k][a], files[t][x].by, files[t][x].n)

(* A step that dumps nothing: what was behind the dump stays there.        *)
LEMMA PassedFrame ==
  ASSUME TypeOK, WriterInv, [Next]_vars, UNCHANGED files,
         NEW d \in Threads, Passed(d),
         \A k \in Indices, a \in 1..ARR_SIZE : Behind(d, k, a) => Behind(d, k, a)'
  PROVE  Passed(d)'
<1> SUFFICES ASSUME NEW t \in Threads, NEW x \in DOMAIN files[t], files[t][x] # Raw
             PROVE  \E k \in Indices, a \in 1..ARR_SIZE :
                      /\ Behind(d, k, a)' /\ Recorded(k, a)'
                      /\ Of(log_arr'[k][a], files[t][x].by, files[t][x].n)
  BY DEF Passed, Of
<1>1. PICK k \in Indices, a \in 1..ARR_SIZE :
        /\ Behind(d, k, a) /\ Recorded(k, a)
        /\ Of(log_arr[k][a], files[t][x].by, files[t][x].n)
  BY DEF Passed
<1>2. Recorded(k, a)' /\ Of(log_arr'[k][a], log_arr[k][a].by, log_arr[k][a].n)
  BY <1>1, RecordsStay
<1> QED  BY <1>1, <1>2 DEF Of

(* The line that a step adds is of a record no line was of.                *)
LEMMA LineIsNew ==
  ASSUME TypeOK, DumperInv, WriterInv, CallInv, DumpInv, DumpedOnce, Next,
         NEW d \in Threads, DumpLine(d), NEW k0, k0 = i[d], NEW a0, a0 = j[d] + 1
  PROVE  Passed(d)' /\ DumpedOnce'
<1> DEFINE u == tids[k0]
           r == log_arr[k0][a0]
           n == Len(files[u])
<1>1. /\ pc[d] = "dump" /\ j[d] < log_index[k0]
      /\ files' = [files EXCEPT ![u] = Append(files[u], r)]
      /\ j' = [j EXCEPT ![d] = j[d] + 1]
      /\ UNCHANGED <<log_arr, i, pc>>
  BY DEF DumpLine, logs
<1>2. /\ k0 \in Indices /\ u \in Threads /\ a0 \in 1..ARR_SIZE /\ j[d] \in Nat
      /\ log_arr[k0] # Nil /\ r \in Records \cup {Raw}
  BY <1>1, LineTypes
<1>3. Passed(d)
  <2>1. Dumper(d) /\ proc = "running"
    BY <1>1 DEF Dumper, Next
  <2> QED  BY <2>1 DEF DumpInv, Passed
<1>4. files[u] \in Seq(Records \cup {Raw}) /\ files \in [Threads -> Seq(Records \cup {Raw})]
  BY <1>2 DEF TypeOK
<1>5. k0 \in Nat /\ a0 = j[d] + 1
  BY <1>2 DEF Indices
<1>6. r # Raw => Recorded(k0, a0) /\ ~Behind(d, k0, a0)
  BY <1>2, <1>5 DEF Recorded, Behind
<1>7. i'[d] = k0 /\ j'[d] = a0 /\ pc'[d] = "dump"
  BY <1>1 DEF TypeOK
<1>8. \A k \in Indices, a \in 1..ARR_SIZE : /\ Recorded(k, a)' = Recorded(k, a)
                                            /\ Behind(d, k, a) => Behind(d, k, a)'
  <2>1. \A a \in 1..ARR_SIZE : a \in Nat
    OBVIOUS
  <2> QED  BY <1>1, <1>2, <1>7, <2>1 DEF Recorded, Behind
<1>9. Behind(d, k0, a0)'
  BY <1>2, <1>7 DEF Behind
<1> HIDE DEF u, r, n
<1>10. /\ DOMAIN files'[u] = 1..n+1 /\ DOMAIN files[u] = 1..n /\ n \in Nat
       /\ files'[u][n+1] = r /\ \A x \in 1..n : files'[u][x] = files[u][x]
       /\ \A t \in Threads \ {u} : files'[t] = files[t]
  BY <1>1, <1>2, <1>4, AppendProperties, LenProperties DEF n
<1>11. ASSUME NEW t \in Threads, NEW x \in DOMAIN files'[t], files'[t][x] # Raw
       PROVE  \E k \in Indices, a \in 1..ARR_SIZE :
                /\ Behind(d, k, a)' /\ Recorded(k, a)'
                /\ Of(log_arr'[k][a], files'[t][x].by, files'[t][x].n)
  <2>1. CASE t = u /\ x = n+1
    <3>1. files'[t][x] = r /\ r = log_arr'[k0][a0]
      BY <1>1, <1>10, <2>1 DEF r
    <3>2. Recorded(k0, a0)' /\ Of(log_arr'[k0][a0], files'[t][x].by, files'[t][x].n)
      BY <1>2, <1>6, <1>8, <1>11, <3>1 DEF Of
    <3> QED  BY <1>2, <1>9, <3>2
  <2>2. CASE ~(t = u /\ x = n+1)
    <3>1. x \in DOMAIN files[t] /\ files'[t][x] = files[t][x]
      <4>1. CASE t # u
        BY <1>10, <1>11, <4>1
      <4>2. CASE t = u
        <5>1. x \in 1..n+1 /\ x # n+1
          BY <1>10, <1>11, <2>2, <4>2
        <5>2. x \in 1..n
          BY <1>10, <5>1
        <5> QED  BY <1>10, <4>2, <5>2
      <4> QED  BY <4>1, <4>2
    <3>2. PICK k \in Indices, a \in 1..ARR_SIZE :
            /\ Behind(d, k, a) /\ Recorded(k, a)
            /\ Of(log_arr[k][a], files[t][x].by, files[t][x].n)
      BY <1>3, <1>11, <3>1 DEF Passed
    <3> QED  BY <1>1, <1>8, <3>1, <3>2
  <2> QED  BY <2>1, <2>2
<1>12. Passed(d)'
  BY <1>11 DEF Passed, Of
(* No earlier line is of the record. *)
<1>13. r # Raw /\ r.n # 0 => \A x \in 1..n : ~(files[u][x] # Raw /\ Of(r, files[u][x].by, files[u][x].n))
  <2> SUFFICES ASSUME r # Raw, r.n # 0, NEW x \in 1..n, files[u][x] # Raw,
                      Of(r, files[u][x].by, files[u][x].n)
               PROVE  FALSE
    OBVIOUS
  <2>1. PICK k \in Indices, a \in 1..ARR_SIZE :
          /\ Behind(d, k, a) /\ Recorded(k, a)
          /\ Of(log_arr[k][a], files[u][x].by, files[u][x].n)
    BY <1>2, <1>3, <1>10 DEF Passed
  <2>2. k = k0 /\ a = a0
    BY <1>2, <1>6, <2>1 DEF CallInv, Of, r
  <2> QED  BY <1>6, <2>1, <2>2
<1>14. ASSUME NEW t \in Threads, NEW x \in DOMAIN files'[t], NEW y \in DOMAIN files'[t],
              files'[t][x] # Raw, files'[t][x].n # 0, files'[t][y] # Raw,
              files'[t][x].n = files'[t][y].n, files'[t][x].by = files'[t][y].by
       PROVE  x = y
  <2>1. CASE t # u
    BY <1>10, <1>14, <2>1 DEF DumpedOnce
  <2>2. CASE t = u /\ x \in 1..n /\ y \in 1..n
    <3>1. x \in DOMAIN files[u] /\ y \in DOMAIN files[u]
          /\ files'[u][x] = files[u][x] /\ files'[u][y] = files[u][y]
      BY <1>10, <2>2
    <3> QED  BY <1>2, <1>14, <2>2, <3>1 DEF DumpedOnce
  <2>3. CASE t = u /\ x = n+1 /\ y \in 1..n
    BY <1>10, <1>13, <1>14, <2>3 DEF Of
  <2>4. CASE t = u /\ x \in 1..n /\ y = n+1
    BY <1>10, <1>13, <1>14, <2>4 DEF Of
  <2>5. t = u => x \in 1..n \cup {n+1} /\ y \in 1..n \cup {n+1}
    BY <1>10
  <2> QED  BY <2>1, <2>2, <2>3, <2>4, <2>5
<1>15. DumpedOnce'
  BY <1>14 DEF DumpedOnce
<1> QED  BY <1>12, <1>15

(* A step that does not dump passes nothing back to the dump, and makes no *)
(* other thread the dumper.                                                *)
LEMMA BehindGrows ==
  ASSUME TypeOK, NEW t \in Threads, ~DumpLine(t), ~CleanupTest(t),
         Call(t) \/ Exit(t) \/ Work(t) \/ \E s \in Signals : Signal(t, s),
         NEW d \in Threads, Dumper(d)'
  PROVE  /\ Dumper(d) /\ UNCHANGED <<files, prof_cleanup_done>>
         /\ \A k \in Indices, a \in 1..ARR_SIZE : Behind(d, k, a) => Behind(d, k, a)'
<1> USE DEF TypeOK, Goto
<1>1. ASSUME UNCHANGED <<i, j>>, pc'[d] = "slot" => pc[d] = "slot"
      PROVE  \A k \in Indices, a \in 1..ARR_SIZE : Behind(d, k, a) => Behind(d, k, a)'
  BY <1>1 DEF Behind
<1>2. ASSUME \/ Call(t) \/ GetLog(t) \/ Lock(t) \/ Scan(t) \/ Claim(t) \/ TooMany(t)
             \/ Count(t) \/ Fill(t) \/ Exit(t) \/ CleanupLock(t)
             \/ \E s \in Signals : Signal(t, s)
      PROVE  /\ UNCHANGED <<i, j, files, prof_cleanup_done, ret>>
             /\ pc'[d] = pc[d] \/ pc'[d] \notin {"slot", "dump", "next"}
  <2>1. CASE Call(t)
    <3>1. /\ pc' = [pc EXCEPT ![t] = IF in_trace[t] THEN "idle" ELSE "get_log"]
          /\ UNCHANGED <<i, j, files, prof_cleanup_done, ret>>
      BY <2>1 DEF Call, cleanup
    <3> QED  BY <3>1
  <2>2. CASE GetLog(t)
    <3>1. /\ pc' = [pc EXCEPT ![t] = IF tid[t] THEN "reserve" ELSE "lock"]
          /\ UNCHANGED <<i, j, files, prof_cleanup_done, ret>>
      BY <2>2 DEF GetLog, cleanup
    <3> QED  BY <3>1
  <2>3. CASE Lock(t) \/ Scan(t) \/ Claim(t) \/ TooMany(t) \/ Count(t) \/ Fill(t)
    BY <2>3 DEF Lock, Scan, Claim, TooMany, Count, Fill, cleanup
  <2>4. CASE Exit(t) \/ CleanupLock(t) \/ \E s \in Signals : Signal(t, s)
    BY <2>4 DEF Exit, CleanupLock, Signal
  <2> QED  BY <1>2, <2>1, <2>2, <2>3, <2>4
<1>3. ASSUME Reserve(t) \/ Trace(t)
      PROVE  /\ UNCHANGED <<i, j, files, prof_cleanup_done, ret>> /\ Dumper(d)
             /\ pc'[d] = "slot" => pc[d] = "slot"
  <2>1. /\ \E x \in {"count", ret[t]} : pc' = [pc EXCEPT ![t] = x]
        /\ UNCHANGED <<i, j, files, prof_cleanup_done, ret>>
    BY <1>3 DEF Reserve, Trace, cleanup
  <2> QED  BY <2>1 DEF Dumper
<1>4. ASSUME OpenFile(t) \/ CloseFile(t)
      PROVE  /\ UNCHANGED <<files, prof_cleanup_done>> /\ Dumper(d)
             /\ \A k \in Indices, a \in 1..ARR_SIZE : Behind(d, k, a) => Behind(d, k, a)'
  <2>1. /\ pc[t] \in {"slot", "dump"} /\ UNCHANGED <<i, files, prof_cleanup_done>>
        /\ pc[t] # "slot" => j' = j
        /\ \A u \in Threads \ {t} : j'[u] = j[u] /\ pc'[u] = pc[u] /\ ret'[u] = ret[u]
        /\ \E x \in {"dump", "next"} :
             pc' = [pc EXCEPT ![t] = IF in_trace[t] THEN x ELSE "get_log"]
    <3>1. CASE OpenFile(t)
      BY <3>1 DEF OpenFile, Nested
    <3>2. CASE CloseFile(t)
      BY <3>2 DEF CloseFile, Nested, cleanup
    <3> QED  BY <1>4, <3>1, <3>2
  <2>2. pc'[t] # "slot"
    BY <2>1
  <2>3. Dumper(d)
    BY <2>1 DEF Dumper
  <2>4. CASE d = t
    BY <2>1, <2>2, <2>3, <2>4 DEF Behind
  <2>5. CASE d # t
    BY <2>1, <2>3, <2>5 DEF Behind
  <2> QED  BY <2>4, <2>5
<1>5. ASSUME NextSlot(t)
      PROVE  /\ UNCHANGED <<files, prof_cleanup_done>> /\ Dumper(d)
             /\ \A k \in Indices, a \in 1..ARR_SIZE : Behind(d, k, a) => Behind(d, k, a)'
  <2>1. /\ pc[t] = "next" /\ pc' = [pc EXCEPT ![t] = "slot"] /\ i' = [i EXCEPT ![t] = i[t] + 1]
        /\ UNCHANGED <<j, ret, files, prof_cleanup_done>>
    BY <1>5 DEF NextSlot
  <2>2. Dumper(d)
    BY <2>1 DEF Dumper
  <2>3. CASE d = t
    <3>1. i[t] \in Nat /\ i'[t] = i[t] + 1 /\ pc'[t] = "slot"
      BY <2>1
    <3>2. \A k \in Indices : k <= i[t] => k < i[t] + 1
      BY <3>1 DEF Indices
    <3>3. \A k \in Indices : k < i[t] \/ k = i[t] => k <= i[t]
      BY SMTT(30), <3>1 DEF Indices
    <3> QED  BY <2>1, <2>2, <2>3, <3>1, <3>2, <3>3 DEF Behind
  <2>4. CASE d # t
    BY <2>1, <2>2, <2>4 DEF Behind
  <2> QED  BY <2>3, <2>4
<1>6. ASSUME OpenFails(t) \/ AllDumped(t) \/ DumpTorn(t)
      PROVE  UNCHANGED <<i, j, files, prof_cleanup_done, pc, ret>>
  BY <1>6 DEF OpenFails, AllDumped, DumpTorn, cleanup
<1> HIDE DEF TypeOK, Goto
<1>7. CASE \/ Call(t) \/ GetLog(t) \/ Lock(t) \/ Scan(t) \/ Claim(t) \/ TooMany(t)
           \/ Count(t) \/ Fill(t) \/ Exit(t) \/ CleanupLock(t)
           \/ \E s \in Signals : Signal(t, s)
  <2>1. pc'[d] = "slot" => pc[d] = "slot"
    BY <1>2, <1>7
  <2>2. Dumper(d)
    BY <1>2, <1>7 DEF Dumper
  <2> QED  BY <1>1, <1>2, <1>7, <2>1, <2>2
<1>8. CASE Reserve(t) \/ Trace(t)
  BY <1>1, <1>3, <1>8
<1>9. CASE OpenFails(t) \/ AllDumped(t) \/ DumpTorn(t)
  <2>1. Dumper(d)
    BY <1>6, <1>9 DEF Dumper
  <2> QED  BY <1>1, <1>6, <1>9, <2>1
<1> QED  BY <1>4, <1>5, <1>7, <1>8, <1>9 DEF Work

(* Every step keeps what the dump has passed, and dumps a call once.       *)
LEMMA NextDumpInv ==
  ASSUME TypeOK, SlotInv, DumperInv, WriterInv, CallInv, DumpInv, DumpedOnce, [Next]_vars
  PROVE  DumpInv' /\ DumpedOnce'
<1>1. \A t \in Threads : InDump(t)' => i'[t] \in Slots /\ tids'[i'[t]] \in Threads
  BY NextLoop
<1>2. ASSUME NEW t \in Threads, DumpLine(t), Next
      PROVE  /\ ~prof_cleanup_done' => files' = [u \in Threads |-> <<>>]
             /\ \A d \in Threads : Dumper(d)' => Passed(d)'
             /\ DumpedOnce'
  <2>1. Passed(t)' /\ DumpedOnce'
    BY <1>2, LineIsNew
  <2>2. pc[t] = "dump" /\ UNCHANGED <<pc, ret, prof_cleanup_done>>
    BY <1>2 DEF DumpLine
  <2>3. prof_cleanup_done'
    BY <2>2 DEF DumperInv
  <2>4. \A d \in Threads : Dumper(d)' => d = t
    BY <1>2, <2>2 DEF Dumper, DumperInv, Next
  <2> QED  BY <2>1, <2>3, <2>4
<1>3. ASSUME NEW t \in Threads, CleanupTest(t), Next
      PROVE  /\ ~prof_cleanup_done' => files' = [u \in Threads |-> <<>>]
             /\ proc' = "running" => \A d \in Threads : Dumper(d)' => Passed(d)'
             /\ DumpedOnce'
  <2>1. files' = files /\ prof_cleanup_done'
    BY <1>3 DEF CleanupTest, DoneAfter
  <2>2. DumpedOnce'
    BY <2>1 DEF DumpedOnce
  <2>3. CASE prof_cleanup_done
    BY <1>3, <2>1, <2>2, <2>3 DEF CleanupTest, Finish
  <2>4. CASE ~prof_cleanup_done
    <3>1. \A u \in Threads : files'[u] = <<>>
      BY <2>1, <2>4 DEF DumpInv
    <3> QED  BY <2>1, <2>2, <3>1 DEF Passed
  <2> QED  BY <2>3, <2>4
<1>4. ASSUME NEW t \in Threads, ~DumpLine(t), ~CleanupTest(t), Next,
             Call(t) \/ Exit(t) \/ Work(t) \/ \E s \in Signals : Signal(t, s)
      PROVE  /\ ~prof_cleanup_done' => files' = [u \in Threads |-> <<>>]
             /\ \A d \in Threads : Dumper(d)' => Passed(d)'
             /\ DumpedOnce'
  <2>1. UNCHANGED <<files, prof_cleanup_done>>
    BY <1>4 DEF Work, Call, Exit, Signal, GetLog, Lock, Scan, Claim, TooMany, Reserve, Count, Fill,
         Trace, CleanupLock, OpenFile, OpenFails, AllDumped, DumpTorn, CloseFile, NextSlot, cleanup
  <2>2. DumpedOnce' /\ (~prof_cleanup_done' => files' = [u \in Threads |-> <<>>])
    BY <2>1 DEF DumpedOnce, DumpInv
  <2>3. ASSUME NEW d \in Threads, Dumper(d)'  PROVE Passed(d)'
    <3>1. /\ Dumper(d)
          /\ \A k \in Indices, a \in 1..ARR_SIZE : Behind(d, k, a) => Behind(d, k, a)'
      BY <1>4, <2>3, BehindGrows
    <3>2. Passed(d)
      BY <1>4, <3>1 DEF DumpInv, Passed, Next
    <3> QED  BY <2>1, <3>1, <3>2, PassedFrame
  <2> QED  BY <2>2, <2>3
<1>5. CASE UNCHANGED vars
  <2>1. UNCHANGED <<files, prof_cleanup_done, pc, ret, i, j, proc, log_arr>>
    BY <1>5 DEF vars, cleanup, env, logs
  <2>2. DumpedOnce' /\ (~prof_cleanup_done' => files' = [u \in Threads |-> <<>>])
    BY <2>1 DEF DumpedOnce, DumpInv
  <2>3. ASSUME proc' = "running", NEW d \in Threads, Dumper(d)'  PROVE Passed(d)'
    <3>1. Passed(d)
      BY <2>1, <2>3 DEF DumpInv, Passed, Dumper
    <3>2. \A k \in Indices, a \in 1..ARR_SIZE : Behind(d, k, a) => Behind(d, k, a)'
      BY <2>1 DEF Behind
    <3> QED  BY <2>1, <3>1, <3>2, PassedFrame
  <2> QED  BY <1>1, <2>2, <2>3 DEF DumpInv, InDump, Passed
<1>6. CASE Next
  <2>1. /\ ~prof_cleanup_done' => files' = [u \in Threads |-> <<>>]
        /\ proc' = "running" => \A d \in Threads : Dumper(d)' => Passed(d)'
        /\ DumpedOnce'
    BY <1>2, <1>3, <1>4, <1>6 DEF Next
  <2> QED  BY <1>1, <2>1 DEF DumpInv, InDump, Passed
<1> QED  BY <1>5, <1>6

-----------------------------------------------------------------------------
(* In order: one thread leaves, and alone *)

(* What may happen in order: the other actions end it, or the process.     *)
Slotting(t) == GetLog(t) \/ Lock(t) \/ Scan(t) \/ Claim(t)
Recording(t) == Reserve(t) \/ Count(t) \/ Fill(t) \/ Trace(t)
Dumping(t) == OpenFile(t) \/ DumpLine(t) \/ CloseFile(t) \/ NextSlot(t)
OrderStep(t) ==
  \/ Call(t) \/ Exit(t) \/ Slotting(t) \/ Recording(t)
  \/ CleanupLock(t) \/ (CleanupTest(t) /\ ~prof_cleanup_done) \/ Dumping(t)

LEMMA StepInOrder ==
  ASSUME Next, joined', proc' = "running"
  PROVE  joined /\ \E t \in Threads : OrderStep(t)
<1>1. PICK t \in Threads : Call(t) \/ Exit(t) \/ Work(t) \/ \E s \in Signals : Signal(t, s)
  BY DEF Next
<1>2. joined
  BY <1>1 DEF Work, Call, Exit, Signal, GetLog, Lock, Scan, Claim, TooMany, Reserve, Count, Fill,
       Trace, CleanupLock, CleanupTest, OpenFile, OpenFails, AllDumped, DumpLine, DumpTorn,
       CloseFile, NextSlot, env
<1>3. ~(\E s \in Signals : Signal(t, s)) /\ ~TooMany(t) /\ ~OpenFails(t)
  BY <1>2 DEF Signal, TooMany, OpenFails
<1>4. ~DumpTorn(t) /\ ~AllDumped(t) /\ (CleanupTest(t) => ~prof_cleanup_done)
  BY DEF DumpTorn, AllDumped, Finish, CleanupTest
<1> QED  BY <1>1, <1>2, <1>3, <1>4 DEF OrderStep, Slotting, Recording, Dumping, Work

(* Only the thread that leaves dumps.                                      *)
LEMMA DumperLeaves ==
  ASSUME CalmInv, NEW t \in Threads, Dumper(t) \/ pc[t] \in {"cleanup", "test"}
  PROVE  why[t] # "none"
BY DEF CalmInv, Calm, Dumper, InHook

(* A thread that may run in order is alone, or no thread leaves.           *)
LEMMA Alone ==
  ASSUME CalmInv, NEW t \in Threads, pc[t] # "idle", NEW u \in Threads \ {t}
  PROVE  why[u] = "none" /\ ~Dumper(u)
<1>1. why[u] = "none"
  BY DEF CalmInv, Calm
<1> QED  BY <1>1, DumperLeaves

(* A step of one thread, in prof_cleanup or in a hook.                     *)
LEMMA CalmMove ==
  ASSUME CalmInv, UNCHANGED <<why, prof_cleanup_done>>,
         NEW t \in Threads, pc[t] # "idle" \/ Leaving = {},
         \A u \in Threads \ {t} : pc'[u] = pc[u] /\ ret'[u] = ret[u] /\ in_trace'[u] = in_trace[u],
         why[t] = "none" => /\ ret'[t] = "idle" /\ pc'[t] \in {"idle"} \cup InHook
                            /\ in_trace'[t] => pc'[t] = "trace",
         why[t] # "none" => pc'[t] # "idle" /\ (pc'[t] \in InHook => ret'[t] # "idle"),
         pc'[t] # "stuck" /\ (pc'[t] \in {"cleanup", "test"} => ~prof_cleanup_done)
  PROVE  CalmInv'
<1>1. Leaving' = Leaving
  BY DEF Leaving
<1>2. Calm(t)'
  BY DEF CalmInv, Calm
<1>3. ASSUME NEW u \in Threads \ {t}  PROVE Calm(u)'
  <2>1. why[u] = "none"
    BY Alone DEF Leaving
  <2> QED  BY <2>1 DEF CalmInv, Calm
<1> QED  BY <1>1, <1>2, <1>3 DEF CalmInv

(* In order, a step leaves every thread but one where it is.               *)
LEMMA NextCalm ==
  ASSUME TypeOK, joined, CalmInv, NEW t \in Threads, OrderStep(t)
  PROVE  CalmInv'
<1> USE DEF TypeOK, Goto, InHook
<1>0. Calm(t)
  BY DEF CalmInv
<1>1. CASE Call(t)
  <2>1. /\ pc[t] = "idle" /\ Leaving = {}
        /\ pc' = [pc EXCEPT ![t] = IF in_trace[t] THEN "idle" ELSE "get_log"]
        /\ UNCHANGED <<ret, why, prof_cleanup_done, in_trace>>
    BY <1>1 DEF Call, cleanup
  <2>2. why[t] = "none" /\ ret[t] = "idle" /\ ~in_trace[t]
    BY <1>0, <2>1 DEF Calm, Leaving
  <2>3. pc'[t] = "get_log" /\ \A u \in Threads \ {t} : pc'[u] = pc[u]
    BY <2>1, <2>2
  <2> QED  BY <2>1, <2>2, <2>3, CalmMove
<1>2. CASE Slotting(t)
  <2>1. /\ pc[t] \in {"get_log", "lock", "scan", "claim"}
        /\ \E x \in {"reserve", "lock", "scan", "claim"} : pc' = [pc EXCEPT ![t] = x]
        /\ UNCHANGED <<ret, why, prof_cleanup_done, in_trace>>
    BY <1>2 DEF Slotting, GetLog, Lock, Scan, Claim, cleanup
  <2>2. pc'[t] \in {"reserve", "lock", "scan", "claim"} /\ \A u \in Threads \ {t} : pc'[u] = pc[u]
    BY <2>1
  <2> QED  BY <1>0, <2>1, <2>2, CalmMove DEF Calm
<1>3. CASE Recording(t)
  <2>1. /\ pc[t] \in {"reserve", "count", "fill", "trace"}
        /\ \E x \in {"count", "fill", "trace", ret[t]} : pc' = [pc EXCEPT ![t] = x]
        /\ UNCHANGED <<ret, why, prof_cleanup_done>>
    BY <1>3 DEF Recording, Reserve, Count, Fill, Trace, cleanup
  <2>2. /\ pc'[t] \in {"count", "fill", "trace", ret[t]} /\ \A u \in Threads \ {t} : pc'[u] = pc[u]
        /\ ret[t] \in {"idle", "dump", "next"}
    BY <2>1
  <2>3. /\ \A u \in Threads \ {t} : in_trace'[u] = in_trace[u]
        /\ why[t] = "none" => (in_trace'[t] => pc'[t] = "trace")
    <3>1. CASE Reserve(t) \/ Count(t)
      <4>1. in_trace' = in_trace /\ pc[t] # "trace"
        BY <3>1 DEF Reserve, Count
      <4> QED  BY <1>0, <4>1 DEF Calm
    <3>2. CASE Fill(t)
      BY <3>2 DEF Fill
    <3>3. CASE Trace(t)
      BY <3>3 DEF Trace, TraceFlag
    <3> QED  BY <1>3, <3>1, <3>2, <3>3 DEF Recording
  <2> QED  BY <1>0, <2>1, <2>2, <2>3, CalmMove DEF Calm
<1>4. CASE CleanupLock(t) \/ Dumping(t)
  <2>1. /\ pc[t] \in {"cleanup", "slot", "dump", "next"}
        /\ CleanupLock(t) => pc' = [pc EXCEPT ![t] = "test"]
        /\ Dumping(t) => \E x \in {"slot", "dump", "next"} : \/ pc' = [pc EXCEPT ![t] = x]
                                                             \/ pc' = [pc EXCEPT ![t] = "get_log"]
        /\ UNCHANGED <<why, prof_cleanup_done>>
        /\ \A u \in Threads \ {t} : ret'[u] = ret[u] /\ in_trace'[u] = in_trace[u]
    <3>1. CASE CleanupLock(t)
      BY <3>1 DEF CleanupLock, Dumping, OpenFile, DumpLine, CloseFile, NextSlot, Nested
    <3>2. CASE OpenFile(t)
      BY <3>2 DEF CleanupLock, OpenFile, Nested
    <3>3. CASE DumpLine(t)
      <4>1. pc[t] = "dump" /\ pc' = [pc EXCEPT ![t] = "dump"]
        BY <3>3 DEF DumpLine
      <4> QED  BY <3>3, <4>1 DEF DumpLine, CleanupLock
    <3>4. CASE CloseFile(t)
      BY <3>4 DEF CleanupLock, CloseFile, Nested, cleanup
    <3>5. CASE NextSlot(t)
      BY <3>5 DEF CleanupLock, NextSlot
    <3> QED  BY <1>4, <3>1, <3>2, <3>3, <3>4, <3>5 DEF Dumping
  <2>2. why[t] # "none"
    BY <1>0, <2>1 DEF Calm
  <2>3. pc'[t] = "get_log" => ret'[t] # "idle"
    BY <1>4, <2>1 DEF CleanupLock, Dumping, OpenFile, DumpLine, CloseFile, NextSlot, Nested
  <2>4. /\ pc'[t] \in {"test", "slot", "dump", "next", "get_log"}
        /\ pc'[t] = "test" => ~prof_cleanup_done
        /\ \A u \in Threads \ {t} : pc'[u] = pc[u]
    <3>1. CASE CleanupLock(t)
      BY <1>0, <2>1, <3>1 DEF Calm, CleanupLock
    <3>2. CASE Dumping(t)
      BY <2>1, <3>2
    <3> QED  BY <1>4, <3>1, <3>2
  <2> QED  BY <2>1, <2>2, <2>3, <2>4, CalmMove
<1>5. CASE Exit(t)
  <2>1. /\ \A u \in Threads : why[u] # "exit" /\ pc[u] = "idle"
        /\ pc' = [pc EXCEPT ![t] = "cleanup"] /\ why' = [why EXCEPT ![t] = "exit"]
        /\ UNCHANGED <<ret, prof_cleanup_done, in_trace>>
    BY <1>5 DEF Exit
  <2>2. \A u \in Threads : why[u] = "none"
    BY <2>1 DEF CalmInv, Calm
  <2>3. ~prof_cleanup_done
    BY <2>2 DEF CalmInv, Leaving
  <2>4. \A u \in Threads : Calm(u)'
    BY <2>1, <2>2, <2>3 DEF CalmInv, Calm
  <2> QED  BY <2>1, <2>3, <2>4 DEF CalmInv
<1>6. CASE CleanupTest(t) /\ ~prof_cleanup_done
  <2>1. /\ pc[t] = "test" /\ pc' = [pc EXCEPT ![t] = "slot"]
        /\ UNCHANGED <<ret, in_trace, why>>
    BY <1>6 DEF CleanupTest
  <2>2. why[t] # "none"
    BY <1>0, <2>1 DEF Calm
  <2>3. \A u \in Threads : u # t => pc'[u] = "idle" /\ why[u] = "none"
    BY <1>0, <2>1, <2>2 DEF Calm
  <2>4. \A u \in Threads : Calm(u)'
    BY <2>1, <2>2, <2>3 DEF CalmInv, Calm
  <2>5. Leaving' # {}
    BY <2>1, <2>2 DEF Leaving
  <2> QED  BY <2>4, <2>5 DEF CalmInv
<1> QED  BY <1>1, <1>2, <1>3, <1>4, <1>5, <1>6 DEF OrderStep

(* Every step in order keeps threads and slots one to one.                 *)
LEMMA NextOwn ==
  ASSUME TypeOK, SlotInv, WriterInv, OwnInv, NEW t \in Threads, OrderStep(t)
  PROVE  OwnInv'
<1> USE DEF TypeOK, Goto
<1>1. CASE Slotting(t)
  <2>1. CASE GetLog(t)
    <3>1. /\ pc[t] = "get_log" /\ pc' = [pc EXCEPT ![t] = IF tid[t] THEN "reserve" ELSE "lock"]
          /\ tid' = [tid EXCEPT ![t] = TRUE]
          /\ UNCHANGED <<tids, tid_index, log_index>>
      BY <2>1 DEF GetLog, logs
    <3>2. tid_index[t] # 0 <=> tid[t]
      BY <3>1 DEF OwnInv
    <3>3. /\ tid'[t] = TRUE /\ pc'[t] = IF tid[t] THEN "reserve" ELSE "lock"
          /\ \A u \in Threads \ {t} : pc'[u] = pc[u] /\ tid'[u] = tid[u]
      BY <3>1
    <3> QED  BY <3>1, <3>2, <3>3 DEF OwnInv
  <2>2. CASE Lock(t) \/ Scan(t)
    <3>1. /\ pc[t] \in {"lock", "scan"}
          /\ \E x \in {"scan", "claim"} : pc' = [pc EXCEPT ![t] = x]
          /\ UNCHANGED <<tids, tid_index, log_index, tid>>
      BY <2>2 DEF Lock, Scan, logs, slots
    <3>2. pc'[t] \in {"scan", "claim"} /\ \A u \in Threads \ {t} : pc'[u] = pc[u]
      BY <3>1
    <3> QED  BY <3>1, <3>2 DEF OwnInv
  <2>3. CASE Claim(t)
    <3>1. PICK k : k = l[t].slot
      OBVIOUS
    <3>2. /\ pc[t] = "claim" /\ pc' = [pc EXCEPT ![t] = "reserve"]
          /\ tids' = [tids EXCEPT ![k] = t] /\ tid_index' = [tid_index EXCEPT ![t] = k]
          /\ UNCHANGED <<log_index, tid>>
      BY <2>3, <3>1 DEF Claim, logs
    <3>3. k \in Indices \ {0} /\ tids[k] = Nil /\ tid[t] /\ tid_index[t] = 0
      BY <3>1, <3>2 DEF SlotInv, FreeSlots, OwnInv
    <3>4. /\ tid_index'[t] = k /\ pc'[t] = "reserve" /\ tids'[k] = t
          /\ \A u \in Threads \ {t} : pc'[u] = pc[u] /\ tid_index'[u] = tid_index[u]
          /\ \A m \in Slots \ {k} : tids'[m] = tids[m]
      BY <3>2, <3>3 DEF Slots
    <3>5. \A u \in Threads :
            tid_index'[u] # 0 <=> tid'[u] /\ pc'[u] \notin {"lock", "scan", "claim"}
      BY <3>2, <3>3, <3>4 DEF OwnInv
    <3>6. ASSUME NEW m \in Slots
          PROVE  IF tids'[m] = Nil THEN log_index'[m] = 0 ELSE tid_index'[tids'[m]] = m
      <4>1. CASE m = k
        <5>1. t # Nil
          BY ProfAssumption
        <5> QED  BY <3>4, <4>1, <5>1
      <4>2. CASE m # k /\ tids[m] = Nil
        BY <3>2, <3>4, <4>2 DEF OwnInv
      <4>3. CASE m # k /\ tids[m] # Nil
        <5>1. tid_index[tids[m]] = m /\ m # 0 /\ tids[m] \in Threads
          BY <4>3 DEF OwnInv, Slots
        <5>2. tids[m] # t
          BY <3>3, <5>1
        <5> QED  BY <3>4, <4>3, <5>1, <5>2
      <4> QED  BY <4>1, <4>2, <4>3
    <3> QED  BY <3>5, <3>6 DEF OwnInv
  <2> QED  BY <1>1, <2>1, <2>2, <2>3 DEF Slotting
<1>2. CASE ~Slotting(t)
  <2>1. /\ pc[t] \notin {"lock", "scan", "claim"}
        /\ \E x \in Places \ {"lock", "scan", "claim"} : pc' = [pc EXCEPT ![t] = x]
        /\ UNCHANGED <<tids, tid_index, tid>>
    <3>1. CASE Call(t)
      BY <3>1 DEF Call, slots, Places
    <3>2. CASE Reserve(t)
      <4>1. \E x \in {"count", ret[t]} : pc' = [pc EXCEPT ![t] = x]
        BY <3>2 DEF Reserve
      <4> QED  BY <3>2, <4>1 DEF Reserve, slots, Places
    <3>3. CASE Exit(t) \/ Count(t) \/ Fill(t) \/ Trace(t) \/ CleanupLock(t) \/ CleanupTest(t)
      BY <3>3 DEF Exit, Count, Fill, Trace, CleanupLock, CleanupTest, slots, Places
    <3>4. CASE OpenFile(t) \/ CloseFile(t) \/ NextSlot(t)
      BY <3>4 DEF OpenFile, CloseFile, NextSlot, Nested, slots, Places
    <3>5. CASE DumpLine(t)
      <4>1. pc[t] = "dump" /\ pc' = [pc EXCEPT ![t] = "dump"]
        BY <3>5 DEF DumpLine
      <4> QED  BY <3>5, <4>1 DEF DumpLine, slots, Places
    <3> QED  BY <1>2, <3>1, <3>2, <3>3, <3>4, <3>5 DEF OrderStep, Recording, Dumping
  <2>2. /\ pc'[t] \notin {"lock", "scan", "claim"}
        /\ \A u \in Threads \ {t} : pc'[u] = pc[u]
    BY <2>1
  <2>3. \A k \in Slots : tids[k] = Nil => log_index'[k] = log_index[k]
    <3>1. CASE Count(t)
      <4>1. pc[t] = "count" /\ log_index' = [log_index EXCEPT ![l[t].slot] = log_index[l[t].slot] + 1]
        BY <3>1 DEF Count
      <4>2. l[t].slot = tid_index[t]
        BY <4>1 DEF WriterInv, Writing
      <4>3. \A k \in Slots : tids[k] = Nil => k # l[t].slot
        BY <4>2, ProfAssumption DEF SlotInv, Slots
      <4> QED  BY <4>1, <4>3 DEF Slots
    <3>2. CASE ~Count(t)
      <4>1. log_index' = log_index
        BY <1>2, <3>2 DEF OrderStep, Call, Exit, Recording, Reserve, Fill, Trace, Dumping,
             CleanupLock, CleanupTest, OpenFile, DumpLine, CloseFile, NextSlot, logs
      <4> QED  BY <4>1
    <3> QED  BY <3>1, <3>2
  <2>4. \A u \in Threads : tid_index'[u] # 0 <=> tid'[u] /\ pc'[u] \notin {"lock", "scan", "claim"}
    BY <2>1, <2>2 DEF OwnInv
  <2>5. \A k \in Slots : IF tids'[k] = Nil THEN log_index'[k] = 0 ELSE tid_index'[tids'[k]] = k
    BY <2>1, <2>3 DEF OwnInv
  <2> QED  BY <2>4, <2>5 DEF OwnInv
<1> QED  BY <1>1, <1>2

-----------------------------------------------------------------------------
(* The arrays *)

(* A thread whose array and calls are left alone.                          *)
LEMMA ArrayFrame ==
  ASSUME NEW t \in Threads, ArrayInv(t),
         /\ pc'[t] = pc[t] /\ ret'[t] = ret[t] /\ made'[t] = made[t] /\ l'[t] = l[t]
         /\ why'[t] = why[t] /\ tid_index'[t] = tid_index[t],
         tid_index[t] # 0 => log_index'[tid_index[t]] = log_index[tid_index[t]],
         tid_index[t] # 0 => \A a \in 1..log_index[tid_index[t]] :
           log_arr'[tid_index[t]][a] = log_arr[tid_index[t]][a]
  PROVE  ArrayInv(t)'
BY DEF ArrayInv, Reached, Pending, Entry

(* A step of a thread that is not at a record, before or after.            *)
LEMMA ArrayMove ==
  ASSUME NEW t \in Threads, ArrayInv(t),
         pc[t] \notin Writing, pc'[t] \notin Writing, Pending(t)' = Pending(t),
         why'[t] = "none" => why[t] = "none",
         /\ UNCHANGED logs
         /\ made'[t] = made[t] /\ tid_index'[t] = tid_index[t]
  PROVE  ArrayInv(t)'
<1>1. Reached(t)' = Reached(t)
  BY DEF Reached
<1> QED  BY <1>1 DEF ArrayInv, Writing, Entry, logs

(* The array of a thread that records is its own.                          *)
LEMMA OtherArray ==
  ASSUME TypeOK, SlotInv, NEW t \in Threads, NEW u \in Threads \ {t}, tid_index[u] # 0
  PROVE  tid_index[u] # tid_index[t] /\ tid_index[u] \in Indices
         /\ \A a \in 1..log_index[tid_index[u]] : a \in 1..ARR_SIZE
<1>1. tid_index[u] # tid_index[t]
  BY DEF SlotInv
<1>2. tid_index[u] \in Indices
  BY DEF TypeOK
<1>3. log_index[tid_index[u]] \in 0..ARR_SIZE
  BY <1>2 DEF TypeOK
<1> QED  BY <1>1, <1>2, <1>3, ProfAssumption

(* A call begins: all of the earlier ones are in the array, or it is full. *)
LEMMA CallArray ==
  ASSUME TypeOK, CalmInv, joined, NEW t \in Threads, ArrayInv(t), Call(t)
  PROVE  ArrayInv(t)'
<1>1. /\ pc[t] = "idle" /\ Leaving = {}
      /\ pc' = [pc EXCEPT ![t] = IF in_trace[t] THEN "idle" ELSE "get_log"]
      /\ made' = [made EXCEPT ![t] = made[t] + 1]
      /\ UNCHANGED <<ret, why, tid_index, logs>>
  BY DEF Call, Goto, cleanup, slots
<1>2. why[t] = "none"
  BY <1>1 DEF Leaving
<1>3. ret[t] = "idle" /\ ~in_trace[t]
  BY <1>1, <1>2 DEF CalmInv, Calm
<1>4. pc'[t] = "get_log" /\ made'[t] = made[t] + 1 /\ made[t] \in Nat
  BY <1>1, <1>3 DEF TypeOK
<1>5. Pending(t)' /\ Reached(t)' = made[t] /\ Reached(t) = made[t]
  BY <1>1, <1>3, <1>4 DEF Pending, Reached
<1> QED  BY <1>1, <1>4, <1>5 DEF ArrayInv, logs, Entry

(* A thread that takes a slot had no call yet, and the slot no record.     *)
LEMMA ClaimArray ==
  ASSUME TypeOK, SlotInv, OwnInv, NEW t \in Threads, ArrayInv(t), Claim(t)
  PROVE  ArrayInv(t)'
<1>1. PICK k : k = l[t].slot
  OBVIOUS
<1>2. /\ pc[t] = "claim" /\ pc' = [pc EXCEPT ![t] = "reserve"]
      /\ tid_index' = [tid_index EXCEPT ![t] = k]
      /\ UNCHANGED <<logs, ret, why, made>>
  BY <1>1 DEF Claim, Goto, cleanup, env
<1>3. k \in Slots /\ tids[k] = Nil
  BY <1>1, <1>2 DEF SlotInv, FreeSlots, Slots
<1>4. log_index[k] = 0 /\ tid_index[t] = 0
  BY <1>2, <1>3 DEF OwnInv
<1>5. pc'[t] = "reserve" /\ tid_index'[t] = k /\ made'[t] = made[t] /\ ret'[t] = ret[t]
  BY <1>2 DEF TypeOK
<1>6. Pending(t)' = Pending(t) /\ Reached(t)' = Reached(t)
  BY <1>2, <1>5 DEF Pending, Reached
<1>7. Reached(t) = 0 /\ (Pending(t) => made[t] # 0)
  BY <1>4 DEF ArrayInv
<1>8. log_index'[k] = 0 /\ k # 0
  BY <1>2, <1>3, <1>4 DEF logs, Slots
<1> QED  BY <1>5, <1>6, <1>7, <1>8 DEF ArrayInv

(* A record is reserved: the one of the last call, or one after it.        *)
LEMMA ReserveArray ==
  ASSUME TypeOK, DumperInv, CalmInv, WriterInv, NEW t \in Threads, ArrayInv(t), Reserve(t)
  PROVE  ArrayInv(t)'
<1>1. PICK k : k = tid_index[t]
  OBVIOUS
<1>2. /\ pc[t] = "reserve" /\ pc' = [pc EXCEPT ![t] = IF IsFull(k) THEN ret[t] ELSE "count"]
      /\ log_arr' = IF log_arr[k] = Nil THEN [log_arr EXCEPT ![k] = [m \in 1..ARR_SIZE |-> Raw]]
                    ELSE log_arr
      /\ UNCHANGED <<log_index, tid_index, ret, why, made>>
  BY <1>1 DEF Reserve, Goto, cleanup, env, slots
<1>3. /\ k \in Indices /\ log_index[k] \in 0..ARR_SIZE /\ made[t] \in Nat
      /\ ret[t] \in {"idle", "dump", "next"}
  BY <1>1 DEF TypeOK
<1>4. \A a \in 1..log_index[k] : log_arr'[k][a] = log_arr[k][a]
  <2>1. CASE log_arr[k] = Nil
    <3>1. log_index[k] = 0
      BY <1>3, <2>1 DEF WriterInv
    <3> QED  BY <3>1
  <2>2. CASE log_arr[k] # Nil
    BY <1>2, <2>2
  <2> QED  BY <2>1, <2>2
<1>5. pc'[t] = IF IsFull(k) THEN ret[t] ELSE "count"
  BY <1>2 DEF TypeOK
<1>6. CASE ret[t] = "idle"
  <2>1. k # 0
    BY <1>1, <1>2, <1>6 DEF DumperInv
  <2>2. Pending(t) /\ Reached(t) = made[t] - 1 /\ ~Pending(t)' /\ Reached(t)' = made[t]
    BY <1>2, <1>5, <1>6 DEF Pending, Reached
  <2>3. why[t] = "none"
    BY <1>2, <1>6 DEF CalmInv, Calm, InHook
  <2>4. /\ made[t] # 0 /\ log_index[k] <= made[t] - 1
        /\ made[t] - 1 <= log_index[k] \/ log_index[k] = ARR_SIZE
        /\ \A a \in 1..log_index[k] : Entry(log_arr[k][a], t, a, made[t] - 1)
    BY <1>1, <1>2, <2>1, <2>2, <2>3 DEF ArrayInv
  <2>5. \A a \in 1..log_index[k] : Entry(log_arr'[k][a], t, a, made[t])
    BY <1>3, <1>4, <2>4 DEF Entry
  <2>6. /\ log_index[k] <= made[t]
        /\ IF pc'[t] = "count" THEN log_index[k] + 1 = made[t] ELSE log_index[k] = ARR_SIZE
    BY <1>3, <1>5, <1>6, <2>4, ProfAssumption DEF IsFull
  <2>7. pc'[t] \notin {"fill", "trace"} /\ k = tid_index'[t]
    BY <1>1, <1>2, <1>5, <1>6
  <2> QED  BY <1>2, <1>6, <2>1, <2>2, <2>5, <2>6, <2>7 DEF ArrayInv
<1>7. CASE ret[t] # "idle"
  <2>1. Reached(t) = made[t] /\ ~Pending(t)' /\ Reached(t)' = made[t]
    BY <1>2, <1>7 DEF Pending, Reached
  <2>2. pc'[t] \notin {"fill", "trace"} /\ k = tid_index'[t]
    BY <1>1, <1>2, <1>3, <1>5
  <2>3. k # 0 => /\ why[t] = "none" => log_index[k] <= made[t]
                 /\ made[t] <= log_index[k] \/ log_index[k] = ARR_SIZE
                 /\ \A a \in 1..log_index[k] : Entry(log_arr[k][a], t, a, made[t])
    BY <1>1, <1>2, <1>7, <2>1 DEF ArrayInv
  <2>4. \A a \in 1..log_index[k] :
          Entry(log_arr[k][a], t, a, made[t]) => Entry(log_arr'[k][a], t, a, made[t])
    BY <1>4
  <2>5. k = 0 => made[t] = 0
    BY <1>1, <2>1 DEF ArrayInv
  <2> QED  BY <1>2, <1>7, <2>1, <2>2, <2>3, <2>4, <2>5 DEF ArrayInv
<1> QED  BY <1>6, <1>7

(* The record is counted before it is filled.                              *)
LEMMA CountArray ==
  ASSUME TypeOK, DumperInv, CalmInv, WriterInv, NEW t \in Threads, ArrayInv(t), Count(t)
  PROVE  ArrayInv(t)'
<1>1. PICK k : k = l[t].slot
  OBVIOUS
<1>2. /\ pc[t] = "count" /\ pc' = [pc EXCEPT ![t] = "fill"]
      /\ log_index' = [log_index EXCEPT ![k] = log_index[k] + 1]
      /\ UNCHANGED <<log_arr, l, tid_index, ret, why, made>>
  BY <1>1 DEF Count, Goto, cleanup, env, slots
<1>3. k \in Indices /\ l[t].rec \in 1..ARR_SIZE /\ k = tid_index[t]
      /\ l[t].rec = log_index[k] + 1
  BY <1>1, <1>2, WriterCell DEF Writing, WriterInv
<1>4. log_index[k] \in Nat /\ log_index[k] < ARR_SIZE /\ made[t] \in Nat
      /\ log_index'[k] = log_index[k] + 1 /\ pc'[t] = "fill"
  BY <1>2, <1>3, ProfAssumption DEF TypeOK
<1>5. ~Pending(t) /\ ~Pending(t)' /\ Reached(t) = made[t] /\ Reached(t)' = made[t]
  BY <1>2, <1>4 DEF Pending, Reached
<1>6. why[t] = "none" => ret[t] = "idle"
  BY DEF CalmInv, Calm
<1>7. CASE k = 0
  BY <1>2, <1>3, <1>5, <1>7 DEF ArrayInv
<1>8. CASE k # 0
  <2>1. /\ IF ret[t] = "idle" THEN log_index[k] + 1 = made[t] ELSE made[t] <= log_index[k]
        /\ \A a \in 1..log_index[k] : Entry(log_arr[k][a], t, a, made[t])
    BY <1>2, <1>3, <1>4, <1>5, <1>8 DEF ArrayInv
  <2>2. /\ why[t] = "none" => log_index'[k] <= made[t]
        /\ made[t] <= log_index'[k]
        /\ IF ret[t] = "idle" THEN l[t].rec = made[t] ELSE l[t].rec > made[t]
    BY <1>3, <1>4, <1>6, <2>1
  <2>3. \A a \in 1..log_index'[k] : a = l[t].rec \/ Entry(log_arr[k][a], t, a, made[t])
    BY <1>3, <1>4, <2>1
  <2>4. ret'[t] = ret[t] /\ l'[t] = l[t] /\ log_arr' = log_arr /\ tid_index'[t] = k
        /\ why'[t] = why[t] /\ made'[t] = made[t]
    BY <1>2, <1>3
  <2> QED  BY <1>4, <1>5, <1>8, <2>2, <2>3, <2>4 DEF ArrayInv
<1> QED  BY <1>7, <1>8

(* The record is filled in, and is whole when its stack trace is taken.    *)
LEMMA FillArray ==
  ASSUME TypeOK, DumperInv, CalmInv, WriterInv, NEW t \in Threads, ArrayInv(t),
         Fill(t) \/ Trace(t)
  PROVE  ArrayInv(t)'
<1>1. PICK k, rec : k = l[t].slot /\ rec = l[t].rec
  OBVIOUS
<1>2. /\ pc[t] \in {"fill", "trace"}
      /\ pc' = [pc EXCEPT ![t] = IF pc[t] = "fill" THEN "trace" ELSE ret[t]]
      /\ \E w \in BOOLEAN : Put(t, w) /\ (pc[t] = "trace" => w)
      /\ UNCHANGED <<log_index, l, tid_index, ret, why, made>>
  BY DEF Fill, Trace, Goto, cleanup, env, slots
<1>3. PICK w \in BOOLEAN : Put(t, w) /\ (pc[t] = "trace" => w)
  BY <1>2
<1>4. k \in Indices /\ rec \in 1..ARR_SIZE /\ k = tid_index[t] /\ log_arr[k] # Nil
  BY <1>1, <1>2, WriterCell DEF Writing
<1>5. \A a \in 1..ARR_SIZE : log_arr'[k][a] = IF a = rec
                                              THEN [by |-> t, n |-> CallOf(t), whole |-> w]
                                              ELSE log_arr[k][a]
  <2>1. \A m \in Indices, a \in 1..ARR_SIZE : log_arr[m] # Nil =>
          log_arr'[m][a] = IF m = l[t].slot /\ a = l[t].rec
                           THEN [by |-> t, n |-> CallOf(t), whole |-> w]
                           ELSE log_arr[m][a]
    BY <1>2, <1>3, PutTypes
  <2> QED  BY <1>1, <1>4, <2>1
<1>6. /\ pc'[t] = (IF pc[t] = "fill" THEN "trace" ELSE ret[t])
      /\ ret[t] \in {"idle", "dump", "next"} /\ made[t] \in Nat
      /\ log_index[k] \in 0..ARR_SIZE
  BY <1>2, <1>4 DEF TypeOK
<1>7. ~Pending(t) /\ ~Pending(t)' /\ Reached(t) = made[t] /\ Reached(t)' = made[t]
  BY <1>2, <1>6 DEF Pending, Reached
<1>8. /\ ret'[t] = ret[t] /\ l'[t] = l[t] /\ tid_index'[t] = k /\ log_index' = log_index
      /\ why'[t] = why[t] /\ made'[t] = made[t]
  BY <1>2, <1>4
<1>9. CASE k = 0
  BY <1>4, <1>7, <1>8, <1>9 DEF ArrayInv
<1>10. CASE k # 0
  <2>1. /\ why[t] = "none" => log_index[k] <= made[t]
        /\ made[t] <= log_index[k] \/ log_index[k] = ARR_SIZE
        /\ IF ret[t] = "idle" THEN rec = made[t] ELSE rec > made[t]
        /\ \A a \in 1..log_index[k] : a = rec \/ Entry(log_arr[k][a], t, a, made[t])
    BY <1>1, <1>2, <1>4, <1>7, <1>10 DEF ArrayInv
  <2>2. \A a \in 1..log_index[k] : a \in 1..ARR_SIZE
    BY <1>6, ProfAssumption
  <2>3. \A a \in 1..log_index[k] : a = rec \/ Entry(log_arr'[k][a], t, a, made[t])
    BY <1>5, <2>1, <2>2 DEF Entry
  <2>4. CASE pc[t] = "fill"
    <3>1. pc'[t] = "trace" /\ rec = l'[t].rec
      BY <1>1, <1>6, <1>8, <2>4
    <3> QED  BY <1>7, <1>8, <1>10, <2>1, <2>3, <3>1 DEF ArrayInv
  <2>5. CASE pc[t] = "trace"
    <3>1. log_arr'[k][rec] = [by |-> t, n |-> CallOf(t), whole |-> TRUE]
      BY <1>3, <1>4, <1>5, <2>5
    <3>2. Entry(log_arr'[k][rec], t, rec, made[t])
      <4>1. CASE ret[t] = "idle"
        <5>1. rec = made[t] /\ CallOf(t) = rec
          BY <2>1, <4>1 DEF CallOf
        <5> QED  BY <1>6, <3>1, <5>1 DEF Entry
      <4>2. CASE ret[t] # "idle"
        <5>1. ~(rec <= made[t]) /\ CallOf(t) = 0
          BY <1>4, <1>6, <2>1, <4>2 DEF CallOf
        <5>2. PICK r : r = [by |-> t, n |-> 0, whole |-> TRUE]
          OBVIOUS
        <5>3. r \in Records /\ r.n = 0 /\ log_arr'[k][rec] = r
          BY <3>1, <5>1, <5>2 DEF Records
        <5> QED  BY <5>1, <5>3, ProfAssumption DEF Entry
      <4> QED  BY <4>1, <4>2
    <3>3. \A a \in 1..log_index[k] : Entry(log_arr'[k][a], t, a, made[t])
      BY <2>3, <3>2
    <3>4. pc'[t] \notin {"count", "fill", "trace"}
      BY <1>6, <2>5
    <3> QED  BY <1>7, <1>8, <1>10, <2>1, <3>3, <3>4 DEF ArrayInv
  <2> QED  BY <1>2, <2>4, <2>5
<1> QED  BY <1>9, <1>10

(* The step of a thread leaves the arrays and calls of the others alone.   *)
LEMMA OthersLeftAlone ==
  ASSUME TypeOK, SlotInv, WriterInv, NEW t \in Threads, OrderStep(t),
         NEW u \in Threads \ {t}
  PROVE  /\ pc'[u] = pc[u] /\ ret'[u] = ret[u] /\ made'[u] = made[u] /\ l'[u] = l[u]
         /\ why'[u] = why[u] /\ tid_index'[u] = tid_index[u]
         /\ tid_index[u] # 0 => log_index'[tid_index[u]] = log_index[tid_index[u]]
         /\ tid_index[u] # 0 => \A a \in 1..log_index[tid_index[u]] :
              log_arr'[tid_index[u]][a] = log_arr[tid_index[u]][a]
<1> USE DEF TypeOK, Goto
<1>1. CASE Call(t)
  BY <1>1 DEF Call, slots, cleanup, logs
<1>2. CASE Exit(t) \/ CleanupLock(t) \/ CleanupTest(t)
  BY <1>2 DEF Exit, CleanupLock, CleanupTest, slots, logs, env
<1>3. CASE Slotting(t)
  BY <1>3 DEF Slotting, GetLog, Lock, Scan, Claim, slots, cleanup, logs, env
<1>4. CASE Dumping(t)
  BY <1>4 DEF Dumping, OpenFile, DumpLine, CloseFile, NextSlot, Nested, slots, cleanup, logs, env
<1>5. CASE Recording(t)
  <2>1. /\ pc'[u] = pc[u] /\ ret'[u] = ret[u] /\ made'[u] = made[u] /\ l'[u] = l[u]
        /\ why'[u] = why[u] /\ tid_index'[u] = tid_index[u]
    <3>1. CASE Reserve(t)
      BY <3>1 DEF Reserve, slots, cleanup, env
    <3>2. CASE Count(t) \/ Fill(t) \/ Trace(t)
      BY <3>2 DEF Count, Fill, Trace, slots, cleanup, env
    <3> QED  BY <1>5, <3>1, <3>2 DEF Recording
  <2>2. ASSUME tid_index[u] # 0
        PROVE  /\ log_index'[tid_index[u]] = log_index[tid_index[u]]
               /\ \A a \in 1..log_index[tid_index[u]] :
                    log_arr'[tid_index[u]][a] = log_arr[tid_index[u]][a]
    <3>1. PICK m : m = tid_index[u]
      OBVIOUS
    <3>2. m # tid_index[t] /\ m \in Indices /\ \A a \in 1..log_index[m] : a \in 1..ARR_SIZE
      BY <2>2, <3>1, OtherArray
    <3>3. CASE Reserve(t)
      BY <3>1, <3>2, <3>3 DEF Reserve
    <3>4. CASE Count(t)
      <4>1. l[t].slot = tid_index[t]
        BY <3>4 DEF Count, WriterInv, Writing
      <4> QED  BY <3>1, <3>2, <3>4, <4>1 DEF Count
    <3>5. CASE Fill(t) \/ Trace(t)
      <4>1. l[t].slot = tid_index[t]
        BY <3>5 DEF Fill, Trace, WriterInv, Writing
      <4> QED  BY <3>1, <3>2, <3>5, <4>1 DEF Fill, Trace, Put
    <3> QED  BY <1>5, <3>1, <3>3, <3>4, <3>5 DEF Recording
  <2> QED  BY <2>1, <2>2
<1> QED  BY <1>1, <1>2, <1>3, <1>4, <1>5 DEF OrderStep

(* In order, every step keeps the calls of each array in order.            *)
LEMMA NextArrays ==
  ASSUME TypeOK, SlotInv, DumperInv, WriterInv, joined, CalmInv, OwnInv,
         \A u \in Threads : ArrayInv(u), NEW t \in Threads, OrderStep(t)
  PROVE  \A u \in Threads : ArrayInv(u)'
<1>1. ASSUME NEW u \in Threads \ {t}  PROVE ArrayInv(u)'
  BY <1>1, OthersLeftAlone, ArrayFrame
<1>2. ArrayInv(t)'
  <2>1. CASE Call(t) \/ Claim(t) \/ Recording(t)
    BY <2>1, CallArray, ClaimArray, ReserveArray, CountArray, FillArray DEF Recording
  <2>2. CASE GetLog(t) \/ Lock(t) \/ Scan(t)
    <3>1. /\ pc[t] \in {"get_log", "lock", "scan"}
          /\ \E x \in {"reserve", "lock", "scan", "claim"} : pc' = [pc EXCEPT ![t] = x]
          /\ UNCHANGED <<logs, ret, why, made, tid_index>>
      BY <2>2 DEF GetLog, Lock, Scan, Goto, slots, cleanup, env
    <3>2. pc'[t] \in {"reserve", "lock", "scan", "claim"}
      BY <3>1 DEF TypeOK
    <3>3. Pending(t)' = Pending(t)
      BY <3>1, <3>2 DEF Pending
    <3> QED  BY <3>1, <3>2, <3>3, ArrayMove DEF Writing
  <2>3. CASE Exit(t) \/ CleanupLock(t) \/ CleanupTest(t) \/ Dumping(t)
    <3>1. /\ pc[t] \in {"idle", "cleanup", "test", "slot", "dump", "next"}
          /\ \E x \in {"cleanup", "test", "slot", "dump", "next", "get_log"} :
               pc' = [pc EXCEPT ![t] = x] /\ (x = "get_log" => ret'[t] # "idle")
          /\ UNCHANGED <<logs, made, tid_index>>
          /\ why'[t] = "none" => why[t] = "none"
      <4>1. CASE Exit(t) \/ CleanupLock(t) \/ CleanupTest(t)
        BY <4>1 DEF Exit, CleanupLock, CleanupTest, Goto, slots, env, TypeOK
      <4>2. CASE OpenFile(t) \/ CloseFile(t) \/ NextSlot(t)
        BY <4>2 DEF OpenFile, CloseFile, NextSlot, Nested, Goto, slots, cleanup, env, TypeOK
      <4>3. CASE DumpLine(t)
        <5>1. pc[t] = "dump" /\ pc' = [pc EXCEPT ![t] = "dump"]
          BY <4>3 DEF DumpLine, TypeOK
        <5> QED  BY <4>3, <5>1 DEF DumpLine, slots, env
      <4> QED  BY <2>3, <4>1, <4>2, <4>3 DEF Dumping
    <3>2. /\ pc'[t] \in {"cleanup", "test", "slot", "dump", "next", "get_log"}
          /\ pc'[t] = "get_log" => ret'[t] # "idle"
      BY <3>1 DEF TypeOK
    <3>3. Pending(t)' = Pending(t)
      BY <3>1, <3>2 DEF Pending
    <3> QED  BY <3>1, <3>2, <3>3, ArrayMove DEF Writing
  <2> QED  BY <2>1, <2>2, <2>3 DEF OrderStep, Slotting
<1> QED  BY <1>1, <1>2

-----------------------------------------------------------------------------
(* The files *)

(* The thread that leaves is the only one that can become the dumper.      *)
LEMMA OneDumper ==
  ASSUME CalmInv, NEW t \in Threads, pc[t] # "idle" \/ Leaving = {},
         \A u \in Threads \ {t} : pc'[u] = pc[u] /\ ret'[u] = ret[u]
  PROVE  \A d \in Threads : Dumper(d)' => d = t
<1> SUFFICES ASSUME NEW d \in Threads \ {t}, Dumper(d)'  PROVE FALSE
  OBVIOUS
<1>1. Dumper(d)
  BY DEF Dumper
<1> QED  BY <1>1, Alone, DumperLeaves DEF Leaving

(* Before the dump.                                                        *)
LEMMA EmptyFiles ==
  ASSUME TypeOK, DumpInv, ~prof_cleanup_done, files' = files
  PROVE  \A t \in Threads : FileGood(t)' /\ files'[t] = <<>>
BY ProfAssumption DEF DumpInv, FileGood

(* A call of the application, an exit, and the start of the dump.          *)
LEMMA StartFiles ==
  ASSUME TypeOK, DumperInv, CalmInv, DumpInv, joined, FilesInv, NEW t \in Threads,
         \/ Call(t) \/ Exit(t) \/ CleanupLock(t) \/ (CleanupTest(t) /\ ~prof_cleanup_done)
  PROVE  FilesInv'
<1> USE DEF TypeOK, Goto
<1>1. ~prof_cleanup_done /\ files' = files
  <2>1. CASE Call(t) \/ Exit(t)
    <3>1. Leaving = {}
      BY <2>1 DEF Call, Exit, Leaving, CalmInv, Calm
    <3> QED  BY <2>1, <3>1 DEF CalmInv, Call, Exit, cleanup
  <2>2. CASE CleanupLock(t)
    BY <2>2 DEF CleanupLock, CalmInv, Calm
  <2>3. CASE CleanupTest(t) /\ ~prof_cleanup_done
    BY <2>3 DEF CleanupTest
  <2> QED  BY <2>1, <2>2, <2>3
<1>2. \A u \in Threads : FileGood(u)' /\ files'[u] = <<>>
  BY <1>1, EmptyFiles
<1>3. \A d \in Threads : ~Dumper(d)
  BY <1>1 DEF DumperInv, Dumper
<1>4. CASE Call(t) \/ Exit(t) \/ CleanupLock(t)
  <2>1. /\ \E x \in {"idle", "get_log", "cleanup", "test"} : pc' = [pc EXCEPT ![t] = x]
        /\ ret' = ret
    BY <1>4 DEF Call, Exit, CleanupLock
  <2>2. \A d \in Threads : Dumper(d)' => Dumper(d)
    BY <2>1 DEF Dumper
  <2> QED  BY <1>2, <1>3, <2>2 DEF FilesInv
<1>5. CASE CleanupTest(t) /\ ~prof_cleanup_done
  <2>1. pc' = [pc EXCEPT ![t] = "slot"] /\ i' = [i EXCEPT ![t] = 1] /\ UNCHANGED <<ret, tid_index>>
    BY <1>5 DEF CleanupTest, slots
  <2>2. \A d \in Threads : Dumper(d)' => d = t
    BY <1>3, <2>1 DEF Dumper
  <2>3. ASSUME NEW u \in Threads  PROVE FileInv(t, u)'
    <3>1. tid_index'[u] \in Nat /\ i'[t] = 1 /\ pc'[t] = "slot"
      BY <2>1 DEF Indices
    <3>2. At(t, "slot")' /\ ~At(t, "dump")' /\ ~At(t, "next")'
      BY <3>1 DEF At, InHook
    <3> QED  BY <1>2, <3>1, <3>2 DEF FileInv
  <2> QED  BY <1>2, <2>2, <2>3 DEF FilesInv
<1> QED  BY <1>4, <1>5

(* A hook of the dumper's, which may take a slot: one after those in use.  *)
LEMMA HookFiles ==
  ASSUME TypeOK, SlotInv, OwnInv, CalmInv, DumpInv, FilesInv, NEW t \in Threads,
         Slotting(t) \/ Recording(t)
  PROVE  FilesInv'
<1> USE DEF TypeOK, Goto
<1>1. /\ pc[t] \in InHook
      /\ \E x \in InHook \cup {ret[t]} : pc' = [pc EXCEPT ![t] = x]
      /\ UNCHANGED <<ret, i, j, files, made>>
  <2>1. CASE GetLog(t)
    BY <2>1 DEF GetLog, cleanup, env, InHook
  <2>2. CASE Lock(t) \/ Scan(t) \/ Claim(t)
    BY <2>2 DEF Lock, Scan, Claim, cleanup, env, InHook
  <2>3. CASE Reserve(t)
    <3>1. \E x \in {"count", ret[t]} : pc' = [pc EXCEPT ![t] = x]
      BY <2>3 DEF Reserve
    <3> QED  BY <2>3, <3>1 DEF Reserve, cleanup, env, InHook
  <2>4. CASE Count(t) \/ Fill(t) \/ Trace(t)
    BY <2>4 DEF Count, Fill, Trace, cleanup, env, InHook
  <2> QED  BY <2>1, <2>2, <2>3, <2>4 DEF Slotting, Recording
<1>2. /\ pc[t] # "idle" /\ pc'[t] \in InHook \cup {ret[t]}
      /\ \A u \in Threads \ {t} : pc'[u] = pc[u] /\ ret'[u] = ret[u]
  BY <1>1 DEF InHook
<1>3. \A d \in Threads : Dumper(d)' => d = t
  BY <1>2, OneDumper
<1>4. \A u \in Threads : FileGood(u)'
  BY <1>1 DEF FilesInv, FileGood, Entry
<1>5. ASSUME Dumper(t)', NEW u \in Threads  PROVE FileInv(t, u)'
  <2>1. ret[t] \in {"dump", "next"}
    BY <1>1, <1>2, <1>5 DEF Dumper, InHook
  <2>2. \A p \in {"slot", "dump", "next"} : At(t, p)' = At(t, p)
    BY <1>1, <1>2, <2>1 DEF At, InHook
  <2>3. FileInv(t, u)
    BY <2>1 DEF FilesInv, Dumper
  <2>4. CASE tid_index'[u] = tid_index[u]
    BY <1>1, <2>2, <2>3, <2>4 DEF FileInv, Dumped
  <2>5. CASE tid_index'[u] # tid_index[u]
    <3>1. Claim(t) /\ u = t /\ tid_index'[t] = l[t].slot
      BY <1>1, <2>5 DEF Slotting, Recording, GetLog, Lock, Scan, Claim, Reserve, Count, Fill,
           Trace, slots
    <3>2. pc[t] = "claim" /\ tid_index[t] = 0
      BY <3>1 DEF Claim, OwnInv
    <3>3. files[u] = <<>>
      BY <2>3, <3>1, <3>2 DEF FileInv
    <3>4. l[t].slot \in Slots /\ tids[l[t].slot] = Nil
      BY <3>2 DEF SlotInv, FreeSlots, Slots
    <3>5. i[t] \in Slots /\ tids[i[t]] # Nil
      BY <1>1, <2>1, ProfAssumption DEF DumpInv
    <3>6. l[t].slot > i[t]
      <4>1. l[t].slot # i[t] /\ ~(l[t].slot < i[t])
        BY <3>4, <3>5 DEF SlotInv
      <4>2. l[t].slot \in Nat /\ i[t] \in Nat
        BY <3>4, <3>5 DEF Slots, Indices
      <4> QED  BY <4>1, <4>2
    <3>7. /\ tid_index'[u] > i'[t] /\ files'[u] = <<>> /\ tid_index'[u] # 0
          /\ tid_index'[u] # i'[t] /\ ~(tid_index'[u] < i'[t])
      BY <1>1, <3>1, <3>3, <3>4, <3>5, <3>6 DEF Slots, Indices
    <3> QED  BY <3>7 DEF FileInv
  <2> QED  BY <2>4, <2>5
<1> QED  BY <1>3, <1>4, <1>5 DEF FilesInv

(* The dump of a thread opens its file, or goes on to the next slot.       *)
LEMMA WalkFiles ==
  ASSUME TypeOK, WriterInv, CalmInv, DumpInv, \A u \in Threads : ArrayInv(u), FilesInv,
         NEW t \in Threads, OpenFile(t) \/ CloseFile(t) \/ NextSlot(t)
  PROVE  FilesInv'
<1> USE DEF TypeOK, Goto
<1>1. /\ pc[t] \in {"slot", "dump", "next"}
      /\ UNCHANGED <<files, made, tid_index>>
      /\ \A u \in Threads \ {t} : pc'[u] = pc[u] /\ ret'[u] = ret[u]
  BY DEF OpenFile, CloseFile, NextSlot, Nested, slots, cleanup, env
<1>2. \A d \in Threads : Dumper(d)' => d = t
  BY <1>1, OneDumper
<1>3. \A u \in Threads : FileGood(u)'
  BY <1>1 DEF FilesInv, FileGood, Entry
<1>4. ASSUME NEW u \in Threads  PROVE FileInv(t, u)'
  <2>1. FileInv(t, u)
    BY <1>1 DEF FilesInv, Dumper
  <2>2. PICK k : k = tid_index[u]
    OBVIOUS
  <2>3. k \in Indices /\ k \in Nat /\ i[t] \in Nat /\ k = tid_index'[u]
    BY <1>1, <2>2 DEF Indices
  <2>4. \A p \in {"slot", "dump", "next"} : pc[t] = p => (At(t, p) /\ \A q : q # p => ~At(t, q))
    BY DEF At, InHook
  <2>5. CASE OpenFile(t)
    <3>1. /\ pc[t] = "slot" /\ ret' = [ret EXCEPT ![t] = "dump"] /\ j' = [j EXCEPT ![t] = 0]
          /\ pc' = [pc EXCEPT ![t] = IF in_trace[t] THEN "dump" ELSE "get_log"] /\ i' = i
      BY <2>5 DEF OpenFile, Nested
    <3>2. At(t, "dump")' /\ ~At(t, "slot")' /\ ~At(t, "next")'
      BY <3>1 DEF At, InHook
    <3>3. /\ k = 0 \/ k > i[t] \/ k = i[t] => files[u] = <<>>
          /\ k # 0 /\ k < i[t] => Dumped(u)
      BY <2>1, <2>2, <2>4, <3>1 DEF FileInv
    <3>4. Len(<<>>) = 0 /\ j'[t] = 0
      BY <3>1
    <3> QED  BY <1>1, <2>3, <3>1, <3>2, <3>3, <3>4 DEF FileInv, Dumped
  <2>6. CASE CloseFile(t)
    <3>1. /\ pc[t] = "dump" /\ ret' = [ret EXCEPT ![t] = "next"] /\ j[t] >= log_index[i[t]]
          /\ pc' = [pc EXCEPT ![t] = IF in_trace[t] THEN "next" ELSE "get_log"]
          /\ UNCHANGED <<i, j>>
      BY <2>6 DEF CloseFile, Nested, cleanup
    <3>2. At(t, "next")' /\ ~At(t, "slot")' /\ ~At(t, "dump")'
      BY <3>1 DEF At, InHook
    <3>3. /\ k = 0 \/ k > i[t] => files[u] = <<>>
          /\ k = i[t] => Len(files[u]) = j[t]
          /\ k # 0 /\ k < i[t] => Dumped(u)
      BY <2>1, <2>2, <2>4, <3>1 DEF FileInv
    <3>4. k # 0 /\ k = i[t] => Dumped(u)
      <4> SUFFICES ASSUME k # 0, k = i[t]  PROVE Dumped(u)
        OBVIOUS
      <4>1. j[t] \in 0..ARR_SIZE /\ log_index[k] \in 0..ARR_SIZE /\ made[u] \in Nat
        BY <2>3
      <4>2. why[t] # "none" /\ ~Pending(u)
        <5>1. why[t] # "none"
          BY <1>1, DumperLeaves DEF Dumper
        <5>2. \A v \in Threads \ {t} : pc[v] = "idle"
          BY <5>1 DEF CalmInv, Calm
        <5> QED  BY <3>1, <5>1, <5>2 DEF Pending
      <4>3. pc[u] # "count"
        BY <3>1, <4>2 DEF CalmInv, Calm
      <4>4. made[u] <= log_index[k] \/ log_index[k] = ARR_SIZE
        BY <2>2, <4>2, <4>3 DEF ArrayInv, Reached
      <4>5. Len(files[u]) = j[t] /\ j[t] >= log_index[k]
        BY <3>1, <3>3
      <4> QED  BY <4>1, <4>4, <4>5, ProfAssumption DEF Dumped
    <3> QED  BY <1>1, <2>3, <3>1, <3>2, <3>3, <3>4 DEF FileInv, Dumped
  <2>7. CASE NextSlot(t)
    <3>1. /\ pc[t] = "next" /\ pc' = [pc EXCEPT ![t] = "slot"] /\ i' = [i EXCEPT ![t] = i[t] + 1]
      BY <2>7 DEF NextSlot
    <3>2. At(t, "slot")' /\ ~At(t, "dump")' /\ ~At(t, "next")' /\ i'[t] = i[t] + 1
      BY <3>1 DEF At, InHook
    <3>3. /\ k = 0 \/ k > i[t] => files[u] = <<>>
          /\ k # 0 /\ (k < i[t] \/ k = i[t]) => Dumped(u)
      BY <2>1, <2>2, <2>4, <3>1 DEF FileInv
    <3>4. (k < i[t] + 1 <=> k < i[t] \/ k = i[t]) /\ (k > i[t] + 1 \/ k = i[t] + 1 => k > i[t])
      <4>1. PICK n : n = i[t]
        OBVIOUS
      <4>2. k \in Nat /\ n \in Nat
        BY <2>3, <4>1
      <4> HIDE DEF TypeOK
      <4>3. (k < n + 1 <=> k < n \/ k = n) /\ (k > n + 1 \/ k = n + 1 => k > n)
        BY <4>2
      <4> QED  BY <4>1, <4>3
    <3> QED  BY <1>1, <2>3, <3>2, <3>3, <3>4 DEF FileInv, Dumped
  <2> QED  BY <2>5, <2>6, <2>7
<1> QED  BY <1>2, <1>3, <1>4 DEF FilesInv

(* A line: the record after those of the file.                             *)
LEMMA LineFiles ==
  ASSUME TypeOK, SlotInv, WriterInv, CalmInv, OwnInv, DumpInv,
         \A u \in Threads : ArrayInv(u), FilesInv, NEW t \in Threads, DumpLine(t)
  PROVE  FilesInv'
<1> USE DEF TypeOK
<1>1. PICK k, u, r : k = i[t] /\ u = tids[k] /\ r = log_arr[k][j[t] + 1]
  OBVIOUS
<1>2. /\ pc[t] = "dump" /\ j[t] < log_index[k]
      /\ files' = [files EXCEPT ![u] = Append(files[u], r)]
      /\ j' = [j EXCEPT ![t] = j[t] + 1]
      /\ UNCHANGED <<pc, ret, i, tid_index, made>>
  BY <1>1 DEF DumpLine, slots, env
<1>3. /\ k \in Slots /\ u \in Threads /\ j[t] \in Nat /\ j[t] + 1 \in 1..ARR_SIZE
      /\ r \in Records \cup {Raw} /\ log_index[k] \in Nat
  <2>1. /\ i[t] \in Slots /\ tids[i[t]] \in Threads /\ j[t] \in Nat /\ j[t] + 1 \in 1..ARR_SIZE
        /\ log_arr[i[t]][j[t] + 1] \in Records \cup {Raw}
    BY LineTypes DEF DumpLine
  <2>2. log_index[i[t]] \in 0..ARR_SIZE
    BY <2>1 DEF Slots
  <2> QED  BY <1>1, <2>1, <2>2
<1>4. tid_index[u] = k /\ k # 0
  BY <1>1, <1>3, ProfAssumption DEF OwnInv, Slots
<1>5. FileInv(t, u) /\ At(t, "dump") /\ FileGood(u)
  BY <1>2, <1>3 DEF FilesInv, Dumper, At, InHook
<1>6. Len(files[u]) = j[t] /\ files[u] \in Seq(Records \cup {Raw})
  BY <1>1, <1>3, <1>4, <1>5 DEF FileInv
<1>7. /\ DOMAIN files'[u] = 1..j[t]+1 /\ Len(files'[u]) = j[t] + 1
      /\ files'[u][j[t]+1] = r /\ \A x \in 1..j[t] : files'[u][x] = files[u][x]
      /\ DOMAIN files[u] = 1..j[t]
      /\ \A v \in Threads \ {u} : files'[v] = files[v]
  BY <1>2, <1>3, <1>6, AppendProperties, LenProperties
(* The record is a call of the thread, or one after the last. *)
<1>8. Entry(r, u, j[t] + 1, made[u])
  <2>1. why[t] # "none"
    BY <1>2, DumperLeaves DEF Dumper
  <2>2. pc[u] \in {"idle", "dump"}
    <3>1. \A v \in Threads : v # t => pc[v] = "idle"
      BY <2>1 DEF CalmInv, Calm
    <3> QED  BY <1>2, <1>3, <3>1
  <2>3. Reached(u) = made[u]
    BY <2>2 DEF Reached, Pending
  <2>4. j[t] + 1 \in 1..log_index[k]
    BY <1>2, <1>3
  <2>5. ArrayInv(u)
    BY <1>3
  <2>6. \A a \in 1..log_index[k] : Entry(log_arr[k][a], u, a, Reached(u))
    BY <1>4, <2>2, <2>5 DEF ArrayInv
  <2> QED  BY <1>1, <2>3, <2>4, <2>6
<1>9. ASSUME NEW v \in Threads  PROVE FileGood(v)'
  <2>1. CASE v # u
    BY <1>2, <1>7, <2>1 DEF FilesInv, FileGood, Entry
  <2>2. CASE v = u
    <3>1. \A x \in 1..j[t] : Entry(files'[u][x], u, x, made[u])
      BY <1>5, <1>7 DEF FileGood
    <3>2. \A x \in 1..j[t]+1 : x \in 1..j[t] \/ x = j[t] + 1
      BY <1>3
    <3>3. \A x \in DOMAIN files'[u] : Entry(files'[u][x], u, x, made[u])
      BY <1>7, <1>8, <3>1, <3>2
    <3> QED  BY <1>2, <1>3, <1>7, <2>2, <3>3 DEF FileGood, Entry
  <2> QED  BY <2>1, <2>2
<1>10. \A d \in Threads : Dumper(d)' => d = t
  BY <1>2, OneDumper
<1>11. ASSUME NEW v \in Threads  PROVE FileInv(t, v)'
  <2>1. FileInv(t, v)
    BY <1>2 DEF FilesInv, Dumper
  <2>2. At(t, "dump")' /\ ~At(t, "slot")' /\ ~At(t, "next")' /\ j'[t] = j[t] + 1
    BY <1>2 DEF At, InHook
  <2>3. CASE v = u
    <3>1. tid_index'[v] = k /\ i'[t] = k
      BY <1>1, <1>2, <1>4, <2>3
    <3>2. ~(k > k) /\ ~(k < k)
      BY <1>3 DEF Slots, Indices
    <3> QED  BY <1>4, <1>7, <2>2, <2>3, <3>1, <3>2 DEF FileInv
  <2>4. CASE v # u
    <3>1. tid_index[v] # k
      BY <1>1, <1>4, <2>4 DEF SlotInv
    <3> QED  BY <1>1, <1>2, <1>7, <2>1, <2>2, <2>4, <3>1 DEF FileInv, Dumped
  <2> QED  BY <2>3, <2>4
<1> QED  BY <1>9, <1>10, <1>11 DEF FilesInv

-----------------------------------------------------------------------------
(* The end *)

(* Every step keeps the invariant of an exit in order.                     *)
LEMMA NextOrderInv ==
  ASSUME TypeOK, SlotInv, DumperInv, WriterInv, DumpInv, OrderInv, [Next]_vars
  PROVE  OrderInv'
<1>1. CASE UNCHANGED vars
  <2>1. UNCHANGED <<tids, log_arr, log_index, tid, tid_index, prof_cleanup_done, in_trace, pc, ret,
                    l, i, j, why, files, proc, joined, made>>
    BY <1>1 DEF vars, slots, logs, cleanup, env
  <2>2. (CalmInv => CalmInv') /\ (OwnInv => OwnInv')
    BY <2>1 DEF CalmInv, Calm, OwnInv, Leaving
  <2>3. \A t \in Threads : ArrayInv(t) => ArrayInv(t)'
    BY <2>1 DEF ArrayInv, Reached, Pending, Entry
  <2>4. FilesInv => FilesInv'
    BY <2>1 DEF FilesInv, FileGood, FileInv, Dumped, Entry, At, Dumper
  <2> QED  BY <2>1, <2>2, <2>3, <2>4 DEF OrderInv, Ordered
<1>2. CASE Next
  <2> SUFFICES ASSUME joined', proc' = "running"  PROVE Ordered'
    BY DEF OrderInv
  <2>1. joined /\ proc = "running"
    BY <1>2, StepInOrder DEF Next
  <2>2. PICK t \in Threads : OrderStep(t)
    BY <1>2, StepInOrder
  <2>3. CalmInv /\ OwnInv /\ (\A u \in Threads : ArrayInv(u)) /\ FilesInv
    BY <2>1 DEF OrderInv, Ordered
  <2>4. CalmInv' /\ OwnInv'
    BY <2>1, <2>2, <2>3, NextCalm, NextOwn
  <2>5. \A u \in Threads : ArrayInv(u)'
    BY <2>1, <2>2, <2>3, NextArrays
  <2>6. FilesInv'
    BY <2>1, <2>2, <2>3, StartFiles, HookFiles, WalkFiles, LineFiles DEF OrderStep, Dumping
  <2> QED  BY <2>4, <2>5, <2>6 DEF Ordered
<1> QED  BY <1>1, <1>2

(* A file that is a prefix of the array, and of all the calls it has, is   *)
(* complete.                                                               *)
LEMMA CompleteFile ==
  ASSUME TypeOK, NEW t \in Threads, FileGood(t), Dumped(t)
  PROVE  Complete(t)
<1>1. PICK len : len = Len(files[t])
  OBVIOUS
<1>2. len \in Nat /\ DOMAIN files[t] = 1..len /\ made[t] \in Nat /\ len <= ARR_SIZE
  BY <1>1, LenProperties DEF TypeOK, FileGood
<1>3. \A x \in 1..len : Entry(files[t][x], t, x, made[t])
  BY <1>2 DEF FileGood
<1>4. Kept(t) = {x \in 1..len : x <= made[t]}
  <2>1. made[t] <= len \/ len = ARR_SIZE
    BY <1>1 DEF Dumped
  <2> QED  BY <1>2, <2>1, ProfAssumption DEF Kept
<1>5. \A x \in Kept(t) : x \in Nat /\ x # 0 /\ files[t][x] = [by |-> t, n |-> x, whole |-> TRUE]
  BY <1>2, <1>3, <1>4 DEF Entry
<1>6. Logged(t) = Kept(t)
  <2>1. ASSUME NEW x \in 1..len  PROVE files[t][x] = Raw \/ files[t][x].n # 0 <=> x <= made[t]
    <3>1. CASE x <= made[t]
      <4>1. PICK r : r = [by |-> t, n |-> x, whole |-> TRUE]
        OBVIOUS
      <4>2. x # 0 /\ files[t][x] = r
        BY <1>4, <1>5, <3>1, <4>1
      <4>3. r.n = x
        BY <4>1
      <4> QED  BY <3>1, <4>2, <4>3
    <3>2. CASE ~(x <= made[t])
      BY <1>3, <3>2 DEF Entry
    <3> QED  BY <3>1, <3>2
  <2> QED  BY <1>2, <1>4, <2>1 DEF Logged
<1>7. ASSUME NEW x \in Logged(t)
      PROVE  files[t][x] \in [by : {t}, n : Kept(t), whole : {TRUE}] /\ files[t][x].n = x
  <2>1. PICK r : r = [by |-> t, n |-> x, whole |-> TRUE]
    OBVIOUS
  <2>2. r \in [by : {t}, n : Kept(t), whole : {TRUE}] /\ r.n = x
    BY <1>6, <2>1
  <2>3. files[t][x] = r
    BY <1>5, <1>6, <2>1
  <2> QED  BY <2>2, <2>3
<1>8. \A x \in Logged(t) : files[t][x].n = x
  BY <1>7
<1> QED  BY <1>6, <1>7, <1>8 DEF Complete

(* Nothing is lost of a complete file when the process ends.               *)
LEMMA CompleteStays ==
  ASSUME UNCHANGED <<files, made>>, NEW t \in Threads, Complete(t)
  PROVE  Complete(t)'
<1>1. Logged(t)' = Logged(t)
  BY DEF Logged
<1>2. Kept(t)' = Kept(t)
  BY DEF Kept
<1> QED  BY <1>1, <1>2 DEF Complete

(* The process that ends in order has dumped all.                          *)
LEMMA NextLogComplete ==
  ASSUME TypeOK, SlotInv, DumperInv, WriterInv, DumpInv, OrderInv, LogComplete, [Next]_vars
  PROVE  LogComplete'
<1>1. CASE UNCHANGED vars
  <2>1. UNCHANGED <<joined, proc, files, made>>
    BY <1>1 DEF vars, cleanup, env
  <2> QED  BY <2>1, CompleteStays DEF LogComplete
<1>2. CASE Next
  <2> SUFFICES ASSUME joined', proc' = "exited"  PROVE LogComplete'
    BY DEF LogComplete
  <2>1. PICK t \in Threads : Call(t) \/ Exit(t) \/ Work(t) \/ \E s \in Signals : Signal(t, s)
    BY <1>2 DEF Next
  <2>2. joined /\ proc = "running"
    BY <1>2, <2>1 DEF Next, Work, Call, Exit, Signal, GetLog, Lock, Scan, Claim, TooMany, Reserve,
         Count, Fill, Trace, CleanupLock, CleanupTest, OpenFile, OpenFails, AllDumped, DumpLine,
         DumpTorn, CloseFile, NextSlot, env
  <2>3. Ordered
    BY <2>2 DEF OrderInv
  <2>4. AllDumped(t)
    <3>1. ~CleanupTest(t)
      <4> SUFFICES ASSUME CleanupTest(t)  PROVE FALSE
        OBVIOUS
      <4>1. pc[t] = "test"
        BY DEF CleanupTest, Goto
      <4>2. ~prof_cleanup_done
        BY <2>3, <4>1 DEF Ordered, CalmInv, Calm
      <4> QED  BY <2>2, <4>2 DEF CleanupTest
    <3>2. ~TooMany(t) /\ ~OpenFails(t) /\ \A s \in Signals : ~Signal(t, s)
      BY <2>2 DEF TooMany, OpenFails, Signal
    <3>3. ~DumpTorn(t)
      BY DEF DumpTorn
    <3> QED
      BY <2>1, <2>2, <3>1, <3>2, <3>3 DEF Work, Call, Exit, GetLog, Lock, Scan, Claim, Reserve,
         Count, Fill, Trace, CleanupLock, OpenFile, DumpLine, CloseFile, NextSlot, env
  <2>5. pc[t] = "slot" /\ ~IsUsed(t) /\ UNCHANGED <<files, made>>
    BY <2>4 DEF AllDumped, cleanup
  <2>6. ASSUME NEW u \in Threads  PROVE FileGood(u) /\ Dumped(u)
    <3>1. FileGood(u) /\ FileInv(t, u) /\ ArrayInv(u)
      BY <2>3, <2>5 DEF Ordered, FilesInv, Dumper
    <3>2. PICK k : k = tid_index[u]
      OBVIOUS
    <3>3. k \in Indices /\ k \in Nat /\ k < MAX_TID /\ i[t] \in Nat /\ MAX_TID \in Nat
          /\ i[t] <= MAX_TID /\ i[t] # 0
      <4>1. k \in Indices /\ i[t] \in 1..MAX_TID /\ MAX_TID \in Nat
        BY <3>2, ProfAssumption DEF TypeOK
      <4> QED  BY <4>1 DEF Indices
    <3>4. CASE k = 0
      <4>1. why[t] # "none" /\ \A v \in Threads : v # t => pc[v] = "idle"
        BY <2>3, <2>5, DumperLeaves DEF Ordered, CalmInv, Calm, Dumper
      <4>2. Reached(u) = made[u]
        BY <2>5, <4>1 DEF Reached, Pending
      <4>3. made[u] = 0
        BY <3>1, <3>2, <3>4, <4>2 DEF ArrayInv
      <4>4. files[u] = <<>>
        BY <3>1, <3>2, <3>4 DEF FileInv
      <4> QED  BY <3>1, <4>3, <4>4 DEF Dumped
    <3>5. CASE k # 0
      <4>1. k \in Slots /\ tids[k] = u /\ u # Nil
        BY <3>2, <3>3, <3>5, ProfAssumption DEF SlotInv, Slots
      <4>2. k < i[t]
        <5> SUFFICES ASSUME ~(k < i[t])  PROVE FALSE
          OBVIOUS
        <5>1. i[t] < MAX_TID /\ i[t] <= k
          BY <3>3
        <5>2. tids[i[t]] = Nil /\ i[t] \in Slots
          BY <2>5, <3>3, <5>1 DEF IsUsed, Slots, Indices
        <5>3. i[t] < k
          BY <3>3, <4>1, <5>1, <5>2
        <5> QED  BY <4>1, <5>2, <5>3 DEF SlotInv
      <4> QED  BY <3>1, <3>2, <3>5, <4>2 DEF FileInv
    <3> QED  BY <3>4, <3>5
  <2> QED  BY <2>5, <2>6, CompleteFile, CompleteStays DEF LogComplete
<1> QED  BY <1>1, <1>2

-----------------------------------------------------------------------------
(* The theorems *)

(* Inv is inductive.                                                       *)
LEMMA NextInv == Inv /\ [Next]_vars => Inv'
<1> SUFFICES ASSUME Inv, [Next]_vars  PROVE Inv'
  OBVIOUS
<1> USE DEF Inv
<1>1. TypeOK'
  BY NextTypeOK
<1>2. SlotInv' /\ DumperInv'
  BY NextSlotInv, NextDumperInv
<1>3. WriterInv' /\ CallInv'
  BY NextWriterInv, NextCallInv
<1>4. DumpInv' /\ DumpedOnce'
  BY NextDumpInv
<1>5. OrderInv' /\ LogComplete'
  BY NextOrderInv, NextLogComplete
<1> QED  BY <1>1, <1>2, <1>3, <1>4, <1>5

LEMMA InvHolds == Spec => []Inv
BY InitInv, NextInv, PTL DEF Spec

(* What two writers and two slots have of the invariant.                   *)
LEMMA InvOwners == Inv => OneOwnerEach /\ LockNotReentered /\ DumpedOnce
<1> SUFFICES ASSUME Inv  PROVE OneOwnerEach /\ LockNotReentered /\ DumpedOnce
  OBVIOUS
<1>1. LockNotReentered
  BY DEF Inv, SlotInv, LockNotReentered
<1>2. OneSlotEach
  BY DEF Inv, SlotInv, OneSlotEach, Slots
<1>3. OneWriterPerRecord
  <2> SUFFICES ASSUME NEW t \in Threads, NEW u \in Threads,
                      pc[t] \in Writing, pc[u] \in Writing, l[t] = l[u]
               PROVE  t = u
    BY DEF OneWriterPerRecord, Writing
  <2>1. tid_index[t] = tid_index[u]
    BY WriterCell DEF Inv
  <2> QED  BY <2>1, OwnSlots DEF Inv
<1> QED  BY <1>1, <1>2, <1>3 DEF OneOwnerEach, Inv

(* The state of the log keeps its types: every index stays in its array.   *)
THEOREM TypeCorrect == Spec => []TypeOK
<1>1. Inv => TypeOK
  BY DEF Inv
<1> QED  BY <1>1, InvHolds, PTL

(* Slots and records have one owner each: malloc, free and the others log  *)
(* in arrays that nothing guards, and still no two threads write one       *)
(* record; get_log hands out the slots without a gap.                      *)
THEOREM OwnersAreUnique == Spec => []OneOwnerEach
BY InvOwners, InvHolds, PTL

(* A hook that the dump calls never waits for the lock of the slots when   *)
(* its own thread has it, from a handler that interrupted get_log or from  *)
(* the exit get_log calls.                                                 *)
THEOREM NoSelfDeadlock == Spec => []LockNotReentered
BY InvOwners, InvHolds, PTL

(* prof_cleanup dumps no call twice, whatever runs it, however often, and  *)
(* whatever the other threads log meanwhile.                               *)
THEOREM CallsDumpedOnce == Spec => []DumpedOnce
BY InvOwners, InvHolds, PTL

(* An exit of the application whose other threads have ended or wait dumps *)
(* everything: the file of each thread has its calls in order, whole and   *)
(* once, as many of them as its array holds, and none is lost to the hooks *)
(* that the dump itself runs into.                                         *)
THEOREM DumpIsComplete == Spec => []LogComplete
<1>1. Inv => LogComplete
  BY DEF Inv
<1> QED  BY <1>1, InvHolds, PTL

=============================================================================
