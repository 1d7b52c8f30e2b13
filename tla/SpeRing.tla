------------------------------- MODULE SpeRing -------------------------------
(***************************************************************************)
(* The SPE self profiler (src/tools/spe_self_profile.c, started and        *)
(* stopped by spe_preload.c): a consumer empties the rings that the kernel *)
(* fills, one per CPU, into a file.  In mode "self" the consumer is a      *)
(* thread of the program, from its constructor to its destructor; in mode  *)
(* "wrapper" it is the main function, which has forked the program.        *)
(*                                                                         *)
(* Positions count units of 8 bytes, to which the kernel aligns records,   *)
(* so that the header of a record is its first unit.                       *)
(***************************************************************************)
EXTENDS Naturals, SequencesExt

CONSTANTS
  NCpus,
  BUF_SIZE,         \* units in a ring
  Sizes,            \* units in a record
  MaxRecords,       \* bound: records of all CPUs
  Nil

ASSUME SpeAssumption ==
  /\ NCpus \in Nat \ {0}
  /\ BUF_SIZE \in Nat \ {0} /\ \E n \in 0..BUF_SIZE : BUF_SIZE = 2^n
  /\ Sizes \subseteq 1..BUF_SIZE

VARIABLES
  mode,
  ring, data_head, data_tail,   \* shared with the kernel
  log,              \* what the kernel put into the rings
  due,              \* data_head when the profile had to be complete
  perf_fds,         \* CPUs with an event and a mapped ring
  enabled,          \* CPUs whose event counts
  profiling_active,
  output_file, out, \* is it open?  its lines
  pc, i, head, tail, consumed, final,   \* the consumer
  app,              \* the program that is preloaded
  child, child_exited,          \* the program that is wrapped
  proc              \* the process of the consumer

kernel == <<ring, data_head, log>>
events == <<perf_fds, enabled>>
parse == <<i, head, tail, consumed, final>>
program == <<app, child, child_exited>>
vars == <<mode, kernel, data_tail, due, events, profiling_active, output_file, out, pc, parse,
          program, proc>>

CPUs == 0..NCpus-1
Records == [at : Nat, size : Sizes, sample : BOOLEAN]
Units == Nat \X (1..BUF_SIZE)                 \* which unit of which record
Lines == [cpu : CPUs, units : Seq(Units \cup {Nil})]

TypeOK ==
  /\ mode \in {"self", "wrapper"}
  /\ ring \in [CPUs -> [0..BUF_SIZE-1 -> Units \cup {Nil}]]
  /\ {data_head, data_tail, due} \subseteq [CPUs -> Nat]
  /\ \A c \in CPUs : /\ data_tail[c] <= data_head[c] /\ due[c] <= data_head[c]
                     /\ data_head[c] <= data_tail[c] + BUF_SIZE
  /\ log \in [CPUs -> Seq(Records)]
  /\ enabled \subseteq perf_fds /\ perf_fds \subseteq CPUs
  /\ {profiling_active, output_file, final, child_exited} \subseteq BOOLEAN
  /\ out \in Seq(Lines)
  /\ pc \in {"none", "fork", "open", "enable", "test", "cpu", "read", "flag", "wait", "poll",
             "cleanup", "done"}
  /\ i \in 0..NCpus /\ {head, tail, consumed} \subseteq Nat
  /\ app \in {"none", "init", "running", "join", "ended"}
  /\ child \in {"none", "running", "stopped", "exited"}
  /\ proc \in {"running", "killed"}

Init ==
  /\ mode \in {"self", "wrapper"}
  /\ ring = [c \in CPUs |-> [p \in 0..BUF_SIZE-1 |-> Nil]]
  /\ data_head = [c \in CPUs |-> 0] /\ data_tail = data_head /\ due = data_head
  /\ log = [c \in CPUs |-> <<>>]
  /\ perf_fds = {} /\ enabled = {}
  /\ profiling_active = FALSE /\ output_file = FALSE /\ out = <<>>
  /\ pc = IF mode = "self" THEN "none" ELSE "fork"
  /\ i = 0 /\ head = 0 /\ tail = 0 /\ consumed = 0 /\ final = FALSE
  /\ app = IF mode = "self" THEN "init" ELSE "none"
  /\ child = "none" /\ child_exited = FALSE /\ proc = "running"

-----------------------------------------------------------------------------
(* The kernel and the programs *)

Slot(p) == p % BUF_SIZE

(* Does the kernel count?  pid -1, when fork failed, means every process.  *)
Profiled(c) == c \in enabled /\ child \in {"none", "running"}

(* A record that does not fit is lost, which is no step.  Until data_head  *)
(* has moved, the consumer does not look at the units.                     *)
Put(c, n, isSample) ==
  LET r == Len(log[c]) + 1
      OfRecord(p) == {k \in 1..n : Slot(data_head[c] + k - 1) = p}
  IN  /\ Profiled(c) /\ FoldFunction(LAMBDA x, y : Len(x) + y, 0, log) < MaxRecords
      /\ data_head[c] + n <= data_tail[c] + BUF_SIZE
      /\ ring' = [ring EXCEPT ![c] = [p \in 0..BUF_SIZE-1 |->
                    IF OfRecord(p) = {} THEN @[p] ELSE <<r, CHOOSE k \in OfRecord(p) : TRUE>>]]
      /\ data_head' = [data_head EXCEPT ![c] = @ + n]
      /\ log' = [log EXCEPT ![c] = Append(@, [at |-> data_head[c], size |-> n, sample |-> isSample])]
      /\ UNCHANGED <<mode, data_tail, due, events, profiling_active, output_file, out, pc, parse,
                     program, proc>>

(* The kernel sends SIGCHLD for a child that stops or goes on, too. *)
ChildSignals(from, to) ==
  /\ child = from /\ child' = to
  /\ child_exited' = TRUE
  /\ due' = IF to = "exited" THEN data_head ELSE due
  /\ UNCHANGED <<mode, kernel, data_tail, events, profiling_active, output_file, out, pc, parse,
                 app, proc>>

ChildStops == ChildSignals("running", "stopped")
ChildContinues == ChildSignals("stopped", "running")
ChildExits == ChildSignals("running", "exited") \/ ChildSignals("stopped", "exited")

-----------------------------------------------------------------------------
(* The program that is preloaded: constructor and destructor *)

(* KUMF_SKIP. *)
Skip ==
  /\ app = "init" /\ app' = "running"
  /\ UNCHANGED <<mode, kernel, data_tail, due, events, profiling_active, output_file, out, pc,
                 parse, child, child_exited, proc>>

(* The file cannot be opened; or it can, and pthread_create may fail, at   *)
(* which nobody looks.                                                     *)
spe_profile_start ==
  /\ app = "init" /\ app' = "running"
  /\ \/ UNCHANGED <<profiling_active, output_file, pc>>
     \/ profiling_active' = TRUE /\ output_file' = TRUE /\ pc' \in {"none", "open"}
  /\ UNCHANGED <<mode, kernel, data_tail, due, events, out, parse, child, child_exited, proc>>

spe_profile_stop ==
  /\ app = "running"
  /\ app' = IF profiling_active THEN "join" ELSE "ended"
  /\ profiling_active' = FALSE
  /\ due' = IF profiling_active THEN data_head ELSE due
  /\ UNCHANGED <<mode, kernel, data_tail, events, output_file, out, pc, parse, child,
                 child_exited, proc>>

Join ==
  /\ app = "join" /\ pc = "done"
  /\ app' = "ended" /\ output_file' = FALSE
  /\ UNCHANGED <<mode, kernel, data_tail, due, events, profiling_active, out, pc, parse, child,
                 child_exited, proc>>

(* profile_thread names no thread: pthread_join may do anything. *)
JoinNothing ==
  /\ app = "join" /\ pc = "none"
  /\ \/ app' = "ended" /\ output_file' = FALSE /\ UNCHANGED proc
     \/ proc' = "killed" /\ UNCHANGED <<app, output_file>>
  /\ UNCHANGED <<mode, kernel, data_tail, due, events, profiling_active, out, pc, parse, child,
                 child_exited>>

-----------------------------------------------------------------------------
(* The consumer: start *)

Goto(from, to) == pc = from /\ pc' = to

Fork ==
  /\ \/ Goto("fork", "open") /\ output_file' = TRUE /\ profiling_active' = TRUE
     \/ Goto("fork", "done") /\ UNCHANGED <<output_file, profiling_active>>
  /\ child' \in {"none", "running"}
  /\ UNCHANGED <<mode, kernel, data_tail, due, events, out, parse, app, child_exited, proc>>

(* perf_event_open or mmap may fail for any CPU. *)
OpenOwnEvents ==
  /\ mode = "self"
  /\ Goto("open", "enable")
  /\ perf_fds' \in SUBSET CPUs
  /\ UNCHANGED <<mode, kernel, data_tail, due, enabled, profiling_active, output_file, out, parse,
                 program, proc>>

(* They do for all CPUs when the child has exited.  Events of a child      *)
(* count at once.                                                          *)
OpenChildEvents ==
  /\ mode = "wrapper"
  /\ Goto("open", "cpu")
  /\ perf_fds' \in IF child = "exited" THEN {{}} ELSE SUBSET CPUs
  /\ enabled' = perf_fds'
  /\ UNCHANGED <<mode, kernel, data_tail, due, profiling_active, output_file, out, parse,
                 program, proc>>

Enable ==
  /\ Goto("enable", "test")
  /\ enabled' = perf_fds
  /\ UNCHANGED <<mode, kernel, data_tail, due, perf_fds, profiling_active, output_file, out,
                 parse, program, proc>>

(* A round begins; the last one is the final drain. *)
BeginRound(from, last) ==
  /\ Goto(from, "cpu")
  /\ i' = 0 /\ final' = last
  /\ UNCHANGED <<mode, kernel, data_tail, due, events, profiling_active, output_file, out, head,
                 tail, consumed, program, proc>>

(* Mutant: the loop does not look at the flag. *)
Test_Forever == BeginRound("test", FALSE)

Test == BeginRound("test", ~profiling_active)

-----------------------------------------------------------------------------
(* parse_spe_buffer for each CPU *)

NextCpu == i' = i + 1

SkipCpu ==
  /\ Goto("cpu", "cpu")
  /\ i < NCpus
  /\ i \in perf_fds => data_head[i] = data_tail[i]
  /\ NextCpu
  /\ UNCHANGED <<mode, kernel, data_tail, due, events, profiling_active, output_file, out, head,
                 tail, consumed, final, program, proc>>

(* Mutant: the room is given back before it is read. *)
ReadHead_Acknowledge ==
  /\ Goto("cpu", "read")
  /\ i \in perf_fds /\ data_head[i] # data_tail[i]
  /\ head' = data_head[i] /\ tail' = data_tail[i] /\ consumed' = 0
  /\ data_tail' = [data_tail EXCEPT ![i] = data_head[i]]
  /\ UNCHANGED <<mode, kernel, due, events, profiling_active, output_file, out, i, final,
                 program, proc>>

ReadHead ==
  /\ Goto("cpu", "read")
  /\ i \in perf_fds /\ data_head[i] # data_tail[i]
  /\ head' = data_head[i] /\ tail' = data_tail[i] /\ consumed' = 0
  /\ UNCHANGED <<mode, kernel, data_tail, due, events, profiling_active, output_file, out, i,
                 final, program, proc>>

(* The record at tail + consumed.  Its line has the bytes that follow its  *)
(* header in the address space: past the end of the ring that is whatever  *)
(* comes next (Nil), or nothing at all.  No record of the kernel's has size *)
(* zero, at which the code would stop the round.                           *)
ReadRecord ==
  LET p == Slot(tail + consumed)
      r == log[i][ring[i][p][1]]
  IN  /\ Goto("read", "read")
      /\ tail + consumed < head
      /\ \/ /\ out' = IF r.sample
                      THEN Append(out, [cpu |-> i, units |-> [k \in 1..r.size |->
                             IF p + k - 1 < BUF_SIZE THEN ring[i][p + k - 1] ELSE Nil]])
                      ELSE out
            /\ consumed' = consumed + r.size
            /\ UNCHANGED proc
         \/ /\ r.sample /\ p + r.size > BUF_SIZE
            /\ proc' = "killed"
            /\ UNCHANGED <<out, consumed>>
      /\ UNCHANGED <<mode, kernel, data_tail, due, events, profiling_active, output_file, i,
                     head, tail, final, program>>

(* Mutant: what came in the meantime is given back, too. *)
TailAfter_Fresh == data_head[i]
TailAfter == head

(* The wrapper closes the event after the final drain of its ring. *)
Acknowledge ==
  /\ Goto("read", "cpu")
  /\ tail + consumed >= head
  /\ data_tail' = [data_tail EXCEPT ![i] = TailAfter]
  /\ enabled' = IF final /\ mode = "wrapper" THEN enabled \ {i} ELSE enabled
  /\ NextCpu
  /\ UNCHANGED <<mode, kernel, due, perf_fds, profiling_active, output_file, out, head, tail,
                 consumed, final, program, proc>>

EndRound ==
  /\ i = NCpus
  /\ Goto("cpu", IF final THEN "cleanup" ELSE IF mode = "self" THEN "test" ELSE "flag")
  /\ UNCHANGED <<mode, kernel, data_tail, due, events, profiling_active, output_file, out, parse,
                 program, proc>>

-----------------------------------------------------------------------------
(* The consumer: how it ends *)

ReadFlag ==
  /\ Goto("flag", IF child_exited THEN "wait" ELSE "poll")
  /\ UNCHANGED <<mode, kernel, data_tail, due, events, profiling_active, output_file, out, parse,
                 program, proc>>

(* waitpid blocks, and no ring is emptied, until the child has exited. *)
Wait ==
  /\ child # "running" /\ child # "stopped"
  /\ BeginRound("wait", TRUE)

(* WNOHANG: the child has exited, there is none, or it runs on. *)
Poll == BeginRound("poll", child \in {"exited", "none"})

Cleanup ==
  /\ mode = "self"
  /\ Goto("cleanup", "done")
  /\ enabled' = {} /\ perf_fds' = {}
  /\ UNCHANGED <<mode, kernel, data_tail, due, profiling_active, output_file, out, parse, program,
                 proc>>

(* The wrapper has closed the events of the rings it drained. *)
Return ==
  /\ mode = "wrapper"
  /\ Goto("cleanup", "done")
  /\ enabled' = {} /\ perf_fds' = {}
  /\ output_file' = FALSE
  /\ UNCHANGED <<mode, kernel, data_tail, due, profiling_active, out, parse, program, proc>>

-----------------------------------------------------------------------------
Consume ==
  \/ Fork \/ OpenOwnEvents \/ OpenChildEvents \/ Enable \/ Test \/ SkipCpu \/ ReadHead
  \/ ReadRecord \/ Acknowledge \/ EndRound \/ ReadFlag \/ Wait \/ Poll \/ Cleanup \/ Return

Next ==
  /\ proc = "running"
  /\ \/ \E c \in CPUs, n \in Sizes, b \in BOOLEAN : Put(c, n, b)
     \/ ChildStops \/ ChildContinues \/ ChildExits
     \/ Skip \/ spe_profile_start \/ spe_profile_stop \/ Join \/ JoinNothing \/ Consume

(* The consumer is scheduled, and so is a destructor that can go on. *)
Spec ==
  /\ Init /\ [][Next]_vars
  /\ WF_vars(proc = "running" /\ Consume)
  /\ WF_vars(proc = "running" /\ (Join \/ JoinNothing))

-----------------------------------------------------------------------------
(* The samples in the ring of c, by their numbers, the places in the file  *)
(* of the lines of c, and which of a set of numbers n is.                  *)
Samples(c) == {r \in DOMAIN log[c] : log[c][r].sample}
LinesOf(c) == {k \in DOMAIN out : out[k].cpu = c}
Rank(S, n) == Cardinality({m \in S : m <= n})

EndOf(c, r) == log[c][r].at + log[c][r].size

IsLineOf(x, c, r) ==
  /\ Len(x.units) = log[c][r].size
  /\ \A k \in DOMAIN x.units :
       x.units[k] = IF Slot(log[c][r].at) + k - 1 < BUF_SIZE THEN <<r, k>> ELSE Nil

(* The file has the samples of each CPU in order, each once, and no byte   *)
(* of another record, however often the kernel goes around the ring.  What *)
(* lies past the end of the ring is not in the file: the profiler does not *)
(* follow a record around.                                                 *)
LinesAreSamples ==
  \A c \in CPUs : \A k \in LinesOf(c) :
    \E r \in Samples(c) : Rank(Samples(c), r) = Rank(LinesOf(c), k) /\ IsLineOf(out[k], c, r)

(* All samples of c up to position p have been written. *)
WrittenUpTo(c, p) ==
  \A r \in Samples(c) : EndOf(c, r) <= p => Rank(Samples(c), r) <= Cardinality(LinesOf(c))

(* No sample is skipped: room goes back to the kernel only after what it   *)
(* held was written, and when spe_profile_stop or the wrapper returns, all *)
(* that was in the rings when the program stopped is in the file, on every *)
(* CPU.                                                                    *)
NoSampleSkipped ==
  \A c \in CPUs :
    /\ WrittenUpTo(c, data_tail[c])
    /\ proc = "running" /\ (app = "ended" \/ pc = "done") => WrittenUpTo(c, due[c])

(* A destructor is not kept waiting however fast the kernel fills the      *)
(* rings, and the wrapper ends after its child.                            *)
ProfilerEnds ==
  /\ (app = "join") ~> (app = "ended" \/ proc = "killed")
  /\ (child = "exited" /\ pc # "done") ~> (pc = "done" \/ proc = "killed")
=============================================================================
