--------------------------- MODULE DaemonLifecycle ---------------------------
(***************************************************************************)
(* Starting and stopping the daemon (kumf_daemon): the commands start,     *)
(* autostart, stop and wrap, which shells run at any time, the daemon's    *)
(* own start and exit, and the two files in /tmp all of them go by, the    *)
(* PID file and the socket.  What the daemon answers is in IntercInit;     *)
(* names that module has too begin with Lifecycle here.                    *)
(*                                                                         *)
(* Each access to a file is a step.  The pid of a process that has gone    *)
(* may go to one that has nothing to do with KUMF.  The files are those of *)
(* one user; a process of another one is not met.                          *)
(*                                                                         *)
(* crossed is history: a daemon has written its pid while another process  *)
(* went by what it had read of the PID file before.                        *)
(***************************************************************************)
EXTENDS Naturals, FiniteSetsExt

CONSTANTS
  MaxPids,          \* bound: processes in a behaviour
  MaxCrashes,       \* bound: processes killed from outside
  MaxReuses,        \* bound: pids that are used again
  NoFile, EmptyFile,
  NoPid

ASSUME LifecycleAssumption ==
  /\ {MaxPids, MaxCrashes, MaxReuses} \subseteq Nat
  /\ {NoFile, EmptyFile, NoPid} \cap (1..MaxPids) = {}
  /\ NoFile # EmptyFile

AllPids == 1..MaxPids

VARIABLES
  pc,               \* what each process does next
  back,             \* what the process called _is_running for
  seen,             \* the pid _is_running read
  victim,           \* the pid stop read
  terminated,       \* daemons whose handler has cleared self.running
  pid_file,         \* what the PID file holds
  socket,           \* the daemon whose socket is at the path
  crashes, reuses,
  crossed           \* has a pid been written behind the back of a process?

locals == <<back, seen, victim>>
files == <<pid_file, socket>>
tally == <<crashes, reuses, crossed>>
lifecycle == <<pc, locals, terminated, files, tally>>

IsRunning == {"read", "probe", "rm_pid", "rm_sock"}
Command == IsRunning \cup {"stale", "unlink", "fork", "wait", "stop", "term", "kill"}
StartingUp == {"truncate", "write", "bind", "handlers"}
Exiting == {"exit_sock", "exit_rm_sock", "exit_pid", "exit_rm_pid"}
Reasons == {"autostart", "start", "report", "kill", "end"}

Up(p) == pc[p] \notin {"unborn", "gone"}

LifecycleTypeOK ==
  /\ pc \in [AllPids -> Command \cup StartingUp \cup Exiting
                          \cup {"unborn", "serve", "gone", "other"}]
  /\ back \in [AllPids -> Reasons]
  /\ seen \in [AllPids -> AllPids \cup {NoPid}]
  /\ victim \in [AllPids -> AllPids \cup {NoPid}]
  /\ terminated \subseteq AllPids
  /\ pid_file \in AllPids \cup {NoFile, EmptyFile}
  /\ socket \in AllPids \cup {NoFile}
  /\ crashes \in 0..MaxCrashes /\ reuses \in 0..MaxReuses
  /\ crossed \in BOOLEAN

LifecycleInit ==
  /\ pc = [p \in AllPids |-> "unborn"]
  /\ back = [p \in AllPids |-> "end"]
  /\ seen = [p \in AllPids |-> NoPid]
  /\ victim = [p \in AllPids |-> NoPid]
  /\ terminated = {}
  /\ pid_file = NoFile
  /\ socket = NoFile
  /\ crashes = 0 /\ reuses = 0
  /\ crossed = FALSE

Goto(p, from, to) ==
  /\ pc[p] = from
  /\ pc' = [pc EXCEPT ![p] = to]

(* The next free pid. *)
IsFresh(p) == pc[p] = "unborn" /\ \A q \in 1..p-1 : pc[q] # "unborn"

-----------------------------------------------------------------------------
(* Commands are given, by any number of shells. *)

Begin(p, at, why) ==
  /\ IsFresh(p)
  /\ Goto(p, "unborn", at)
  /\ back' = [back EXCEPT ![p] = why]
  /\ UNCHANGED <<seen, victim, terminated, files, tally>>

CallStart(p) == Begin(p, "read", "start")
CallAutostart(p) == Begin(p, "read", "autostart")
CallWrap(p) == Begin(p, "read", "end")
CallStop(p) == Begin(p, "stop", "end")

-----------------------------------------------------------------------------
(* _is_running, _read_pid and _cleanup *)

(* A missing and an empty file both read as no pid. *)
ReadPid == IF pid_file \in AllPids THEN pid_file ELSE NoPid

(* Mutant: start does not look at the answer. *)
After_Unchecked(reason, running) ==
  CASE reason = "autostart"       -> "read"
    [] reason = "start"           -> "stale"
    [] reason = "kill" /\ running -> "kill"
    [] OTHER                      -> "gone"

(* What the caller of _is_running does with the answer; autostart calls    *)
(* start, which asks again.                                                *)
After(reason, running) ==
  CASE reason = "autostart" /\ ~running -> "read"
    [] reason = "start" /\ ~running     -> "stale"
    [] reason = "kill" /\ running       -> "kill"
    [] OTHER                            -> "gone"

Return(p, from, running) ==
  /\ Goto(p, from, After(back[p], running))
  /\ back' = [back EXCEPT ![p] = IF @ = "autostart" /\ ~running THEN "start" ELSE "end"]
  /\ victim' = [victim EXCEPT ![p] = IF running THEN @ ELSE NoPid]

ReadPidFile(p) ==
  /\ pc[p] = "read"
  /\ seen' = [seen EXCEPT ![p] = ReadPid]
  /\ \/ ReadPid = NoPid /\ Return(p, "read", FALSE)
     \/ ReadPid # NoPid /\ Goto(p, "read", "probe") /\ UNCHANGED <<back, victim>>
  /\ UNCHANGED <<terminated, files, tally>>

(* Mutant: the files are removed whatever kill says. *)
Probe_Cleans(p) ==
  /\ Goto(p, "probe", "rm_pid")
  /\ UNCHANGED <<locals, terminated, files, tally>>

(* kill(pid, 0): not permitted for a process of someone else, and then the *)
(* command fails.                                                          *)
Probe(p) ==
  /\ pc[p] = "probe"
  /\ \/ Up(seen[p]) /\ Return(p, "probe", TRUE)
     \/ ~Up(seen[p]) /\ Goto(p, "probe", "rm_pid") /\ UNCHANGED <<back, victim>>
     \/ pc[seen[p]] = "other" /\ Goto(p, "probe", "gone") /\ UNCHANGED <<back, victim>>
  /\ seen' = [seen EXCEPT ![p] = NoPid]
  /\ UNCHANGED <<terminated, files, tally>>

CleanupPid(p) ==
  /\ Goto(p, "rm_pid", "rm_sock")
  /\ pid_file' = NoFile
  /\ UNCHANGED <<locals, terminated, socket, tally>>

CleanupSocket(p) ==
  /\ Return(p, "rm_sock", FALSE)
  /\ socket' = NoFile
  /\ UNCHANGED <<seen, terminated, pid_file, tally>>

-----------------------------------------------------------------------------
(* start *)

(* Mutant: a stale socket is left for bind to find. *)
TestSocket_Skipped(p) ==
  /\ Goto(p, "stale", "fork")
  /\ UNCHANGED <<locals, terminated, files, tally>>

TestSocket(p) ==
  /\ Goto(p, "stale", IF socket # NoFile THEN "unlink" ELSE "fork")
  /\ UNCHANGED <<locals, terminated, files, tally>>

(* unlink of a file that has gone in the meantime ends the command. *)
UnlinkSocket(p) ==
  /\ Goto(p, "unlink", IF socket # NoFile THEN "fork" ELSE "gone")
  /\ socket' = NoFile
  /\ UNCHANGED <<locals, terminated, pid_file, tally>>

(* The process in between the two forks is left out. *)
Fork(p) ==
  /\ \/ \E d \in AllPids :
          /\ IsFresh(d)
          /\ pc[p] = "fork"
          /\ pc' = [pc EXCEPT ![p] = "wait", ![d] = "truncate"]
     \/ Goto(p, "fork", "truncate")       \* --foreground
  /\ UNCHANGED <<back, seen, victim, terminated, files, tally>>

(* Half a second later, however far the daemon has come. *)
Wait(p) ==
  /\ Goto(p, "wait", "read")
  /\ back' = [back EXCEPT ![p] = "report"]
  /\ UNCHANGED <<seen, victim, terminated, files, tally>>

-----------------------------------------------------------------------------
(* _run: the daemon *)

(* open with mode w *)
TruncatePidFile(d) ==
  /\ Goto(d, "truncate", "write")
  /\ pid_file' = EmptyFile
  /\ UNCHANGED <<locals, terminated, socket, tally>>

(* p has found that no daemon runs, or has a pid it is going to probe or   *)
(* to signal.                                                              *)
GoesByPidFile(p) ==
  \/ pc[p] \in {"probe", "rm_pid", "rm_sock", "stale", "unlink", "fork"}
  \/ pc[p] \in {"truncate", "write", "term", "kill"}
  \/ pc[p] \in IsRunning /\ back[p] = "kill"

(* Mutant: the pid written is that of the process that forked. *)
WritePidFile_Parent(d) ==
  /\ Goto(d, "write", "bind")
  /\ pid_file' = Min({d} \cup {p \in AllPids : pc[p] = "wait"})
  /\ crossed' = (crossed \/ \E p \in AllPids \ {d} : GoesByPidFile(p))
  /\ UNCHANGED <<locals, terminated, socket, crashes, reuses>>

WritePidFile(d) ==
  /\ Goto(d, "write", "bind")
  /\ pid_file' = d
  /\ crossed' = (crossed \/ \E p \in AllPids \ {d} : GoesByPidFile(p))
  /\ UNCHANGED <<locals, terminated, socket, crashes, reuses>>

(* bind fails if the path exists; the exception ends the daemon and leaves *)
(* the PID file.                                                           *)
Bind(d) ==
  /\ Goto(d, "bind", IF socket = NoFile THEN "handlers" ELSE "gone")
  /\ socket' = IF socket = NoFile THEN d ELSE socket
  /\ UNCHANGED <<locals, terminated, pid_file, tally>>

InstallHandlers(d) ==
  /\ Goto(d, "handlers", "serve")
  /\ UNCHANGED <<locals, terminated, files, tally>>

(* The loop is left at the end of a turn, which may take a second. *)
LeaveLoop(d) ==
  /\ d \in terminated
  /\ Goto(d, "serve", "exit_sock")
  /\ terminated' = terminated \ {d}      \* not looked at any more
  /\ UNCHANGED <<locals, files, tally>>

(* The files are removed by name, whosever they are; a file that goes      *)
(* between exists and unlink ends the daemon there.                        *)
ExitTestSocket(d) ==
  /\ Goto(d, "exit_sock", IF socket # NoFile THEN "exit_rm_sock" ELSE "exit_pid")
  /\ UNCHANGED <<locals, terminated, files, tally>>

ExitUnlinkSocket(d) ==
  /\ Goto(d, "exit_rm_sock", IF socket # NoFile THEN "exit_pid" ELSE "gone")
  /\ socket' = NoFile
  /\ UNCHANGED <<locals, terminated, pid_file, tally>>

ExitTestPid(d) ==
  /\ Goto(d, "exit_pid", IF pid_file # NoFile THEN "exit_rm_pid" ELSE "gone")
  /\ UNCHANGED <<locals, terminated, files, tally>>

ExitUnlinkPid(d) ==
  /\ Goto(d, "exit_rm_pid", "gone")
  /\ pid_file' = NoFile
  /\ UNCHANGED <<locals, terminated, socket, tally>>

-----------------------------------------------------------------------------
(* stop *)

StopReadPid(p) ==
  /\ victim' = [victim EXCEPT ![p] = ReadPid]
  /\ Goto(p, "stop", IF ReadPid = NoPid THEN "gone" ELSE "term")
  /\ UNCHANGED <<back, seen, terminated, files, tally>>

(* SIGTERM ends a process of KUMF that has not installed its handler and   *)
(* perhaps another one, unless it may not be sent; with no such process    *)
(* stop cleans up.                                                         *)
SendTerm(p) ==
  LET d == victim[p]
      handles == pc[d] \in {"serve"} \cup Exiting
  IN  /\ pc[p] = "term"
      /\ \/ /\ Up(d)
            /\ terminated' = terminated \cup ({d} \cap {q \in AllPids : pc[q] = "serve"})
            /\ \E after \in {pc[d], "gone"} :
                 /\ after = "gone" => ~handles
                 /\ after = pc[d] => handles \/ pc[d] = "other"
                 /\ pc' = [pc EXCEPT ![p] = "read", ![d] = after]
            /\ back' = [back EXCEPT ![p] = "kill"]
         \/ /\ ~Up(d) /\ Goto(p, "term", "rm_pid")
            /\ UNCHANGED <<terminated, back>>
         \/ /\ pc[d] = "other" /\ Goto(p, "term", "gone")
            /\ UNCHANGED <<terminated, back>>
      /\ UNCHANGED <<seen, victim, files, tally>>

SendKill(p) ==
  LET d == victim[p] IN
  /\ pc[p] = "kill"
  /\ pc' = IF Up(d) THEN [pc EXCEPT ![p] = "gone", ![d] = "gone"]
                    ELSE [pc EXCEPT ![p] = "rm_pid"]
  /\ back' = [back EXCEPT ![p] = "end"]
  /\ victim' = [victim EXCEPT ![p] = NoPid]
  /\ UNCHANGED <<seen, terminated, files, tally>>

-----------------------------------------------------------------------------
(* Any process may be killed. *)
Crash(p) ==
  /\ Up(p) /\ crashes < MaxCrashes
  /\ pc' = [pc EXCEPT ![p] = "gone"]
  /\ crashes' = crashes + 1
  /\ UNCHANGED <<locals, terminated, files, reuses, crossed>>

(* A pid goes to a process of something else, which runs until it is told  *)
(* to stop or ends by itself.                                              *)
Reuse(p) ==
  /\ Goto(p, "gone", "other")
  /\ reuses < MaxReuses /\ reuses' = reuses + 1
  /\ UNCHANGED <<locals, terminated, files, crashes, crossed>>

OtherEnds(p) ==
  /\ Goto(p, "other", "gone")
  /\ UNCHANGED <<locals, terminated, files, tally>>

Call(p) == CallStart(p) \/ CallAutostart(p) \/ CallWrap(p) \/ CallStop(p)

Run(p) ==
  \/ ReadPidFile(p) \/ Probe(p) \/ CleanupPid(p) \/ CleanupSocket(p)
  \/ TestSocket(p) \/ UnlinkSocket(p) \/ Fork(p) \/ Wait(p)
  \/ TruncatePidFile(p) \/ WritePidFile(p) \/ Bind(p) \/ InstallHandlers(p)
  \/ LeaveLoop(p) \/ ExitTestSocket(p) \/ ExitUnlinkSocket(p) \/ ExitTestPid(p)
  \/ ExitUnlinkPid(p) \/ StopReadPid(p) \/ SendTerm(p) \/ SendKill(p)

LifecycleNext == \E p \in AllPids : Call(p) \/ Run(p) \/ Crash(p) \/ Reuse(p) \/ OtherEnds(p)

(* Processes run; recvfrom times out after a second, so that a daemon that *)
(* was told to stop looks at self.running again.                           *)
LifecycleSpec ==
  LifecycleInit /\ [][LifecycleNext]_lifecycle /\ \A p \in AllPids : WF_lifecycle(Run(p))

-----------------------------------------------------------------------------
Serving == {d \in AllPids : pc[d] = "serve"}

(* At most one daemon serves, from however many shells start and autostart *)
(* are called and whatever a killed process has left behind, until a pid   *)
(* is written while somebody goes by what the file said before.            *)
OneDaemon == ~crossed => Cardinality(Serving) <= 1

(* Until then a daemon that serves and was not told to stop can be found   *)
(* by both ways there are: the PID file names it and its own socket is at  *)
(* the path.  No cleanup ever removes the files of a live daemon.          *)
LiveDaemonReachable ==
  ~crossed => \A d \in Serving \ terminated : pid_file = d /\ socket = d

(* A daemon that serves when stop is about to signal is the one stop found *)
(* and is gone in the end: it notices in time, or is killed.  stop itself  *)
(* is not killed meanwhile.                                                *)
StopEndsDaemon ==
  \A d \in AllPids :
    (pc[d] = "serve" /\ crashes = MaxCrashes /\ \E p \in AllPids : pc[p] = "term")
      ~> (pc[d] = "gone" \/ crossed)

(* Once nothing is killed any more, a start that gets as far as forking    *)
(* leads to a daemon that serves, whatever the killed ones left behind,    *)
(* unless a stop meets the new daemon before it serves.                    *)
StopUnderWay == \E p \in AllPids : pc[p] \in {"term", "kill"}
StartSucceeds ==
  (crashes = MaxCrashes /\ \E p \in AllPids : pc[p] = "fork")
    ~> (Serving # {} \/ StopUnderWay \/ crossed)
=============================================================================
