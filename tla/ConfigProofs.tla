----------------------------- MODULE ConfigProofs -----------------------------
(***************************************************************************)
(* Proofs about where the library's configuration comes from.              *)
(*                                                                         *)
(* Starting and stopping the daemon (DaemonLifecycle), for any number of   *)
(* commands at a time, processes, kills and pids used again: until a pid   *)
(* is written behind the back of a process that goes by the PID file, no   *)
(* two daemons serve, and one that serves can be found.                    *)
(*                                                                         *)
(* The constructor of the library and the daemon it asks (IntercInit), for *)
(* any number of processes, executables and environments: what a process   *)
(* ends up with is its own, whoever had its pid before it, and the daemon  *)
(* forgets the processes that are gone.                                    *)
(*                                                                         *)
(* From samples to rules (PacPipeline), for any dump, any log, any number  *)
(* of workers and any places where a file is split: accesses survive the   *)
(* split, the hot pages have most of them, the ranges of a tier are its    *)
(* pages, and the rules route the sizes that were hot.                     *)
(***************************************************************************)
EXTENDS DaemonLifecycle, IntercInit, PacPipeline, SequenceTheorems, FiniteSetTheorems, TLAPS

WF == INSTANCE WellFoundedInduction

-----------------------------------------------------------------------------
(* Start and stop: the inductive invariant *)

(* The daemons that have written the PID file and still live. *)
Named == {d \in AllPids : pc[d] \in {"bind", "handlers", "serve"} \cup Exiting}

(* The PID file names the only daemon, whose socket is at the path. *)
FilesNameDaemon ==
  /\ \A d \in Named : pid_file = d
  /\ \A d \in AllPids : pc[d] \in {"handlers", "serve"} => socket = d

(* A process that probes or signals has a pid.                             *)
Holds(p) ==
  /\ pc[p] = "probe" => seen[p] \in AllPids
  /\ pc[p] \in {"term", "kill"} \/ (pc[p] \in IsRunning /\ back[p] = "kill") =>
       victim[p] \in AllPids

LifecycleTypeInv == LifecycleTypeOK /\ \A p \in AllPids : Holds(p)

(* What a process has learnt from the PID file: that there is no daemon,   *)
(* or which one it is if there is one.                                     *)
LearntBy(p) ==
  /\ pc[p] \in {"rm_pid", "rm_sock", "stale", "unlink", "fork", "truncate", "write"} =>
       Named = {}
  /\ pc[p] = "probe" => Named \subseteq {seen[p]}
  /\ pc[p] \in {"term", "kill"} \/ (pc[p] \in IsRunning /\ back[p] = "kill") =>
       Named \subseteq {victim[p]}

Learnt == \A p \in AllPids : LearntBy(p)

LifecycleInv == LifecycleTypeInv /\ (~crossed => FilesNameDaemon /\ Learnt)

-----------------------------------------------------------------------------
(* Steps *)

(* The initial states.                                                     *)
LEMMA LifecycleInitInv == LifecycleInit => LifecycleInv
<1> SUFFICES ASSUME LifecycleInit  PROVE LifecycleInv
  OBVIOUS
<1>1. LifecycleTypeOK
  <2>1. 0 \in 0..MaxCrashes /\ 0 \in 0..MaxReuses
    BY LifecycleAssumption
  <2> QED  BY <2>1 DEF LifecycleInit, LifecycleTypeOK, Reasons
<1>2. \A p \in AllPids : pc[p] = "unborn"
  BY DEF LifecycleInit
<1>3. Named = {}
  BY <1>2 DEF Named, Exiting
<1> QED
  BY <1>1, <1>2, <1>3
  DEF LifecycleInv, LifecycleTypeInv, Holds, FilesNameDaemon, Learnt, LearntBy, Named, IsRunning

LEMMA PidFileRead ==
  ASSUME LifecycleTypeOK
  PROVE  ReadPid \in AllPids \cup {NoPid} /\ (ReadPid # NoPid => ReadPid = pid_file)
         /\ (ReadPid = NoPid => pid_file \notin AllPids)
BY LifecycleAssumption DEF ReadPid, LifecycleTypeOK, AllPids

(* Every step keeps the types.                                             *)
LEMMA LifecycleNextTypeOK ==
  ASSUME LifecycleTypeInv, [LifecycleNext]_lifecycle
  PROVE  LifecycleTypeOK'
<1> USE DEF LifecycleTypeInv, LifecycleTypeOK, Goto, Command, StartingUp, Exiting, IsRunning,
            Reasons, files, tally, locals
<1>1. ASSUME NEW p \in AllPids, Call(p)  PROVE LifecycleTypeOK'
  BY <1>1 DEF Call, CallStart, CallAutostart, CallWrap, CallStop, Begin
<1>2. ASSUME NEW p \in AllPids, NEW from \in IsRunning, NEW r \in BOOLEAN, Return(p, from, r)
      PROVE  /\ pc' \in [AllPids -> Command \cup StartingUp \cup Exiting
                                  \cup {"unborn", "serve", "gone", "other"}]
             /\ back' \in [AllPids -> Reasons]
             /\ victim' \in [AllPids -> AllPids \cup {NoPid}]
  BY <1>2 DEF Return, After
<1>3. ASSUME NEW p \in AllPids, ReadPidFile(p)  PROVE LifecycleTypeOK'
  BY <1>2, <1>3, PidFileRead DEF ReadPidFile
<1>4. ASSUME NEW p \in AllPids, Probe(p)  PROVE LifecycleTypeOK'
  BY <1>2, <1>4 DEF Probe
<1>5. ASSUME NEW p \in AllPids, CleanupPid(p)  PROVE LifecycleTypeOK'
  BY <1>5 DEF CleanupPid
<1>6. ASSUME NEW p \in AllPids, CleanupSocket(p)  PROVE LifecycleTypeOK'
  BY <1>2, <1>6 DEF CleanupSocket
<1>7. ASSUME NEW p \in AllPids, TestSocket(p) \/ UnlinkSocket(p) \/ Fork(p) \/ Wait(p)
      PROVE  LifecycleTypeOK'
  BY <1>7 DEF TestSocket, UnlinkSocket, Fork, Wait
<1>8. ASSUME NEW p \in AllPids,
             \/ TruncatePidFile(p) \/ WritePidFile(p) \/ Bind(p) \/ InstallHandlers(p)
             \/ LeaveLoop(p) \/ ExitTestSocket(p) \/ ExitUnlinkSocket(p) \/ ExitTestPid(p)
             \/ ExitUnlinkPid(p)
      PROVE  LifecycleTypeOK'
  BY <1>8
  DEF TruncatePidFile, WritePidFile, Bind, InstallHandlers, LeaveLoop, ExitTestSocket,
      ExitUnlinkSocket, ExitTestPid, ExitUnlinkPid
<1>9. ASSUME NEW p \in AllPids, StopReadPid(p)  PROVE LifecycleTypeOK'
  BY <1>9, PidFileRead DEF StopReadPid
<1>10. ASSUME NEW p \in AllPids, SendTerm(p)  PROVE LifecycleTypeOK'
  <2>1. CASE ~(pc' = [pc EXCEPT ![p] = "gone"]) /\ ~(pc' = [pc EXCEPT ![p] = "rm_pid"])
    <3>1. PICK after \in {pc[victim[p]], "gone"} :
            /\ after = "gone" => ~(pc[victim[p]] \in {"serve"} \cup Exiting)
            /\ pc' = [pc EXCEPT ![p] = "read", ![victim[p]] = after]
      BY <1>10, <2>1 DEF SendTerm
    <3>2. pc' \in [AllPids -> Command \cup StartingUp \cup Exiting
                           \cup {"unborn", "serve", "gone", "other"}]
      BY ZenonT(60), <3>1
    <3>3. terminated' \subseteq AllPids
      BY <1>10 DEF SendTerm
    <3> QED  BY <1>10, <3>2, <3>3 DEF SendTerm
  <2>2. CASE pc' = [pc EXCEPT ![p] = "gone"] \/ pc' = [pc EXCEPT ![p] = "rm_pid"]
    BY <1>10, <2>2 DEF SendTerm
  <2> QED  BY <2>1, <2>2
<1>11. ASSUME NEW p \in AllPids, SendKill(p)  PROVE LifecycleTypeOK'
  BY <1>11 DEF SendKill
<1>12. ASSUME NEW p \in AllPids, Crash(p) \/ Reuse(p) \/ OtherEnds(p)  PROVE LifecycleTypeOK'
  BY <1>12, LifecycleAssumption DEF Crash, Reuse, OtherEnds
<1>13. CASE UNCHANGED lifecycle
  BY <1>13 DEF lifecycle
<1> QED
  BY <1>1, <1>3, <1>4, <1>5, <1>6, <1>7, <1>8, <1>9, <1>10, <1>11, <1>12, <1>13
  DEF LifecycleNext, Run

(* What a process probes or signals is a pid it has read.                  *)
LEMMA NextHolds ==
  ASSUME LifecycleTypeInv, NEW p \in AllPids,
         Call(p) \/ Crash(p) \/ Reuse(p) \/ OtherEnds(p) \/ Run(p), NEW q \in AllPids
  PROVE  Holds(q)'
<1> USE DEF LifecycleTypeInv, LifecycleTypeOK, Goto, IsRunning, Holds, files, tally, locals
<1>1. ASSUME NEW u \in AllPids, u # p,
             UNCHANGED <<seen[u], back[u], victim[u]>>, pc'[u] \in {pc[u], "gone", "truncate"}
      PROVE  Holds(u)'
  BY <1>1
<1>2. ASSUME Holds(p)', pc' = [pc EXCEPT ![p] = pc'[p]], back' = [back EXCEPT ![p] = back'[p]],
             seen' = [seen EXCEPT ![p] = seen'[p]], victim' = [victim EXCEPT ![p] = victim'[p]]
      PROVE  Holds(q)'
  <2>1. CASE q = p
    BY <1>2, <2>1
  <2>2. CASE q # p
    BY <1>1, <1>2, <2>2
  <2> QED  BY <2>1, <2>2
<1>3. CASE Call(p) \/ Crash(p) \/ Reuse(p) \/ OtherEnds(p)
  <2>1. Holds(p)'
    BY <1>3 DEF Call, CallStart, CallAutostart, CallWrap, CallStop, Begin, Crash, Reuse, OtherEnds
  <2> QED
    BY <1>2, <1>3, <2>1
    DEF Call, CallStart, CallAutostart, CallWrap, CallStop, Begin, Crash, Reuse, OtherEnds
<1>4. ASSUME NEW from \in IsRunning, NEW run \in BOOLEAN, Return(p, from, run)  PROVE Holds(p)'
  <2>1. /\ pc[p] \in IsRunning /\ pc'[p] = After(back[p], run)
        /\ back'[p] \in {"start", "end"}
        /\ run => victim'[p] = victim[p]
    BY <1>4 DEF Return
  <2>2. pc'[p] \in {"gone", "read", "stale"} \/ (pc'[p] = "kill" /\ back[p] = "kill" /\ run)
    BY <2>1 DEF After
  <2> QED  BY <2>1, <2>2
<1>5. CASE ReadPidFile(p)
  <2>1. Holds(p)'
    <3>1. CASE Return(p, "read", FALSE)
      BY <1>4, <3>1
    <3>2. CASE ReadPid # NoPid /\ Goto(p, "read", "probe") /\ UNCHANGED <<back, victim>>
      BY <1>5, <3>2, PidFileRead DEF ReadPidFile
    <3> QED  BY <1>5, <3>1, <3>2 DEF ReadPidFile
  <2> QED  BY <1>2, <1>5, <2>1 DEF ReadPidFile, Return
<1>6. CASE Probe(p)
  <2>1. Holds(p)'
    <3>1. CASE Return(p, "probe", TRUE)
      BY <1>4, <3>1
    <3>2. CASE Goto(p, "probe", "rm_pid") /\ UNCHANGED <<back, victim>>
      BY <1>6, <3>2
    <3>3. CASE Goto(p, "probe", "gone")
      BY <3>3
    <3> QED  BY <1>6, <3>1, <3>2, <3>3 DEF Probe
  <2>2. /\ pc' = [pc EXCEPT ![p] = pc'[p]] /\ back' = [back EXCEPT ![p] = back'[p]]
        /\ victim' = [victim EXCEPT ![p] = victim'[p]]
    <3>1. CASE Return(p, "probe", TRUE)
      BY <3>1 DEF Return
    <3>2. CASE UNCHANGED <<back, victim>> /\ \E to \in {"rm_pid", "gone"} : Goto(p, "probe", to)
      BY <3>2
    <3> QED  BY <1>6, <3>1, <3>2 DEF Probe
  <2>3. seen' = [seen EXCEPT ![p] = seen'[p]]
    BY <1>6 DEF Probe
  <2> QED  BY <1>2, <2>1, <2>2, <2>3
<1>7. CASE CleanupSocket(p)
  <2>1. Holds(p)'
    BY <1>4, <1>7 DEF CleanupSocket
  <2> QED  BY <1>2, <1>7, <2>1 DEF CleanupSocket, Return
<1>8. CASE CleanupPid(p) \/ TestSocket(p) \/ UnlinkSocket(p) \/ Wait(p)
  BY <1>2, <1>8 DEF CleanupPid, TestSocket, UnlinkSocket, Wait
<1>9. CASE \/ TruncatePidFile(p) \/ WritePidFile(p) \/ Bind(p) \/ InstallHandlers(p)
           \/ LeaveLoop(p) \/ ExitTestSocket(p) \/ ExitUnlinkSocket(p) \/ ExitTestPid(p)
           \/ ExitUnlinkPid(p)
  BY <1>2, <1>9
  DEF TruncatePidFile, WritePidFile, Bind, InstallHandlers, LeaveLoop, ExitTestSocket,
      ExitUnlinkSocket, ExitTestPid, ExitUnlinkPid
<1>10. CASE Fork(p)
  <2>1. /\ UNCHANGED <<back, seen, victim>> /\ pc[p] = "fork"
        /\ \A u \in AllPids : pc'[u] \in {pc[u], "truncate", "wait"}
    BY <1>10 DEF Fork
  <2> QED  BY <2>1
<1>11. CASE StopReadPid(p)
  <2>1. Holds(p)'
    BY <1>11, PidFileRead DEF StopReadPid
  <2> QED  BY <1>2, <1>11, <2>1 DEF StopReadPid
<1>12. CASE SendTerm(p) \/ SendKill(p)
  <2>1. victim[p] \in AllPids
    BY <1>12 DEF SendTerm, SendKill
  <2>2. /\ seen' = seen /\ back' = [back EXCEPT ![p] = back'[p]]
        /\ victim' = [victim EXCEPT ![p] = victim'[p]]
    BY <1>12 DEF SendTerm, SendKill
  <2>3. \A u \in AllPids \ {p} : pc'[u] \in {pc[u], "gone"}
    <3>1. CASE SendTerm(p)
      BY <2>1, <3>1 DEF SendTerm
    <3>2. CASE SendKill(p)
      BY <2>1, <3>2 DEF SendKill
    <3> QED  BY <1>12, <3>1, <3>2
  <2>4. Holds(p)'
    <3>1. CASE SendTerm(p)
      <4>1. pc'[p] \in {"read", "gone", "rm_pid"} /\ victim'[p] \in AllPids
        BY <2>1, <3>1 DEF SendTerm
      <4> QED  BY <4>1
    <3>2. CASE SendKill(p)
      <4>1. pc'[p] \in {"gone", "rm_pid"} /\ back'[p] = "end"
        BY <2>1, <3>2 DEF SendKill
      <4> QED  BY <4>1
    <3> QED  BY <1>12, <3>1, <3>2
  <2>5. CASE q # p
    <3>1. UNCHANGED <<seen[q], back[q], victim[q]>>
      BY <2>2, <2>5
    <3> QED  BY <1>1, <2>3, <2>5, <3>1
  <2> QED  BY <2>4, <2>5
<1> QED
  BY <1>3, <1>5, <1>6, <1>7, <1>8, <1>9, <1>10, <1>11, <1>12 DEF Run

LEMMA LifecycleNextTypeInv == LifecycleTypeInv /\ [LifecycleNext]_lifecycle => LifecycleTypeInv'
<1> SUFFICES ASSUME LifecycleTypeInv, [LifecycleNext]_lifecycle  PROVE LifecycleTypeInv'
  OBVIOUS
<1>1. LifecycleTypeOK'
  BY LifecycleNextTypeOK
<1>2. CASE UNCHANGED lifecycle
  BY <1>1, <1>2 DEF LifecycleTypeInv, Holds, lifecycle, locals
<1>3. ASSUME NEW p \in AllPids, Call(p) \/ Run(p) \/ Crash(p) \/ Reuse(p) \/ OtherEnds(p)
      PROVE  LifecycleTypeInv'
  BY <1>1, <1>3, NextHolds DEF LifecycleTypeInv
<1> QED  BY <1>2, <1>3 DEF LifecycleNext

(* The places of a daemon that has written the PID file are reached from   *)
(* one another, and first from the write.                                  *)
LEMMA NamedShrinks ==
  ASSUME LifecycleTypeInv, NEW p \in AllPids,
         Call(p) \/ Crash(p) \/ Reuse(p) \/ OtherEnds(p) \/ Run(p), ~WritePidFile(p)
  PROVE  Named' \subseteq Named
<1> USE DEF LifecycleTypeInv, LifecycleTypeOK, Named, Exiting, Goto
<1>1. ASSUME pc' = [pc EXCEPT ![p] = pc'[p]],
             pc'[p] \notin {"bind", "handlers", "serve"} \cup Exiting \/ p \in Named
      PROVE  Named' \subseteq Named
  BY <1>1
<1>2. CASE Call(p) \/ Crash(p) \/ Reuse(p) \/ OtherEnds(p)
  BY <1>1, <1>2
  DEF Call, CallStart, CallAutostart, CallWrap, CallStop, Begin, Crash, Reuse, OtherEnds
<1>3. CASE \E from \in IsRunning, r \in BOOLEAN : Return(p, from, r)
  BY <1>1, <1>3 DEF Return, After
<1>4. CASE ReadPidFile(p) \/ Probe(p) \/ CleanupPid(p) \/ CleanupSocket(p)
  BY <1>1, <1>3, <1>4 DEF ReadPidFile, Probe, CleanupPid, CleanupSocket, IsRunning
<1>5. CASE TestSocket(p) \/ UnlinkSocket(p) \/ Wait(p) \/ StopReadPid(p) \/ TruncatePidFile(p)
  BY <1>1, <1>5 DEF TestSocket, UnlinkSocket, Wait, StopReadPid, TruncatePidFile
<1>6. CASE \/ Bind(p) \/ InstallHandlers(p) \/ LeaveLoop(p) \/ ExitTestSocket(p)
           \/ ExitUnlinkSocket(p) \/ ExitTestPid(p) \/ ExitUnlinkPid(p)
  BY <1>1, <1>6
  DEF Bind, InstallHandlers, LeaveLoop, ExitTestSocket, ExitUnlinkSocket, ExitTestPid,
      ExitUnlinkPid
<1>7. CASE Fork(p)
  BY <1>7 DEF Fork
<1>8. CASE SendTerm(p)
  BY <1>8 DEF SendTerm, Holds
<1>9. CASE SendKill(p)
  BY <1>9 DEF SendKill
<1> QED
  BY <1>2, <1>4, <1>5, <1>6, <1>7, <1>8, <1>9 DEF Run

(* What the files say of a daemon stays so until it removes them itself.   *)
LEMMA NextFilesNameDaemon ==
  ASSUME LifecycleTypeInv, FilesNameDaemon, Learnt, [LifecycleNext]_lifecycle
  PROVE  FilesNameDaemon'
<1> DEFINE Ready == {d \in AllPids : pc[d] \in {"handlers", "serve"}}
<1>0. Ready \subseteq Named
  BY DEF Named
<1> USE DEF LifecycleTypeInv, LifecycleTypeOK, FilesNameDaemon, Goto
<1>1. ASSUME Named' \subseteq Named, UNCHANGED files, Ready' \subseteq Ready
      PROVE  FilesNameDaemon'
  BY <1>1 DEF files
<1>2. ASSUME Named' = {}  PROVE FilesNameDaemon'
  BY <1>2 DEF Named, Exiting
<1>3. ASSUME NEW p \in AllPids, WritePidFile(p)  PROVE FilesNameDaemon'
  <2>1. Named = {}
    BY <1>3 DEF WritePidFile, Learnt, LearntBy
  <2>2. Named' = {p} /\ Ready' = {} /\ pid_file' = p
    BY <1>3, <2>1 DEF WritePidFile, Named
  <2> QED  BY <2>2
<1>4. ASSUME NEW p \in AllPids, Bind(p)  PROVE FilesNameDaemon'
  <2>1. Named = {p}
    BY <1>4 DEF Bind, Named
  <2>2. Named' \subseteq {p} /\ pid_file' = pid_file
    BY <1>4, <2>1 DEF Bind, Named, Exiting
  <2>3. p \in Ready' => socket' = p
    BY <1>4 DEF Bind
  <2>4. Ready' \subseteq Named'
    BY DEF Named
  <2> QED  BY <2>1, <2>2, <2>3, <2>4
<1>5. ASSUME NEW p \in AllPids, ExitUnlinkSocket(p)  PROVE FilesNameDaemon'
  <2>1. Named = {p}
    BY <1>5 DEF ExitUnlinkSocket, Named, Exiting
  <2>2. Named' \subseteq {p} /\ pid_file' = pid_file /\ p \notin Ready'
    BY <1>5, <2>1 DEF ExitUnlinkSocket, Named, Exiting
  <2>3. Ready' \subseteq Named'
    BY DEF Named
  <2> QED  BY <2>1, <2>2, <2>3
<1>6. ASSUME NEW p \in AllPids, ExitUnlinkPid(p)  PROVE FilesNameDaemon'
  <2>1. Named = {p}
    BY <1>6 DEF ExitUnlinkPid, Named, Exiting
  <2>2. Named' = {}
    BY <1>6, <2>1 DEF ExitUnlinkPid, Named, Exiting
  <2> QED  BY <1>2, <2>2
(* The other steps that change a file are of a process that knows there is *)
(* no daemon. *)
<1>7. ASSUME NEW p \in AllPids,
             CleanupPid(p) \/ CleanupSocket(p) \/ UnlinkSocket(p) \/ TruncatePidFile(p)
      PROVE  FilesNameDaemon'
  <2>1. Named = {}
    BY <1>7 DEF CleanupPid, CleanupSocket, Return, UnlinkSocket, TruncatePidFile, Learnt, LearntBy
  <2>2. Named' \subseteq Named
    BY <1>7, NamedShrinks DEF Run, WritePidFile, CleanupPid, CleanupSocket, Return, UnlinkSocket,
       TruncatePidFile
  <2> QED  BY <1>2, <2>1, <2>2
<1>8. ASSUME NEW p \in AllPids, UNCHANGED files, pc' = [pc EXCEPT ![p] = pc'[p]],
             Named' \subseteq Named, pc'[p] \notin {"handlers", "serve"} \/ p \in Ready
      PROVE  FilesNameDaemon'
  BY <1>1, <1>8
<1>9. ASSUME NEW p \in AllPids, Call(p) \/ Crash(p) \/ Reuse(p) \/ OtherEnds(p)
      PROVE  FilesNameDaemon'
  <2>1. Named' \subseteq Named
    BY <1>9, NamedShrinks
    DEF Call, CallStart, CallAutostart, CallWrap, CallStop, Begin, Crash, Reuse, OtherEnds,
        WritePidFile, Up
  <2> QED
    BY <1>8, <1>9, <2>1
    DEF Call, CallStart, CallAutostart, CallWrap, CallStop, Begin, Crash, Reuse, OtherEnds
<1>10. ASSUME NEW p \in AllPids, ReadPidFile(p) \/ Probe(p)  PROVE FilesNameDaemon'
  <2>1. Named' \subseteq Named
    BY <1>10, NamedShrinks DEF Run, WritePidFile, ReadPidFile, Probe
  <2>2. ASSUME NEW from, NEW r \in BOOLEAN, Return(p, from, r)
        PROVE  pc' = [pc EXCEPT ![p] = pc'[p]] /\ pc'[p] \notin {"handlers", "serve"}
    BY <2>2 DEF Return, After
  <2> QED  BY <1>8, <1>10, <2>1, <2>2 DEF ReadPidFile, Probe
<1>11. ASSUME NEW p \in AllPids,
              \/ TestSocket(p) \/ Wait(p) \/ InstallHandlers(p) \/ LeaveLoop(p)
              \/ ExitTestSocket(p) \/ ExitTestPid(p) \/ StopReadPid(p)
       PROVE  FilesNameDaemon'
  <2>1. Named' \subseteq Named
    BY <1>11, NamedShrinks
    DEF Run, WritePidFile, TestSocket, Wait, InstallHandlers, LeaveLoop, ExitTestSocket,
        ExitTestPid, StopReadPid
  <2> QED
    BY <1>8, <1>11, <2>1
    DEF TestSocket, Wait, InstallHandlers, LeaveLoop, ExitTestSocket, ExitTestPid, StopReadPid
<1>12. ASSUME NEW p \in AllPids, Fork(p) \/ SendTerm(p) \/ SendKill(p)  PROVE FilesNameDaemon'
  <2>1. Named' \subseteq Named
    BY <1>12, NamedShrinks DEF Run, WritePidFile, Fork, SendTerm, SendKill
  <2>2. Ready' \subseteq Ready
    <3>1. CASE Fork(p)
      BY <3>1 DEF Fork
    <3>2. CASE SendTerm(p)
      BY <3>2 DEF SendTerm, Holds
    <3>3. CASE SendKill(p)
      BY <3>3 DEF SendKill
    <3> QED  BY <1>12, <3>1, <3>2, <3>3
  <2>3. UNCHANGED files
    BY <1>12 DEF Fork, SendTerm, SendKill
  <2> QED  BY <1>1, <2>1, <2>2, <2>3
<1>13. CASE UNCHANGED lifecycle
  BY <1>1, <1>13 DEF lifecycle, Named
<1> QED
  BY <1>3, <1>4, <1>5, <1>6, <1>7, <1>9, <1>10, <1>11, <1>12, <1>13 DEF LifecycleNext, Run

(* What a process has learnt stays so until a pid is written behind its    *)
(* back.                                                                   *)
LEMMA NextLearnt ==
  ASSUME LifecycleTypeInv, FilesNameDaemon, Learnt, [LifecycleNext]_lifecycle, ~crossed'
  PROVE  Learnt'
<1> USE DEF LifecycleTypeInv, LifecycleTypeOK, Learnt, Goto
<1>1. ASSUME NEW p \in AllPids, Named' \subseteq Named, LearntBy(p)',
             \A q \in AllPids \ {p} : UNCHANGED <<seen[q], back[q], victim[q]>>
                                /\ pc'[q] \in {pc[q], "gone"}
      PROVE  Learnt'
  <2>1. ASSUME NEW q \in AllPids \ {p}  PROVE LearntBy(q)'
    BY <1>1 DEF LearntBy, IsRunning
  <2> QED  BY <1>1, <2>1
<1>2. ASSUME NEW p \in AllPids, Named' \subseteq Named, LearntBy(p)',
             pc' = [pc EXCEPT ![p] = pc'[p]], back' = [back EXCEPT ![p] = back'[p]],
             seen' = [seen EXCEPT ![p] = seen'[p]], victim' = [victim EXCEPT ![p] = victim'[p]]
      PROVE  Learnt'
  BY <1>1, <1>2
<1>3. ASSUME NEW p \in AllPids, WritePidFile(p)  PROVE Learnt'
  <2>1. \A q \in AllPids \ {p} : ~GoesByPidFile(q)
    BY <1>3 DEF WritePidFile
  <2>2. UNCHANGED <<back, seen, victim>> /\ pc' = [pc EXCEPT ![p] = "bind"]
    BY <1>3 DEF WritePidFile, locals
  <2>3. ASSUME NEW q \in AllPids  PROVE LearntBy(q)'
    BY <2>1, <2>2 DEF LearntBy, GoesByPidFile, IsRunning
  <2> QED  BY <2>3
<1>4. ASSUME NEW p \in AllPids, Call(p) \/ Crash(p) \/ Reuse(p) \/ OtherEnds(p)  PROVE Learnt'
  <2>1. Named' \subseteq Named
    BY <1>4, NamedShrinks
    DEF Call, CallStart, CallAutostart, CallWrap, CallStop, Begin, Crash, Reuse, OtherEnds,
        WritePidFile, Up
  <2>2. LearntBy(p)'
    BY <1>4
    DEF Call, CallStart, CallAutostart, CallWrap, CallStop, Begin, Crash, Reuse, OtherEnds,
        LearntBy, IsRunning, locals
  <2> QED
    BY <1>2, <1>4, <2>1, <2>2
    DEF Call, CallStart, CallAutostart, CallWrap, CallStop, Begin, Crash, Reuse, OtherEnds, locals
(* The answer of _is_running: there is no daemon if it says so. *)
<1>5. ASSUME NEW p \in AllPids, NEW from \in IsRunning, NEW r \in BOOLEAN, Return(p, from, r),
             Named' \subseteq Named, r \/ Named = {}
      PROVE  LearntBy(p)'
  <2>1. /\ pc[p] \in IsRunning /\ pc'[p] = After(back[p], r)
        /\ back'[p] = IF back[p] = "autostart" /\ ~r THEN "start" ELSE "end"
        /\ r => victim'[p] = victim[p]
    BY <1>5 DEF Return
  <2>2. \/ pc'[p] = "gone"
        \/ pc'[p] = "read" /\ back'[p] = "start"
        \/ pc'[p] = "stale" /\ Named' = {}
        \/ pc'[p] = "kill" /\ back[p] = "kill" /\ r
    BY <1>5, <2>1 DEF After
  <2>3. CASE pc'[p] = "kill" /\ back[p] = "kill" /\ r
    <3>1. LearntBy(p) /\ Named \subseteq {victim[p]}
      BY <2>1, <2>3 DEF LearntBy
    <3>2. /\ pc'[p] \notin {"rm_pid", "rm_sock", "stale", "unlink", "fork", "truncate", "write"}
          /\ pc'[p] # "probe" /\ Named' \subseteq {victim'[p]}
      BY <1>5, <2>1, <2>3, <3>1
    <3> QED  BY <3>2 DEF LearntBy
  <2>4. CASE ~(pc'[p] = "kill" /\ back[p] = "kill" /\ r)
    BY <2>2, <2>4 DEF LearntBy, IsRunning
  <2> QED  BY <2>3, <2>4
<1>6. ASSUME NEW p \in AllPids, ReadPidFile(p)  PROVE Learnt'
  <2>1. Named' \subseteq Named
    BY <1>6, NamedShrinks DEF Run, WritePidFile, ReadPidFile
  <2>2. ReadPid = NoPid => Named = {}
    BY PidFileRead DEF FilesNameDaemon, Named
  <2>3. LearntBy(p)'
    <3>1. CASE Return(p, "read", FALSE) /\ ReadPid = NoPid
      BY <1>5, <2>1, <2>2, <3>1 DEF IsRunning
    <3>2. CASE ReadPid # NoPid /\ Goto(p, "read", "probe") /\ UNCHANGED <<back, victim>>
      <4>1. seen'[p] \in AllPids /\ Named \subseteq {seen'[p]}
        BY <1>6, <3>2, PidFileRead DEF ReadPidFile, FilesNameDaemon, Named
      <4> QED  BY <2>1, <3>2, <4>1 DEF LearntBy, IsRunning
    <3> QED  BY <1>6, <3>1, <3>2 DEF ReadPidFile
  <2> QED  BY <1>2, <1>6, <2>1, <2>3 DEF ReadPidFile, Return
<1>7. ASSUME NEW p \in AllPids, Probe(p)  PROVE Learnt'
  <2>1. Named' \subseteq Named
    BY <1>7, NamedShrinks DEF Run, WritePidFile, Probe
  <2>2. ~Up(seen[p]) => Named = {}
    BY <1>7 DEF Probe, LearntBy, Named, Up, Exiting
  <2>3. LearntBy(p)'
    <3>1. CASE Return(p, "probe", TRUE)
      BY <1>5, <2>1, <3>1 DEF IsRunning
    <3>2. CASE ~Up(seen[p]) /\ Goto(p, "probe", "rm_pid") /\ UNCHANGED <<back, victim>>
      BY <2>1, <2>2, <3>2 DEF LearntBy, IsRunning
    <3>3. CASE Goto(p, "probe", "gone")
      BY <3>3 DEF LearntBy, IsRunning
    <3> QED  BY <1>7, <3>1, <3>2, <3>3 DEF Probe
  <2> QED  BY <1>2, <1>7, <2>1, <2>3 DEF Probe, Return
<1>8. ASSUME NEW p \in AllPids, CleanupSocket(p)  PROVE Learnt'
  <2>1. Named' \subseteq Named /\ Named = {}
    BY <1>8, NamedShrinks DEF Run, WritePidFile, CleanupSocket, Return, LearntBy
  <2>2. LearntBy(p)'
    BY <1>5, <1>8, <2>1 DEF CleanupSocket, IsRunning
  <2> QED  BY <1>2, <1>8, <2>1, <2>2 DEF CleanupSocket, Return
<1>9. ASSUME NEW p \in AllPids,
             \/ CleanupPid(p) \/ TestSocket(p) \/ UnlinkSocket(p) \/ Wait(p)
             \/ TruncatePidFile(p)
      PROVE  Learnt'
  <2>1. Named' \subseteq Named
    BY <1>9, NamedShrinks
    DEF Run, WritePidFile, CleanupPid, TestSocket, UnlinkSocket, Wait, TruncatePidFile
  <2>2. LearntBy(p)'
    BY <1>9, <2>1
    DEF CleanupPid, TestSocket, UnlinkSocket, Wait, TruncatePidFile, LearntBy, IsRunning, locals
  <2> QED
    BY <1>2, <1>9, <2>1, <2>2
    DEF CleanupPid, TestSocket, UnlinkSocket, Wait, TruncatePidFile, locals
<1>10. ASSUME NEW p \in AllPids, Fork(p)  PROVE Learnt'
  <2>1. Named' \subseteq Named /\ Named = {}
    BY <1>10, NamedShrinks DEF Run, WritePidFile, Fork, LearntBy
  <2>2. /\ UNCHANGED <<back, seen, victim>> /\ pc[p] = "fork"
        /\ \A q \in AllPids : pc'[q] \in {pc[q], "truncate", "wait"}
    BY <1>10 DEF Fork
  <2>3. ASSUME NEW q \in AllPids  PROVE LearntBy(q)'
    BY <2>1, <2>2 DEF LearntBy, IsRunning
  <2> QED  BY <2>3
<1>11. ASSUME NEW p \in AllPids,
              \/ Bind(p) \/ InstallHandlers(p) \/ LeaveLoop(p) \/ ExitTestSocket(p)
              \/ ExitUnlinkSocket(p) \/ ExitTestPid(p) \/ ExitUnlinkPid(p)
       PROVE  Learnt'
  <2>1. Named' \subseteq Named
    BY <1>11, NamedShrinks
    DEF Run, WritePidFile, Bind, InstallHandlers, LeaveLoop, ExitTestSocket, ExitUnlinkSocket,
        ExitTestPid, ExitUnlinkPid
  <2>2. LearntBy(p)'
    BY <1>11
    DEF Bind, InstallHandlers, LeaveLoop, ExitTestSocket, ExitUnlinkSocket, ExitTestPid,
        ExitUnlinkPid, LearntBy, IsRunning
  <2> QED
    BY <1>2, <1>11, <2>1, <2>2
    DEF Bind, InstallHandlers, LeaveLoop, ExitTestSocket, ExitUnlinkSocket, ExitTestPid,
        ExitUnlinkPid, locals
<1>12. ASSUME NEW p \in AllPids, StopReadPid(p)  PROVE Learnt'
  <2>1. Named' \subseteq Named
    BY <1>12, NamedShrinks DEF Run, WritePidFile, StopReadPid
  <2>2. ReadPid # NoPid => ReadPid \in AllPids /\ Named \subseteq {ReadPid}
    BY PidFileRead DEF FilesNameDaemon, Named
  <2>3. LearntBy(p)'
    BY <1>12, <2>1, <2>2 DEF StopReadPid, LearntBy, IsRunning
  <2> QED  BY <1>2, <1>12, <2>1, <2>3 DEF StopReadPid
(* stop has read the pid of the only daemon there may be. *)
<1>13. ASSUME NEW p \in AllPids, SendTerm(p) \/ SendKill(p)  PROVE Learnt'
  <2>1. Named' \subseteq Named
    BY <1>13, NamedShrinks DEF Run, WritePidFile, SendTerm, SendKill
  <2>2. victim[p] \in AllPids /\ Named \subseteq {victim[p]}
    BY <1>13 DEF SendTerm, SendKill, LearntBy, Holds
  <2>3. ~Up(victim[p]) => Named = {}
    BY <2>2 DEF Named, Up, Exiting
  <2>4. /\ seen' = seen /\ back' = [back EXCEPT ![p] = back'[p]]
        /\ victim' = [victim EXCEPT ![p] = victim'[p]]
    BY <1>13 DEF SendTerm, SendKill
  <2>5. \A q \in AllPids \ {p} : pc'[q] \in {pc[q], "gone"}
    <3>1. CASE SendTerm(p)
      BY <2>2, <3>1 DEF SendTerm
    <3>2. CASE SendKill(p)
      BY <2>2, <3>2 DEF SendKill
    <3> QED  BY <1>13, <3>1, <3>2
  <2>6. \/ pc'[p] = "gone"
        \/ pc'[p] = "read" /\ victim' = victim
        \/ pc'[p] = "rm_pid" /\ Named = {}
    <3>1. CASE SendTerm(p)
      BY <2>2, <2>3, <3>1 DEF SendTerm
    <3>2. CASE SendKill(p)
      BY <2>2, <2>3, <3>2 DEF SendKill
    <3> QED  BY <1>13, <3>1, <3>2
  <2>7. LearntBy(p)'
    BY <2>1, <2>2, <2>4, <2>6 DEF LearntBy, IsRunning
  <2> QED  BY <1>1, <2>1, <2>4, <2>5, <2>7
<1>14. CASE UNCHANGED lifecycle
  BY <1>14 DEF lifecycle, locals, LearntBy, Named
<1> QED
  BY <1>3, <1>4, <1>6, <1>7, <1>8, <1>9, <1>10, <1>11, <1>12, <1>13, <1>14 DEF LifecycleNext, Run

-----------------------------------------------------------------------------
(* The theorems *)

LEMMA LifecycleNextInv == LifecycleInv /\ [LifecycleNext]_lifecycle => LifecycleInv'
<1> SUFFICES ASSUME LifecycleInv, [LifecycleNext]_lifecycle  PROVE LifecycleInv'
  OBVIOUS
<1>1. LifecycleTypeInv'
  BY LifecycleNextTypeInv DEF LifecycleInv
<1>2. ~crossed' => ~crossed
  <2>1. crossed' = crossed \/ \E p \in AllPids : WritePidFile(p)
    BY DEF LifecycleNext, Call, CallStart, CallAutostart, CallWrap, CallStop, Begin, Crash, Reuse,
       OtherEnds, Run, ReadPidFile, Probe, CleanupPid, CleanupSocket, TestSocket, UnlinkSocket,
       Fork, Wait, TruncatePidFile, Bind, InstallHandlers, LeaveLoop, ExitTestSocket,
       ExitUnlinkSocket, ExitTestPid, ExitUnlinkPid, StopReadPid, SendTerm, SendKill, tally,
       lifecycle
  <2> QED  BY <2>1 DEF WritePidFile
<1> QED  BY <1>1, <1>2, NextFilesNameDaemon, NextLearnt DEF LifecycleInv

LEMMA LifecycleInvHolds == LifecycleSpec => []LifecycleInv
BY LifecycleInitInv, LifecycleNextInv, PTL DEF LifecycleSpec

(* From however many shells start, autostart, wrap and stop are called,    *)
(* whatever is killed at any point and whichever pids are used again, they *)
(* never bring up a second daemon unless one writes its pid while another  *)
(* process goes by what the PID file said before.                          *)
THEOREM AtMostOneDaemon == LifecycleSpec => []OneDaemon
<1>1. LifecycleInv => OneDaemon
  <2> SUFFICES ASSUME LifecycleInv, ~crossed  PROVE Cardinality(Serving) <= 1
    BY DEF OneDaemon
  <2>1. Serving \subseteq Named
    BY DEF Serving, Named
  <2>2. \A d, f \in Serving : d = f
    BY <2>1 DEF LifecycleInv, FilesNameDaemon
  <2>3. CASE Serving = {}
    BY <2>3, FS_EmptySet
  <2>4. ASSUME NEW d \in Serving  PROVE Cardinality(Serving) <= 1
    <3>1. Serving = {d}
      BY <2>2, <2>4
    <3> QED  BY <3>1, FS_Singleton
  <2> QED  BY <2>3, <2>4
<1> QED  BY <1>1, LifecycleInvHolds, PTL

(* Until then a serving daemon keeps its PID file and its socket: cleanups *)
(* by others, which decide on a pid read earlier, never remove them.       *)
THEOREM ServingIsReachable == LifecycleSpec => []LiveDaemonReachable
<1>1. LifecycleInv => LiveDaemonReachable
  BY DEF LifecycleInv, FilesNameDaemon, Named, Serving, LiveDaemonReachable
<1> QED  BY <1>1, LifecycleInvHolds, PTL

-----------------------------------------------------------------------------
(* Questions and answers: the inductive invariant *)

Asking == {"access", "bind", "send", "poll"}
Decided == {"rules", "affinity", "connect", "main"}
Messages == [kind : {"REG", "DEREG", "LOOKUP"}, pid : Pids, exe : Exes]

(* What a process r has at each place of kumf_init ...                     *)
AtStage(r) ==
  /\ r.pc \in {"init"} \cup Asking \cup {"rules", "affinity"} =>
       r.mode = "BATCH" /\ r.bound = "none"
  /\ r.pc \in {"init"} \cup Asking \cup {"rules"} => ~r.layer2
  /\ r.pc \in {"init"} \cup Asking => r.env = r.start
  /\ r.pc \in Asking => ~Explicit(r.start)
  /\ r.pc # "main" => r.mode # "PASSIVE" /\ ~r.conn
  /\ r.conn => r.mode # "PASSIVE" /\ r.env.daemon
  /\ Explicit(r.start) => r.mode # "PASSIVE" /\ r.env = r.start

(* ... and what it has decided.                                            *)
NamedMode(r) ==
  NumaAvailable /\ r.env.nodes # "invalid" =>
    /\ r.env.affinity = "batch" => r.mode = "BATCH"
    /\ r.env.affinity = "per-thread" => r.mode = "PER_THREAD"
    /\ r.env.affinity = "off" => r.bound = "none"

HasDecided(r) ==
  r.pc \in Decided =>
    /\ r.mode = "PASSIVE" => ~r.layer2 /\ r.bound = "none" /\ r.env = r.start
    /\ r.mode # "PASSIVE" => /\ Explicit(r.env)
                             /\ r.pc \in {"connect", "main"} => NamedMode(r)

Local(r) == AtStage(r) /\ HasDecided(r)
LocalInv == \A p \in Pids : proc[p] # NoProcess => Local(proc[p])

(* Requests and answers: unless a request outlived its asker, the one      *)
(* request or the one answer at a pid is of the process that waits there.  *)
Request(i, p) == queue[i].kind = "LOOKUP" /\ queue[i].pid = p
OwnAnswer(given, p) == given = Unset \/ (given = proc[p].exe /\ given \in known)

PathInv ==
  \A p \in Pids : /\ p \in open => proc[p].pc \in {"send", "poll"}
                  /\ inbox[p] # <<>> => p \in open

Answered(p) ==
  /\ inbox[p] # <<>> => /\ proc[p].pc = "poll"
                        /\ \A i \in DOMAIN queue : ~Request(i, p)
                        /\ OwnAnswer(Head(inbox[p]).conf, p)
  /\ \A i \in DOMAIN queue : Request(i, p) =>
       /\ proc[p].pc = "poll" /\ queue[i].exe = proc[p].exe
       /\ \A k \in DOMAIN queue : Request(k, p) => k = i
  /\ proc[p].pc \in Decided /\ ~Explicit(proc[p].start) => OwnConfig(p)
AnswerInv == \A p \in Pids \ stray : Answered(p)

(* The daemon's registration of a process, there or on its way, that no    *)
(* DEREG will take back.                                                   *)
Dereg(i, p) == queue[i].kind = "DEREG" /\ queue[i].pid = p
Reg(i, p) == queue[i].kind = "REG" /\ queue[i].pid = p
Lasting(p) ==
  \/ p \in registered /\ \A k \in DOMAIN queue : ~Dereg(k, p)
  \/ \E i \in DOMAIN queue : Reg(i, p) /\ \A k \in DOMAIN queue : k > i => ~Dereg(k, p)

(* The process is connected, or will be: exec leaves the pid registered.   *)
Connects(r) ==
  \/ r.conn
  \/ r.pc \in {"init", "rules", "affinity", "connect"} /\ Explicit(r.env) /\ r.env.daemon

(* Processes whose end the daemon was not told of.                         *)
Silent == killed \cup dropped

RegistryInv ==
  /\ ~daemon_up => queue = <<>> /\ registered = {}
  /\ \A p \in Pids \ Silent : Lasting(p) => proc[p] # NoProcess /\ Connects(proc[p])

Inv == TypeOK /\ LocalInv /\ PathInv /\ AnswerInv /\ RegistryInv

-----------------------------------------------------------------------------
(* Processes *)

(* A new image has decided nothing.                                        *)
LEMMA ImageLocal ==
  ASSUME NEW x \in Exes, NEW e \in Envs
  PROVE  Image(x, e) \in Processes /\ Image(x, e) # NoProcess /\ Local(Image(x, e))
<1> DEFINE r == Image(x, e)
<1>1. r \in Processes
  BY DEF Image, Processes, Modes
<1>2. r.pc = "init" /\ r.mode = "BATCH" /\ ~r.layer2 /\ r.bound = "none" /\ ~r.conn
      /\ r.start = e /\ r.env = e
  BY DEF Image
<1>3. r # NoProcess
  BY <1>2 DEF NoProcess
<1> HIDE DEF r
<1> QED  BY <1>1, <1>2, <1>3 DEF Local, AtStage, HasDecided, Decided, Asking, r

(* A process that runs is one.                                             *)
LEMMA RunningType ==
  ASSUME TypeOK, NEW p \in Pids, proc[p].pc # "none" \/ proc[p] # NoProcess
  PROVE  proc[p] \in Processes /\ proc[p] # NoProcess
<1>1. proc[p] \in Processes \cup {NoProcess}
  BY DEF TypeOK
<1>2. \A r \in Processes : r.pc # "none"
  BY DEF Processes
<1> QED  BY <1>1, <1>2 DEF NoProcess

(* The environment CONFIG makes.                                           *)
LEMMA ConfiguredType ==
  ASSUME NEW e \in Envs, NEW c \in Confs
  PROVE  Configured(e, c) \in Envs /\ Configured(e, c).conf = c
<1>1. CASE NodesNamed
  BY <1>1 DEF Configured, Envs
<1>2. CASE ~NodesNamed
  <2>1. Configured(e, c) = [e EXCEPT !.nodes = e.nodes, !.conf = c]
    BY <1>2 DEF Configured
  <2> QED  BY <2>1 DEF Envs
<1> QED  BY <1>1, <1>2

(* A step of kumf_init changes what it says, of its own process.           *)
LEMMA InitSteps ==
  ASSUME TypeOK, LocalInv, NEW p \in Pids, KumfInit(p)
  PROVE  /\ proc[p] \in Processes /\ proc[p].pc # "main"
         /\ proc'[p] \in Processes /\ Local(proc'[p])
         /\ proc'[p].exe = proc[p].exe /\ proc'[p].start = proc[p].start
         /\ proc' = [proc EXCEPT ![p] = proc'[p]]
<1>0. \A from, new : Step(p, from, new) /\ from # "none" =>
        /\ proc[p] \in Processes /\ Local(proc[p]) /\ proc[p].pc = from
        /\ proc'[p] = new /\ proc' = [proc EXCEPT ![p] = proc'[p]]
  <2> SUFFICES ASSUME NEW from, NEW new, Step(p, from, new), from # "none"
               PROVE  /\ proc[p] \in Processes /\ Local(proc[p]) /\ proc[p].pc = from
                      /\ proc'[p] = new /\ proc' = [proc EXCEPT ![p] = proc'[p]]
    OBVIOUS
  <2>1. proc[p] \in Processes /\ proc[p] # NoProcess /\ proc[p].pc = from
    BY RunningType DEF Step
  <2>2. proc'[p] = new
    BY DEF Step, TypeOK
  <2> QED  BY <2>1, <2>2 DEF Step, LocalInv
<1> USE DEF Asking, Decided
<1>1. ASSUME CheckEnv(p) \/ BindClient(p) \/ Access(p) \/ SendLookup(p) \/ PollTimeout(p)
      PROVE  /\ proc[p] \in Processes /\ proc[p].pc # "main"
             /\ proc'[p] \in Processes /\ Local(proc'[p])
             /\ proc'[p].exe = proc[p].exe /\ proc'[p].start = proc[p].start
             /\ proc' = [proc EXCEPT ![p] = proc'[p]]
  <2> DEFINE r == proc[p]
  <2>1. \/ /\ r.pc \in {"init"} \cup Asking
           /\ \E x \in {"access", "bind", "send", "poll", "rules"} :
                /\ proc'[p] = [r EXCEPT !.pc = x]
                /\ r.pc = "init" /\ x \in {"access", "rules"} => (x = "rules" <=> Explicit(r.env))
                /\ r.pc = "init" => x \in {"access", "rules"}
                /\ r.pc # "init" => x \in Asking
        \/ r.pc \in Asking /\ proc'[p] = [r EXCEPT !.mode = "PASSIVE", !.pc = "main"]
    BY <1>0, <1>1 DEF CheckEnv, BindClient, Access, SendLookup, PollTimeout, Passive
  <2>2. r \in Processes /\ Local(r) /\ proc' = [proc EXCEPT ![p] = proc'[p]]
    BY <1>0, <1>1 DEF CheckEnv, BindClient, Access, SendLookup, PollTimeout
  <2> HIDE DEF r
  <2>3. CASE r.pc \in Asking /\ proc'[p] = [r EXCEPT !.mode = "PASSIVE", !.pc = "main"]
    <3> DEFINE s == proc'[p]
    <3>1. /\ s \in Processes /\ s.mode = "PASSIVE" /\ s.pc = "main" /\ s.exe = r.exe
          /\ s.start = r.start /\ s.env = r.env /\ s.layer2 = r.layer2 /\ s.bound = r.bound
          /\ s.conn = r.conn
      BY <2>2, <2>3 DEF Processes, Modes
    <3> HIDE DEF s
    <3>2. Local(s)
      BY <2>2, <2>3, <3>1 DEF Local, AtStage, HasDecided
    <3> QED  BY <2>2, <2>3, <3>1, <3>2 DEF r, s
  <2>4. ASSUME NEW x \in {"access", "bind", "send", "poll", "rules"},
               r.pc \in {"init"} \cup Asking, proc'[p] = [r EXCEPT !.pc = x],
               r.pc = "init" => x \in {"access", "rules"} /\ (x = "rules" <=> Explicit(r.env)),
               r.pc # "init" => x \in Asking
        PROVE  /\ proc[p].pc # "main"
               /\ proc'[p] \in Processes /\ Local(proc'[p])
               /\ proc'[p].exe = proc[p].exe /\ proc'[p].start = proc[p].start
    <3> DEFINE s == proc'[p]
    <3>1. /\ s \in Processes /\ s.mode = r.mode /\ s.pc = x /\ s.exe = r.exe
          /\ s.start = r.start /\ s.env = r.env /\ s.layer2 = r.layer2 /\ s.bound = r.bound
          /\ s.conn = r.conn
      BY <2>2, <2>4 DEF Processes
    <3> HIDE DEF s
    <3>2. Local(s)
      BY <2>2, <2>4, <3>1 DEF Local, AtStage, HasDecided
    <3> QED  BY <2>4, <3>1, <3>2 DEF r, s
  <2> QED  BY <2>1, <2>2, <2>3, <2>4 DEF r
<1>2. ASSUME Receive(p)
      PROVE  /\ proc[p] \in Processes /\ proc[p].pc # "main"
             /\ proc'[p] \in Processes /\ Local(proc'[p])
             /\ proc'[p].exe = proc[p].exe /\ proc'[p].start = proc[p].start
             /\ proc' = [proc EXCEPT ![p] = proc'[p]]
  <2> DEFINE r == proc[p]
             s == proc'[p]
             given == Head(inbox[p]).conf
             env == Configured(r.env, given)
  <2>1. /\ r.pc = "poll" /\ inbox[p] # <<>> /\ r \in Processes /\ Local(r)
        /\ s = IF given = Unset THEN [r EXCEPT !.mode = "PASSIVE", !.pc = "main"]
               ELSE [r EXCEPT !.pc = "rules", !.env = env]
        /\ proc' = [proc EXCEPT ![p] = proc'[p]]
    BY <1>0, <1>2 DEF Receive, Passive
  <2>2. given \in Confs
    <3>1. Head(inbox[p]) \in Answers
      BY <2>1, HeadTailProperties DEF TypeOK
    <3>2. given \in known \cup {Unset}
      BY <3>1 DEF Answers
    <3> QED  BY <3>2 DEF TypeOK, Confs
  <2>3. r.env \in Envs
    BY <2>1 DEF Processes
  <2> HIDE DEF given, r, s
  <2>4. env \in Envs /\ env.conf = given
    BY <2>2, <2>3, ConfiguredType
  <2>5. given # Unset => Explicit(env)
    BY <2>4 DEF Explicit
  <2> HIDE DEF env
  <2>6. CASE given = Unset
    <3>1. /\ s \in Processes /\ s.mode = "PASSIVE" /\ s.pc = "main" /\ s.exe = r.exe
          /\ s.start = r.start /\ s.env = r.env /\ s.layer2 = r.layer2 /\ s.bound = r.bound
          /\ s.conn = r.conn
      BY <2>1, <2>6 DEF Processes, Modes
    <3>2. Local(s)
      BY <2>1, <2>6, <3>1 DEF Local, AtStage, HasDecided
    <3> QED  BY <2>1, <3>1, <3>2 DEF r, s
  <2>7. CASE given # Unset
    <3>1. /\ s \in Processes /\ s.mode = r.mode /\ s.pc = "rules" /\ s.exe = r.exe
          /\ s.start = r.start /\ s.env = env /\ s.layer2 = r.layer2 /\ s.bound = r.bound
          /\ s.conn = r.conn
      BY <2>1, <2>4, <2>7 DEF Processes
    <3>2. Local(s)
      BY <2>1, <2>5, <2>7, <3>1 DEF Local, AtStage, HasDecided
    <3> QED  BY <2>1, <3>1, <3>2 DEF r, s
  <2> QED  BY <2>6, <2>7
<1>3. ASSUME LoadRules(p)
      PROVE  /\ proc[p] \in Processes /\ proc[p].pc # "main"
             /\ proc'[p] \in Processes /\ Local(proc'[p])
             /\ proc'[p].exe = proc[p].exe /\ proc'[p].start = proc[p].start
             /\ proc' = [proc EXCEPT ![p] = proc'[p]]
  <2> DEFINE r == proc[p]
             s == proc'[p]
             has == HasRules(r.env.conf)
  <2>1. /\ r.pc = "rules" /\ r \in Processes /\ Local(r)
        /\ s = [r EXCEPT !.pc = "affinity", !.layer2 = has]
        /\ proc' = [proc EXCEPT ![p] = proc'[p]]
    BY <1>0, <1>3 DEF LoadRules
  <2>2. has \in BOOLEAN
    <3>1. LocalRules \in BOOLEAN /\ UserConf # Unset
      BY InitAssumption
    <3>2. CASE r.env.conf = Unset
      BY <3>1, <3>2 DEF HasRules
    <3>3. CASE r.env.conf = UserConf
      BY <3>1, <3>3 DEF HasRules
    <3>4. CASE r.env.conf # Unset /\ r.env.conf # UserConf
      <4> DEFINE listed == r.env.conf \in lookup \cap ruled
      <4>1. listed \in BOOLEAN
        OBVIOUS
      <4> HIDE DEF listed
      <4>2. has = listed
        BY <3>4 DEF HasRules, listed
      <4> QED  BY <4>1, <4>2
    <3> QED  BY <3>2, <3>3, <3>4
  <2> HIDE DEF r, s, has
  <2>3. /\ s \in Processes /\ s.mode = r.mode /\ s.pc = "affinity" /\ s.exe = r.exe
        /\ s.start = r.start /\ s.env = r.env /\ s.bound = r.bound /\ s.conn = r.conn
    BY <2>1, <2>2 DEF Processes
  <2>4. Local(s)
    BY <2>1, <2>3 DEF Local, AtStage, HasDecided
  <2> QED  BY <2>1, <2>3, <2>4 DEF r, s
<1>4. ASSUME InitAffinity(p)
      PROVE  /\ proc[p] \in Processes /\ proc[p].pc # "main"
             /\ proc'[p] \in Processes /\ Local(proc'[p])
             /\ proc'[p].exe = proc[p].exe /\ proc'[p].start = proc[p].start
             /\ proc' = [proc EXCEPT ![p] = proc'[p]]
  <2> DEFINE r == proc[p]
             s == proc'[p]
             mode == SelectMode(r.env, r.layer2)
             un == [r EXCEPT !.pc = "connect"]
             bound == IF mode = "BATCH" THEN "all" ELSE "node"
             off == ~NumaAvailable \/ r.env.nodes = "invalid" \/ r.env.affinity = "off"
  <2>1. /\ r.pc = "affinity" /\ r \in Processes /\ Local(r)
        /\ s = IF off THEN un ELSE [un EXCEPT !.mode = mode, !.bound = bound]
        /\ proc' = [proc EXCEPT ![p] = proc'[p]]
    BY <1>0, <1>4 DEF InitAffinity
  <2>2. /\ mode \in Modes \ {"PASSIVE"} /\ bound \in {"all", "node"}
        /\ r.env.affinity = "batch" => mode = "BATCH"
        /\ r.env.affinity = "per-thread" => mode = "PER_THREAD"
    BY DEF SelectMode, Modes
  <2> HIDE DEF r, s, mode, bound
  <2>3. /\ un \in Processes /\ un.mode = r.mode /\ un.pc = "connect" /\ un.exe = r.exe
        /\ un.start = r.start /\ un.env = r.env /\ un.layer2 = r.layer2 /\ un.bound = r.bound
        /\ un.conn = r.conn
    BY <2>1 DEF Processes
  <2> HIDE DEF un
  <2>4. /\ s \in Processes /\ s.pc = "connect" /\ s.exe = r.exe
        /\ s.start = r.start /\ s.env = r.env /\ s.layer2 = r.layer2 /\ s.conn = r.conn
        /\ off => s.mode = r.mode /\ s.bound = r.bound
        /\ ~off => s.mode = mode /\ s.bound = bound
    BY <2>1, <2>2, <2>3 DEF Processes
  <2>5. Local(s)
    BY <2>1, <2>2, <2>4 DEF Local, AtStage, HasDecided, NamedMode
  <2> QED  BY <2>1, <2>4, <2>5 DEF r, s
<1>5. ASSUME ConnectDaemon(p)
      PROVE  /\ proc[p] \in Processes /\ proc[p].pc # "main"
             /\ proc'[p] \in Processes /\ Local(proc'[p])
             /\ proc'[p].exe = proc[p].exe /\ proc'[p].start = proc[p].start
             /\ proc' = [proc EXCEPT ![p] = proc'[p]]
  <2> DEFINE r == proc[p]
             s == proc'[p]
             connects == r.env.daemon /\ daemon_up
  <2>1. /\ r.pc = "connect" /\ r \in Processes /\ Local(r)
        /\ s = [r EXCEPT !.pc = "main", !.conn = connects]
        /\ proc' = [proc EXCEPT ![p] = proc'[p]]
    BY <1>0, <1>5 DEF ConnectDaemon
  <2>2. connects \in BOOLEAN /\ (connects => r.env.daemon)
    OBVIOUS
  <2> HIDE DEF r, s, connects
  <2>3. /\ s \in Processes /\ s.mode = r.mode /\ s.pc = "main" /\ s.exe = r.exe
        /\ s.start = r.start /\ s.env = r.env /\ s.layer2 = r.layer2 /\ s.bound = r.bound
        /\ s.conn = connects
    BY <2>1, <2>2 DEF Processes
  <2>4. Local(s)
    BY <2>1, <2>2, <2>3 DEF Local, AtStage, HasDecided, NamedMode
  <2> QED  BY <2>1, <2>3, <2>4 DEF r, s
<1> QED  BY <1>1, <1>2, <1>3, <1>4, <1>5 DEF KumfInit

(* A step is of one process or of none; a process it starts is new, and    *)
(* has an environment of the user's or its parent's.                       *)
LEMMA ProcSteps ==
  ASSUME TypeOK, LocalInv, [Next]_vars, NEW q \in Pids
  PROVE  \/ proc'[q] = proc[q]
         \/ proc'[q] = NoProcess
         \/ \E x \in Exes, e \in Envs : proc'[q] = Image(x, e)
         \/ KumfInit(q) /\ proc'[q] \in Processes /\ Local(proc'[q])
<1> USE DEF TypeOK
<1>1. ASSUME NEW p \in Pids, NEW x \in Exes, NEW e \in UserEnvs, StartProgram(p, x, e)
      PROVE  proc'[q] = proc[q] \/ \E y \in Exes, d \in Envs : proc'[q] = Image(y, d)
  BY <1>1, EnvsAssumption DEF StartProgram
<1>2. ASSUME NEW p \in Pids, NEW c \in Pids, NEW x \in Exes, SpawnChild(p, c, x)
      PROVE  proc'[q] = proc[q] \/ \E y \in Exes, d \in Envs : proc'[q] = Image(y, d)
  <2>1. proc[p] \in Processes
    BY <1>2, RunningType DEF SpawnChild
  <2>2. proc[p].env \in Envs
    BY <2>1 DEF Processes
  <2> QED  BY <1>2, <2>2 DEF SpawnChild
<1>3. ASSUME NEW p \in Pids, NEW x \in Exes, Exec(p, x)
      PROVE  proc'[q] = proc[q] \/ \E y \in Exes, d \in Envs : proc'[q] = Image(y, d)
  <2>1. proc[p] \in Processes
    BY <1>3, RunningType DEF Exec
  <2>2. proc[p].env \in Envs
    BY <2>1 DEF Processes
  <2> QED  BY <1>3, <2>2 DEF Exec
<1>4. ASSUME NEW p \in Pids, Exit(p) \/ Kill(p)
      PROVE  proc'[q] = proc[q] \/ proc'[q] = NoProcess
  BY <1>4 DEF Exit, Kill
<1>5. ASSUME NEW p \in Pids, KumfInit(p)
      PROVE  proc'[q] = proc[q] \/ (KumfInit(q) /\ proc'[q] \in Processes /\ Local(proc'[q]))
  <2>1. CASE q = p
    BY <1>5, <2>1, InitSteps
  <2>2. CASE q # p
    BY <1>5, <2>2, InitSteps
  <2> QED  BY <2>1, <2>2
<1>6. ASSUME \/ Serve \/ DaemonStop \/ DaemonStart
             \/ \E x \in Exes : WriteBaseline(x) \/ Analyse(x)
             \/ UnlinkLookup \/ LinkLookup \/ UNCHANGED vars
      PROVE  proc' = proc
  BY <1>6 DEF Serve, DaemonStop, DaemonStart, WriteBaseline, Analyse, UnlinkLookup, LinkLookup, vars
<1> QED  BY <1>1, <1>2, <1>3, <1>4, <1>5, <1>6 DEF Next

(* Every step keeps each process in order.                                 *)
LEMMA NextLocalInv ==
  ASSUME TypeOK, LocalInv, [Next]_vars
  PROVE  /\ LocalInv'
         /\ \A q \in Pids : proc'[q] \in Processes \cup {NoProcess}
<1>1. \A q \in Pids : /\ proc'[q] \in Processes \cup {NoProcess}
                      /\ proc'[q] # NoProcess => Local(proc'[q])
  BY ProcSteps, ImageLocal DEF LocalInv, TypeOK
<1> QED  BY <1>1 DEF LocalInv

-----------------------------------------------------------------------------
(* The queue of the daemon *)

(* What a message at the end of the queue changes.                         *)
LEMMA SendProperties ==
  ASSUME TypeOK, NEW m \in Messages, Send(m)
  PROVE  /\ queue' \in Seq(Messages)
         /\ \A i \in DOMAIN queue : i \in DOMAIN queue' /\ queue'[i] = queue[i]
         /\ \A i \in DOMAIN queue' : i \notin DOMAIN queue =>
              queue'[i] = m /\ \A k \in DOMAIN queue' : k <= i
         /\ daemon_up /\ ~Full =>
              \E i \in DOMAIN queue' : queue'[i] = m /\ \A k \in DOMAIN queue : k < i
         /\ ~(daemon_up /\ ~Full) => queue' = queue
<1>1. queue \in Seq(Messages)
  BY DEF TypeOK, Messages
<1>2. DOMAIN queue = 1..Len(queue) /\ Len(queue) \in Nat
  BY <1>1, LenProperties
<1>3. CASE daemon_up /\ ~Full
  <2>1. queue' = Append(queue, m)
    BY <1>3 DEF Send
  <2>2. /\ queue' \in Seq(Messages) /\ Len(queue') = Len(queue) + 1
        /\ \A i \in 1..Len(queue) : queue'[i] = queue[i]
        /\ queue'[Len(queue)+1] = m
    BY <1>1, <2>1, AppendProperties
  <2>3. DOMAIN queue' = 1..Len(queue)+1
    BY <2>2, LenProperties
  <2>4. Len(queue)+1 \in DOMAIN queue' /\ \A k \in DOMAIN queue : k < Len(queue)+1
    BY <1>2, <2>3
  <2>5. \A i \in DOMAIN queue' : i \notin DOMAIN queue => i = Len(queue)+1
    BY <1>2, <2>3
  <2>6. \A i \in DOMAIN queue : i \in DOMAIN queue' /\ queue'[i] = queue[i]
    BY <1>2, <2>2, <2>3
  <2>7. \A k \in DOMAIN queue' : k <= Len(queue)+1
    BY <1>2, <2>3
  <2> QED  BY <1>3, <2>2, <2>4, <2>5, <2>6, <2>7
<1>4. CASE ~(daemon_up /\ ~Full)
  <2>1. queue' = queue
    BY <1>4 DEF Send
  <2> QED  BY <1>1, <1>4, <2>1
<1> QED  BY <1>3, <1>4

(* What taking the first message changes.                                  *)
LEMMA ServeProperties ==
  ASSUME TypeOK, queue # <<>>, queue' = Tail(queue)
  PROVE  /\ queue' \in Seq(Messages) /\ Head(queue) \in Messages
         /\ 1 \in DOMAIN queue /\ Head(queue) = queue[1]
         /\ \A i \in DOMAIN queue' : /\ i \in Nat /\ i >= 1 /\ i+1 \in DOMAIN queue
                                     /\ queue'[i] = queue[i+1]
         /\ \A i \in DOMAIN queue : /\ i \in Nat /\ i >= 1
                                    /\ i # 1 => i-1 \in DOMAIN queue' /\ queue'[i-1] = queue[i]
<1>1. queue \in Seq(Messages)
  BY DEF TypeOK, Messages
<1>2. DOMAIN queue = 1..Len(queue) /\ Len(queue) \in Nat \ {0}
  BY <1>1, LenProperties, EmptySeq
<1>3. /\ Head(queue) \in Messages /\ queue' \in Seq(Messages) /\ Len(queue') = Len(queue) - 1
      /\ \A i \in 1..Len(queue') : queue'[i] = queue[i+1]
  BY <1>1, HeadTailProperties
<1>4. DOMAIN queue' = 1..Len(queue)-1
  BY <1>3, LenProperties
<1>5. Head(queue) = queue[1]
  BY <1>1
<1>6. ASSUME NEW i \in DOMAIN queue'
      PROVE  i \in Nat /\ i >= 1 /\ i+1 \in DOMAIN queue /\ queue'[i] = queue[i+1]
  BY <1>2, <1>3, <1>4
<1>7. ASSUME NEW i \in DOMAIN queue
      PROVE  i \in Nat /\ i >= 1 /\ (i # 1 => i-1 \in DOMAIN queue' /\ queue'[i-1] = queue[i])
  <2>1. i \in Nat /\ i >= 1
    BY <1>2
  <2>2. CASE i # 1
    <3>1. i-1 \in 1..Len(queue)-1 /\ (i-1)+1 = i
      BY <1>2, <2>2
    <3> QED  BY <1>3, <1>4, <2>1, <3>1
  <2> QED  BY <2>1, <2>2
<1> QED  BY <1>2, <1>3, <1>5, <1>6, <1>7

-----------------------------------------------------------------------------
(* Types and paths *)

(* The messages of processes and of kumf_fini have the type of messages.   *)
LEMMA MessageType ==
  ASSUME TypeOK, NEW p \in Pids, proc[p] \in Processes, NEW kind \in {"REG", "DEREG", "LOOKUP"}
  PROVE  Message(kind, p, proc[p].exe) \in Messages
BY DEF Message, Messages, Processes

(* Every step keeps the queue one of messages.                             *)
LEMMA NextQueueType ==
  ASSUME TypeOK, [Next]_vars
  PROVE  queue' \in Seq(Messages)
<1>0. queue \in Seq(Messages)
  BY DEF TypeOK, Messages
<1>1. ASSUME NEW p \in Pids, NEW kind \in {"REG", "DEREG", "LOOKUP"}, proc[p].pc # "none",
             Send(Message(kind, p, proc[p].exe))
      PROVE  queue' \in Seq(Messages)
  BY <1>1, RunningType, MessageType, SendProperties
<1>2. ASSUME NEW p \in Pids, Exit(p) \/ SendLookup(p) \/ ConnectDaemon(p)
      PROVE  queue' \in Seq(Messages)
  <2>1. proc[p].pc # "none"
    BY <1>2 DEF Exit, SendLookup, ConnectDaemon, Step
  <2>2. \/ UNCHANGED queue
        \/ \E kind \in {"REG", "DEREG", "LOOKUP"} : Send(Message(kind, p, proc[p].exe))
    BY <1>2 DEF Exit, SendLookup, ConnectDaemon
  <2> QED  BY <1>0, <1>1, <2>1, <2>2
<1>3. ASSUME Serve  PROVE queue' \in Seq(Messages)
  BY <1>3, ServeProperties DEF Serve
<1>4. ASSUME DaemonStop  PROVE queue' \in Seq(Messages)
  BY <1>4 DEF DaemonStop
<1>5. ASSUME NEW p \in Pids,
             \/ \E x \in Exes, e \in UserEnvs : StartProgram(p, x, e)
             \/ \E c \in Pids, x \in Exes : SpawnChild(p, c, x)
             \/ \E x \in Exes : Exec(p, x)
             \/ Kill(p) \/ CheckEnv(p) \/ Access(p) \/ BindClient(p) \/ Receive(p)
             \/ PollTimeout(p) \/ LoadRules(p) \/ InitAffinity(p)
      PROVE  UNCHANGED queue
  BY <1>5 DEF StartProgram, SpawnChild, Exec, Kill, CheckEnv, Access, BindClient, Receive,
              PollTimeout, LoadRules, InitAffinity, daemon
<1>6. ASSUME \/ DaemonStart \/ \E x \in Exes : WriteBaseline(x) \/ Analyse(x)
             \/ UnlinkLookup \/ LinkLookup \/ UNCHANGED vars
      PROVE  UNCHANGED queue
  BY <1>6 DEF DaemonStart, WriteBaseline, Analyse, UnlinkLookup, LinkLookup, vars, daemon
<1> QED  BY <1>0, <1>2, <1>3, <1>4, <1>5, <1>6 DEF Next, KumfInit

(* An answer names a profile that was there.                               *)
LEMMA AnswerType ==
  ASSUME TypeOK, NEW m \in Messages
  PROVE  Answer(m) \in Answers
BY DEF Answer, Answers, TypeOK, Messages

(* Every step keeps the paths, and the profiles there ever were.           *)
LEMMA NextInboxType ==
  ASSUME TypeOK, [Next]_vars
  PROVE  /\ inbox' \in [Pids -> Seq(Answers')] /\ open' \subseteq Pids
         /\ known \subseteq known' /\ known' \subseteq Exes
         /\ lookup' \cup ruled' \subseteq known' /\ profiler' \in Profilers
<1>1. ASSUME inbox' \in [Pids -> Seq(Answers)], known \subseteq known'
      PROVE  inbox' \in [Pids -> Seq(Answers')]
  <2>1. Answers \subseteq Answers'
    BY <1>1 DEF Answers
  <2>2. \A p \in Pids : inbox'[p] \in Seq(Answers')
    BY <1>1, <2>1, SeqMonotonic
  <2> QED  BY <1>1, <2>2
<1>2. inbox \in [Pids -> Seq(Answers)] /\ <<>> \in Seq(Answers)
  BY DEF TypeOK
<1>3. ASSUME NEW p \in Pids,
             \/ \E x \in Exes, e \in UserEnvs : StartProgram(p, x, e)
             \/ \E c \in Pids, x \in Exes : SpawnChild(p, c, x)
             \/ \E x \in Exes : Exec(p, x)
             \/ Exit(p) \/ CheckEnv(p) \/ Access(p) \/ SendLookup(p)
             \/ LoadRules(p) \/ InitAffinity(p) \/ ConnectDaemon(p)
      PROVE  UNCHANGED <<inbox, open, profile>>
  BY <1>3 DEF StartProgram, SpawnChild, Exec, Exit, CheckEnv, Access, SendLookup, LoadRules,
              InitAffinity, ConnectDaemon, paths
<1>4. ASSUME NEW p \in Pids, Kill(p) \/ Receive(p) \/ PollTimeout(p)
      PROVE  inbox' \in [Pids -> Seq(Answers)] /\ open' \subseteq Pids /\ UNCHANGED profile
  BY <1>2, <1>4 DEF Kill, Receive, PollTimeout, Close, TypeOK
<1>5. ASSUME NEW p \in Pids, BindClient(p)
      PROVE  UNCHANGED <<inbox, profile>> /\ open' \subseteq Pids
  BY <1>5 DEF BindClient, TypeOK
<1>6. ASSUME Serve
      PROVE  inbox' \in [Pids -> Seq(Answers)] /\ UNCHANGED <<open, profile>>
  <2> DEFINE m == Head(queue)
  <2>1. m \in Messages
    BY <1>6, ServeProperties DEF Serve
  <2>2. m.pid \in Pids
    BY <2>1 DEF Messages
  <2>3. Append(inbox[m.pid], Answer(m)) \in Seq(Answers)
    BY <1>2, <2>1, <2>2, AnswerType, AppendProperties
  <2>4. \/ inbox' = inbox
        \/ inbox' = [inbox EXCEPT ![m.pid] = Append(inbox[m.pid], Answer(m))]
    BY <1>6 DEF Serve
  <2> HIDE DEF m
  <2>5. inbox' \in [Pids -> Seq(Answers)]
    BY <1>2, <2>2, <2>3, <2>4
  <2> QED  BY <1>6, <2>5 DEF Serve
<1>7. ASSUME \/ DaemonStop \/ DaemonStart \/ \E x \in Exes : WriteBaseline(x) \/ Analyse(x)
             \/ UnlinkLookup \/ LinkLookup
      PROVE  /\ UNCHANGED <<inbox, open>> /\ known \subseteq known' /\ known' \subseteq Exes
             /\ lookup' \cup ruled' \subseteq known' /\ profiler' \in Profilers
  <2> USE DEF TypeOK, paths
  <2>1. CASE DaemonStop \/ DaemonStart
    BY <2>1 DEF DaemonStop, DaemonStart, profile
  <2>2. ASSUME NEW x \in Exes, WriteBaseline(x) \/ Analyse(x)
        PROVE  /\ UNCHANGED <<inbox, open>> /\ known \subseteq known' /\ known' \subseteq Exes
               /\ lookup' \cup ruled' \subseteq known' /\ profiler' \in Profilers
    BY <2>2 DEF WriteBaseline, Analyse, Profilers
  <2>3. CASE UnlinkLookup \/ LinkLookup
    <3>1. profiler \in [pc : {"save", "link", "done"}, exe : Exes]
      BY <2>3 DEF UnlinkLookup, LinkLookup, Profilers, NoProfiler
    <3>2. profiler.exe \in Exes
      BY <3>1
    <3> QED  BY <2>3, <3>1, <3>2 DEF UnlinkLookup, LinkLookup, Profilers
  <2> QED  BY <1>7, <2>1, <2>2, <2>3
<1>8. CASE UNCHANGED vars
  BY <1>1, <1>2, <1>8 DEF vars, paths, profile, TypeOK
<1>9. CASE UNCHANGED profile /\ inbox' \in [Pids -> Seq(Answers)] /\ open' \subseteq Pids
  BY <1>1, <1>9 DEF profile, TypeOK
<1>10. CASE Next
  BY <1>1, <1>2, <1>3, <1>4, <1>5, <1>6, <1>7, <1>9, <1>10 DEF Next, KumfInit, TypeOK
<1> QED  BY <1>8, <1>10

(* Every step keeps the counters and the history.                          *)
LEMMA NextRestType ==
  ASSUME TypeOK, [Next]_vars
  PROVE  /\ proc' \in [Pids -> {proc'[p] : p \in Pids}]
         /\ daemon_up' \in BOOLEAN /\ registered' \subseteq Pids
         /\ starts' \in 0..MaxStarts /\ execs' \in 0..MaxExecs
         /\ killed' \subseteq Pids /\ stray' \subseteq Pids /\ dropped' \subseteq Pids
<1> USE DEF TypeOK
<1>0. proc \in [Pids -> {proc[p] : p \in Pids}] /\ MaxStarts \in Nat /\ MaxExecs \in Nat
  BY InitAssumption
<1>1. ASSUME NEW p \in Pids,
             \/ \E x \in Exes, e \in UserEnvs : StartProgram(p, x, e)
             \/ \E c \in Pids, x \in Exes : SpawnChild(p, c, x)
             \/ \E x \in Exes : Exec(p, x)
      PROVE  /\ \E q \in Pids : \E r : proc' = [proc EXCEPT ![q] = r]
             /\ UNCHANGED <<daemon_up, registered, killed, stray, dropped>>
             /\ starts' \in 0..MaxStarts /\ execs' \in 0..MaxExecs
  <2>1. \E q \in Pids : \E r : proc' = [proc EXCEPT ![q] = r]
    BY <1>1 DEF StartProgram, SpawnChild, Exec
  <2>2. UNCHANGED <<daemon_up, registered, killed, stray, dropped>>
    BY <1>1 DEF StartProgram, SpawnChild, Exec, daemon, history
  <2>3. /\ starts' = starts \/ (starts < MaxStarts /\ starts' = starts + 1)
        /\ execs' = execs \/ (execs < MaxExecs /\ execs' = execs + 1)
    BY <1>1 DEF StartProgram, SpawnChild, Exec
  <2>4. starts' \in 0..MaxStarts /\ execs' \in 0..MaxExecs
    BY <1>0, <2>3
  <2> QED  BY <2>1, <2>2, <2>4
<1>2. ASSUME NEW p \in Pids, KumfInit(p) \/ Exit(p) \/ Kill(p)
      PROVE  /\ \E r : proc' = [proc EXCEPT ![p] = r]
             /\ UNCHANGED <<daemon_up, registered, starts, execs>>
             /\ killed' \subseteq Pids /\ stray' \subseteq Pids /\ dropped' \subseteq Pids
  <2>1. CASE Exit(p) \/ Kill(p)
    BY <2>1 DEF Exit, Kill, daemon, session, history, StrayAfter
  <2>2. CASE KumfInit(p)
    BY <2>2 DEF KumfInit, CheckEnv, Access, BindClient, SendLookup, Receive, PollTimeout, LoadRules,
                InitAffinity, ConnectDaemon, Step, daemon, session, history, StrayAfter
  <2> QED  BY <1>2, <2>1, <2>2
<1>3. ASSUME Serve
      PROVE  registered' \subseteq Pids /\ UNCHANGED <<proc, daemon_up, starts, execs, killed, stray, dropped>>
  <2>1. Head(queue).pid \in Pids
    BY <1>3, ServeProperties DEF Serve, Messages
  <2>2. registered' \in {registered, registered \cup {Head(queue).pid},
                         registered \ {Head(queue).pid}}
    BY <1>3 DEF Serve
  <2> QED  BY <1>3, <2>1, <2>2 DEF Serve, session, history
<1>4. ASSUME DaemonStop \/ DaemonStart
      PROVE  /\ UNCHANGED <<proc, starts, execs, killed, stray, dropped>>
             /\ daemon_up' \in BOOLEAN /\ registered' \subseteq Pids
  BY <1>4 DEF DaemonStop, DaemonStart, session, history
<1>5. ASSUME \/ \E x \in Exes : WriteBaseline(x) \/ Analyse(x)
             \/ UnlinkLookup \/ LinkLookup \/ UNCHANGED vars
      PROVE  UNCHANGED <<proc, daemon_up, registered, starts, execs, killed, stray, dropped>>
  BY <1>5 DEF WriteBaseline, Analyse, UnlinkLookup, LinkLookup, vars, daemon, session, history
<1>6. proc' \in [Pids -> {proc'[p] : p \in Pids}]
  <2>1. UNCHANGED proc \/ \E q \in Pids : \E r : proc' = [proc EXCEPT ![q] = r]
    BY <1>1, <1>2, <1>3, <1>4, <1>5 DEF Next
  <2> QED  BY <1>0, <2>1
<1>7. /\ killed' \subseteq Pids /\ stray' \subseteq Pids /\ dropped' \subseteq Pids
      /\ daemon_up' \in BOOLEAN /\ registered' \subseteq Pids
  BY <1>1, <1>2, <1>3, <1>4, <1>5 DEF Next
<1>8. starts' \in 0..MaxStarts /\ execs' \in 0..MaxExecs
  BY <1>1, <1>2, <1>3, <1>4, <1>5 DEF Next
<1> QED  BY <1>6, <1>7, <1>8

LEMMA NextTypeOK ==
  ASSUME TypeOK, LocalInv, [Next]_vars
  PROVE  TypeOK'
<1>1. proc' \in [Pids -> Processes \cup {NoProcess}]
  BY NextLocalInv, NextRestType
<1>2. queue' \in Seq([kind : {"REG", "DEREG", "LOOKUP"}, pid : Pids, exe : Exes])
  BY NextQueueType DEF Messages
<1> QED  BY <1>1, <1>2, NextInboxType, NextRestType DEF TypeOK

(* A socket is bound from bind to the end of the poll.                     *)
LEMMA NextPathInv ==
  ASSUME TypeOK, LocalInv, PathInv, [Next]_vars
  PROVE  PathInv'
<1> USE DEF TypeOK
<1>1. ASSUME NEW c \in Pids,
             proc[c].pc \in {"none", "main", "init", "access", "rules", "affinity", "connect"},
             \A q \in Pids \ {c} : proc'[q] = proc[q], open' = open, inbox' = inbox
      PROVE  PathInv'
  BY <1>1 DEF PathInv
<1>2. ASSUME NEW p \in Pids,
             \/ \E x \in Exes, e \in UserEnvs : StartProgram(p, x, e)
             \/ \E c \in Pids, x \in Exes : SpawnChild(p, c, x)
             \/ \E x \in Exes : Exec(p, x)
             \/ Exit(p) \/ CheckEnv(p) \/ Access(p)
             \/ LoadRules(p) \/ InitAffinity(p) \/ ConnectDaemon(p)
      PROVE  PathInv'
  <2>1. open' = open /\ inbox' = inbox
    BY <1>2 DEF StartProgram, SpawnChild, Exec, Exit, CheckEnv, Access, LoadRules,
                InitAffinity, ConnectDaemon, paths
  <2>2. NoProcess.pc = "none"
    BY DEF NoProcess
  <2>3. ASSUME NEW x \in Exes, NEW e \in UserEnvs, StartProgram(p, x, e)
        PROVE  PathInv'
    <3>1. proc[p].pc = "none" /\ \A q \in Pids \ {p} : proc'[q] = proc[q]
      BY <2>2, <2>3 DEF StartProgram
    <3> QED  BY <1>1, <2>1, <3>1
  <2>4. ASSUME NEW c \in Pids, NEW x \in Exes, SpawnChild(p, c, x)
        PROVE  PathInv'
    <3>1. proc[c].pc = "none" /\ \A q \in Pids \ {c} : proc'[q] = proc[q]
      BY <2>2, <2>4 DEF SpawnChild
    <3> QED  BY <1>1, <2>1, <3>1
  <2>5. ASSUME NEW x \in Exes, Exec(p, x)  PROVE PathInv'
    <3>1. proc[p].pc = "main" /\ \A q \in Pids \ {p} : proc'[q] = proc[q]
      BY <2>5 DEF Exec
    <3> QED  BY <1>1, <2>1, <3>1
  <2>6. CASE Exit(p)
    BY <1>1, <2>1, <2>6 DEF Exit
  <2>7. CASE \/ CheckEnv(p) \/ Access(p)
             \/ LoadRules(p) \/ InitAffinity(p) \/ ConnectDaemon(p)
    <3>1. /\ proc[p].pc \in {"init", "access", "rules", "affinity", "connect"}
          /\ \A q \in Pids \ {p} : proc'[q] = proc[q]
      BY <2>7 DEF CheckEnv, Access, LoadRules, InitAffinity, ConnectDaemon, Step
    <3> QED  BY <1>1, <2>1, <3>1
  <2> QED  BY <1>2, <2>3, <2>4, <2>5, <2>6, <2>7
<1>3. ASSUME NEW p \in Pids, Kill(p) \/ Receive(p) \/ PollTimeout(p)
      PROVE  PathInv'
  <2>1. Close(p) /\ \E r : proc' = [proc EXCEPT ![p] = r]
    BY <1>3 DEF Kill, Receive, PollTimeout, Step
  <2> QED  BY <2>1 DEF Close, PathInv
<1>4. ASSUME NEW p \in Pids, BindClient(p) \/ SendLookup(p)  PROVE PathInv'
  <2>1. /\ proc[p].pc \in {"bind", "send"} /\ UNCHANGED inbox
        /\ \A q \in Pids \ {p} : proc'[q] = proc[q]
        /\ \/ proc'[p].pc \in {"send", "poll"} /\ open' \subseteq open \cup {p} /\ open \subseteq open'
           \/ proc[p].pc = "bind" /\ open' = open
    <3>1. proc[p] \in Processes
      BY <1>4, RunningType DEF BindClient, SendLookup, Step
    <3>2. CASE BindClient(p)
      BY <3>1, <3>2 DEF BindClient, Step, Processes
    <3>3. CASE SendLookup(p)
      BY <3>1, <3>3 DEF SendLookup, Step, paths, Processes
    <3> QED  BY <1>4, <3>2, <3>3
  <2> QED  BY <2>1 DEF PathInv
<1>5. ASSUME Serve  PROVE PathInv'
  <2>1. UNCHANGED <<proc, open>> /\ \A q \in Pids : inbox'[q] = inbox[q] \/ q \in open
    BY <1>5 DEF Serve
  <2> QED  BY <2>1 DEF PathInv
<1>6. ASSUME \/ DaemonStop \/ DaemonStart \/ \E x \in Exes : WriteBaseline(x) \/ Analyse(x)
             \/ UnlinkLookup \/ LinkLookup \/ UNCHANGED vars
      PROVE  PathInv'
  <2>1. UNCHANGED <<proc, open, inbox>>
    BY <1>6 DEF DaemonStop, DaemonStart, WriteBaseline, Analyse, UnlinkLookup, LinkLookup, vars,
                paths
  <2> QED  BY <2>1 DEF PathInv
<1> QED  BY <1>2, <1>3, <1>4, <1>5, <1>6 DEF Next, KumfInit

-----------------------------------------------------------------------------
(* Requests and answers *)

(* A pid that has no request and no answer.                                *)
Quiet(p) == inbox[p] = <<>> /\ \A i \in DOMAIN queue : ~Request(i, p)

LEMMA NotPolling ==
  ASSUME NEW p, Answered(p), proc[p].pc # "poll"
  PROVE  Quiet(p)
BY DEF Answered, Quiet

LEMMA QuietAnswered ==
  ASSUME NEW p, Quiet(p)',
         proc'[p].pc \in Decided /\ ~Explicit(proc'[p].start) => OwnConfig(p)'
  PROVE  Answered(p)'
BY DEF Answered, Quiet

(* A step of others', which sends no request in this pid's name.           *)
LEMMA AnsweredFrame ==
  ASSUME NEW p, Answered(p), proc'[p] = proc[p], inbox'[p] = inbox[p], known \subseteq known',
         \A i \in DOMAIN queue' : Request(i, p)' => i \in DOMAIN queue /\ queue'[i] = queue[i]
  PROVE  Answered(p)'
BY DEF Answered, Request, OwnAnswer, OwnConfig

(* What a message of a process's says of the requests in the queue.        *)
LEMMA SendRequests ==
  ASSUME TypeOK, NEW p \in Pids, proc[p].pc # "none",
         NEW kind \in {"REG", "DEREG", "LOOKUP"}, Send(Message(kind, p, proc[p].exe)),
         NEW q \in Pids, q # p \/ kind # "LOOKUP"
  PROVE  \A i \in DOMAIN queue' : Request(i, q)' => i \in DOMAIN queue /\ queue'[i] = queue[i]
<1> DEFINE m == Message(kind, p, proc[p].exe)
<1>1. m \in Messages
  BY RunningType, MessageType
<1>2. ~(m.kind = "LOOKUP" /\ m.pid = q)
  BY DEF Message
<1> HIDE DEF m
<1>3. Send(m)
  BY DEF m
<1> QED  BY <1>1, <1>2, <1>3, SendProperties DEF Request

(* A process that is not waiting for an answer keeps to its own.           *)
LEMMA QuietSteps ==
  ASSUME TypeOK, LocalInv, PathInv, NEW p \in Pids, Answered(p), known' = known,
         \/ CheckEnv(p) \/ Access(p) \/ BindClient(p)
         \/ LoadRules(p) \/ InitAffinity(p) \/ ConnectDaemon(p)
  PROVE  Answered(p)'
<1> DEFINE r == proc[p]
           s == proc'[p]
<1>1. r.pc \in {"init", "access", "bind", "rules", "affinity", "connect"}
  BY DEF CheckEnv, Access, BindClient, LoadRules, InitAffinity, ConnectDaemon, Step
<1>2. r \in Processes /\ r # NoProcess /\ Local(r)
  BY <1>1, RunningType DEF LocalInv
<1>3. Quiet(p)
  BY <1>1, NotPolling
<1>4. Quiet(p)'
  <2>1. CASE ~ConnectDaemon(p)
    <3>1. UNCHANGED <<inbox, queue>>
      BY <2>1 DEF CheckEnv, Access, BindClient, LoadRules, InitAffinity, paths, daemon
    <3> QED  BY <1>3, <3>1 DEF Quiet, Request
  <2>2. CASE ConnectDaemon(p)
    <3>1. inbox' = inbox /\ (UNCHANGED queue \/ Send(Message("REG", p, proc[p].exe)))
      BY <2>2 DEF ConnectDaemon, paths
    <3>2. \A i \in DOMAIN queue' : Request(i, p)' => i \in DOMAIN queue /\ queue'[i] = queue[i]
      BY <1>1, <3>1, SendRequests
    <3> QED  BY <1>3, <3>1, <3>2 DEF Quiet, Request
  <2> QED  BY <2>1, <2>2
<1>5. s.exe = r.exe /\ s.start = r.start
  BY InitSteps DEF KumfInit
<1>6. ASSUME s.pc \in Decided, ~Explicit(s.start)  PROVE OwnConfig(p)'
  <2>1. CASE CheckEnv(p)
    <3>1. s = [r EXCEPT !.pc = IF Explicit(r.env) THEN "rules" ELSE "access"] /\ r.pc = "init"
      BY <2>1 DEF CheckEnv, Step, TypeOK
    <3>2. r.env = r.start
      BY <1>2, <3>1 DEF Local, AtStage
    <3> HIDE DEF r, s
    <3>3. s.pc = "access"
      BY <1>2, <1>5, <1>6, <3>1, <3>2 DEF Processes
    <3> QED  BY <1>6, <3>3 DEF Decided
  <2>2. CASE Access(p) \/ BindClient(p)
    <3>1. \/ s = [r EXCEPT !.mode = "PASSIVE", !.pc = "main"]
          \/ \E x \in {"bind", "send"} : s = [r EXCEPT !.pc = x]
      BY <2>2 DEF Access, BindClient, Step, Passive, TypeOK
    <3> HIDE DEF r, s
    <3>2. s.mode = "PASSIVE" \/ s.pc \in {"bind", "send"}
      BY <1>2, <3>1 DEF Processes
    <3> QED  BY <1>6, <3>2 DEF Decided, OwnConfig, s
  <2>3. CASE LoadRules(p) \/ InitAffinity(p) \/ ConnectDaemon(p)
    <3>1. r.pc \in Decided /\ r.pc # "main"
      BY <2>3 DEF LoadRules, InitAffinity, ConnectDaemon, Step, Decided
    <3>2. r.mode # "PASSIVE"
      BY <1>2, <3>1 DEF Local, AtStage
    <3>3. r.env.conf = r.exe /\ r.exe \in known
      BY <1>5, <1>6, <3>1, <3>2 DEF Answered, OwnConfig
    <3>4. s.env = r.env
      <4>1. CASE LoadRules(p)
        <5>1. s = [r EXCEPT !.pc = "affinity", !.layer2 = HasRules(r.env.conf)]
          BY <4>1 DEF LoadRules, Step, TypeOK
        <5> HIDE DEF r, s
        <5> QED  BY <1>2, <5>1 DEF Processes
      <4>2. CASE InitAffinity(p)
        <5>1. \E x, y : s \in {[r EXCEPT !.pc = "connect"],
                               [[r EXCEPT !.pc = "connect"] EXCEPT !.mode = x, !.bound = y]}
          BY <4>2 DEF InitAffinity, Step, TypeOK
        <5> HIDE DEF r, s
        <5> QED  BY <1>2, <5>1 DEF Processes
      <4>3. CASE ConnectDaemon(p)
        <5>1. \E x : s = [r EXCEPT !.pc = "main", !.conn = x]
          BY <4>3 DEF ConnectDaemon, Step, TypeOK
        <5> HIDE DEF r, s
        <5> QED  BY <1>2, <5>1 DEF Processes
      <4> QED  BY <2>3, <4>1, <4>2, <4>3
    <3> QED  BY <1>5, <3>3, <3>4 DEF OwnConfig
  <2> QED  BY <2>1, <2>2, <2>3
<1> QED  BY <1>4, <1>6, QuietAnswered

(* The waiting process: it has sent its request, or gets its answer, or    *)
(* gives up.                                                               *)
LEMMA PollSteps ==
  ASSUME TypeOK, LocalInv, PathInv, NEW p \in Pids, Answered(p), known' = known,
         SendLookup(p) \/ Receive(p) \/ PollTimeout(p), p \notin stray'
  PROVE  Answered(p)'
<1> DEFINE r == proc[p]
           s == proc'[p]
<1>1. r \in Processes /\ r # NoProcess /\ Local(r) /\ r.pc \in {"send", "poll"}
  <2>1. r.pc \in {"send", "poll"}
    BY DEF SendLookup, Receive, PollTimeout, Step
  <2> QED  BY <2>1, RunningType DEF LocalInv
<1>2. s.exe = r.exe /\ s.start = r.start
  BY InitSteps DEF KumfInit
<1>3. ASSUME SendLookup(p)  PROVE Answered(p)'
  <2> DEFINE m == Message("LOOKUP", p, r.exe)
  <2>1. r.pc = "send" /\ Send(m) /\ inbox' = inbox /\ s = [r EXCEPT !.pc = "poll"]
    BY <1>3 DEF SendLookup, Step, paths, TypeOK
  <2>2. s.pc = "poll"
    BY <1>1, <2>1 DEF Processes
  <2>3. inbox[p] = <<>> /\ \A i \in DOMAIN queue : ~Request(i, p)
    BY <2>1, NotPolling DEF Quiet
  <2>4. m \in Messages /\ m.exe = r.exe
    BY <1>1, MessageType DEF Message
  <2> HIDE DEF m, r, s
  <2>5. /\ \A i \in DOMAIN queue : i \in DOMAIN queue' /\ queue'[i] = queue[i]
        /\ \A i \in DOMAIN queue' : i \notin DOMAIN queue =>
             queue'[i] = m /\ \A k \in DOMAIN queue' : k <= i
        /\ queue' \in Seq(Messages)
    BY <2>1, <2>4, SendProperties
  <2>6. \A i \in DOMAIN queue' : Request(i, p)' =>
          queue'[i] = m /\ \A k \in DOMAIN queue' : k <= i
    BY <2>3, <2>5 DEF Request
  <2>7. \A i \in DOMAIN queue' : i \in Nat
    BY <2>5, LenProperties
  <2>8. \A i \in DOMAIN queue' : Request(i, p)' =>
          /\ s.pc = "poll" /\ queue'[i].exe = s.exe
          /\ \A k \in DOMAIN queue' : Request(k, p)' => k = i
    BY <1>2, <2>2, <2>4, <2>6, <2>7
  <2>9. s.pc \notin Decided
    BY <2>2 DEF Decided
  <2> QED  BY <2>1, <2>3, <2>8, <2>9 DEF Answered, s
<1>4. ASSUME Receive(p)  PROVE Answered(p)'
  <2> DEFINE given == Head(inbox[p]).conf
             env == Configured(r.env, given)
  <2>1. /\ inbox[p] # <<>> /\ queue' = queue /\ Close(p)
        /\ s = IF given = Unset THEN [r EXCEPT !.mode = "PASSIVE", !.pc = "main"]
               ELSE [r EXCEPT !.pc = "rules", !.env = env]
    BY <1>4 DEF Receive, Step, Passive, daemon, TypeOK
  <2>2. p \notin stray /\ \A i \in DOMAIN queue : ~Request(i, p)
    BY <1>4, <2>1 DEF Receive, history, Answered
  <2>3. OwnAnswer(given, p)
    BY <2>1 DEF Answered
  <2>4. Quiet(p)'
    BY <2>1, <2>2 DEF Close, Quiet, Request, TypeOK
  <2>5. OwnConfig(p)'
    <3>1. CASE given = Unset
      <4>1. s.mode = "PASSIVE"
        BY <1>1, <2>1, <3>1 DEF Processes
      <4> QED  BY <4>1 DEF OwnConfig
    <3>2. CASE given # Unset
      <4>1. r.env \in Envs
        BY <1>1 DEF Processes
      <4>5. given \in Confs
        <5>1. Head(inbox[p]) \in Answers
          BY <2>1, HeadTailProperties DEF TypeOK
        <5> QED  BY <5>1 DEF Answers, TypeOK, Confs
      <4> HIDE DEF given, r, s
      <4>2. env.conf = given
        BY <4>1, <4>5, ConfiguredType
      <4> HIDE DEF env
      <4>3. s.env = env
        BY <1>1, <2>1, <3>2 DEF Processes
      <4>4. given = s.exe /\ given \in known
        BY <1>2, <2>3, <3>2 DEF OwnAnswer, r
      <4> QED  BY <4>2, <4>3, <4>4 DEF OwnConfig, s
    <3> QED  BY <3>1, <3>2
  <2> QED  BY <2>4, <2>5, QuietAnswered
<1>5. ASSUME PollTimeout(p)  PROVE Answered(p)'
  <2>1. /\ queue' = queue /\ Close(p) /\ s = [r EXCEPT !.mode = "PASSIVE", !.pc = "main"]
        /\ stray' = StrayAfter(p)
    BY <1>5 DEF PollTimeout, Step, Passive, daemon, TypeOK
  <2>2. \A i \in DOMAIN queue : ~Request(i, p)
    BY <2>1 DEF StrayAfter, Asked, Request
  <2>3. Quiet(p)'
    BY <2>1, <2>2 DEF Close, Quiet, Request, TypeOK
  <2>4. s.mode = "PASSIVE"
    BY <1>1, <2>1 DEF Processes
  <2> QED  BY <2>3, <2>4, QuietAnswered DEF OwnConfig
<1> QED  BY <1>3, <1>4, <1>5

(* The daemon answers the process that asked, if it still listens.         *)
LEMMA ServeAnswers ==
  ASSUME TypeOK, PathInv, Serve, NEW q \in Pids, Answered(q)
  PROVE  Answered(q)'
<1> DEFINE m == Head(queue)
<1>1. /\ queue # <<>> /\ queue' = Tail(queue) /\ UNCHANGED <<proc, known, lookup>>
      /\ inbox' = IF m.kind = "LOOKUP" /\ m.pid \in open
                  THEN [inbox EXCEPT ![m.pid] = Append(inbox[m.pid], Answer(m))] ELSE inbox
  BY DEF Serve, profile
<1>2. /\ m \in Messages /\ 1 \in DOMAIN queue /\ m = queue[1]
      /\ \A i \in DOMAIN queue' : /\ i \in Nat /\ i >= 1 /\ i+1 \in DOMAIN queue
                                  /\ queue'[i] = queue[i+1]
  BY <1>1, ServeProperties
<1>3. m.pid \in Pids
  BY <1>2 DEF Messages
<1>4. \A i \in DOMAIN queue' : Request(i, q)' => Request(i+1, q)
  BY <1>2 DEF Request
<1> HIDE DEF m
<1>5. CASE m.kind = "LOOKUP" /\ m.pid = q
  <2>1. /\ Request(1, q) /\ proc[q].pc = "poll" /\ m.exe = proc[q].exe
        /\ \A k \in DOMAIN queue : Request(k, q) => k = 1
    <3>1. Request(1, q)
      BY <1>2, <1>5 DEF Request
    <3> QED  BY <1>2, <3>1 DEF Answered
  <2>2. \A i \in DOMAIN queue' : ~Request(i, q)'
    <3> SUFFICES ASSUME NEW i \in DOMAIN queue', Request(i, q)'  PROVE FALSE
      OBVIOUS
    <3>1. i+1 \in DOMAIN queue /\ Request(i+1, q) /\ i \in Nat /\ i >= 1
      BY <1>2, <1>4
    <3>2. i+1 = 1
      BY <2>1, <3>1
    <3> QED  BY <3>1, <3>2
  <2>3. inbox[q] = <<>>
    BY <1>2, <2>1 DEF Answered
  <2>4. proc'[q] = proc[q] /\ proc[q].pc \notin Decided
    BY <1>1, <2>1 DEF Decided
  <2>5. inbox'[q] # <<>> => OwnAnswer(Head(inbox[q]).conf, q)'
    <3> SUFFICES ASSUME inbox'[q] # <<>>  PROVE OwnAnswer(Head(inbox[q]).conf, q)'
      OBVIOUS
    <3>1. inbox'[q] = Append(<<>>, Answer(m))
      BY <1>1, <1>3, <1>5, <2>3 DEF TypeOK
    <3>2. Head(inbox'[q]) = Answer(m)
      BY <3>1
    <3>3. Answer(m).conf = Unset \/ (Answer(m).conf = m.exe /\ m.exe \in known)
      BY DEF Answer, TypeOK
    <3> QED  BY <1>1, <2>1, <3>2, <3>3 DEF OwnAnswer
  <2>6. /\ inbox'[q] # <<>> => /\ proc'[q].pc = "poll"
                               /\ \A i \in DOMAIN queue' : ~Request(i, q)'
                               /\ OwnAnswer(Head(inbox[q]).conf, q)'
        /\ \A i \in DOMAIN queue' : Request(i, q)' =>
             /\ proc'[q].pc = "poll" /\ queue'[i].exe = proc'[q].exe
             /\ \A k \in DOMAIN queue' : Request(k, q)' => k = i
        /\ proc'[q].pc \in Decided /\ ~Explicit(proc'[q].start) => OwnConfig(q)'
    BY <2>1, <2>2, <2>4, <2>5
  <2> QED  BY <2>6 DEF Answered
<1>6. CASE ~(m.kind = "LOOKUP" /\ m.pid = q)
  <2>1. inbox'[q] = inbox[q]
    BY <1>1, <1>3, <1>6 DEF TypeOK
  <2>2. \A i \in DOMAIN queue' : Request(i, q)' =>
          /\ proc[q].pc = "poll" /\ queue'[i].exe = proc[q].exe
          /\ \A k \in DOMAIN queue' : Request(k, q)' => k = i
    <3> SUFFICES ASSUME NEW i \in DOMAIN queue', Request(i, q)'
                 PROVE  /\ proc[q].pc = "poll" /\ queue'[i].exe = proc[q].exe
                        /\ \A k \in DOMAIN queue' : Request(k, q)' => k = i
      OBVIOUS
    <3>1. i+1 \in DOMAIN queue /\ Request(i+1, q) /\ queue'[i] = queue[i+1]
      BY <1>2, <1>4
    <3>2. ASSUME NEW k \in DOMAIN queue', Request(k, q)'  PROVE k = i
      <4>1. k+1 \in DOMAIN queue /\ Request(k+1, q)
        BY <1>2, <1>4, <3>2
      <4>2. k+1 = i+1
        BY <3>1, <4>1 DEF Answered
      <4>3. k \in Nat /\ i \in Nat
        BY <1>2
      <4> QED  BY <4>2, <4>3
    <3> QED  BY <3>1, <3>2 DEF Answered
  <2>3. inbox[q] # <<>> => \A i \in DOMAIN queue' : ~Request(i, q)'
    BY <1>2, <1>4 DEF Answered
  <2>4. inbox[q] # <<>> => proc[q].pc = "poll" /\ OwnAnswer(Head(inbox[q]).conf, q)'
    BY <1>1, <2>1 DEF Answered, OwnAnswer
  <2>5. proc[q].pc \in Decided /\ ~Explicit(proc[q].start) => OwnConfig(q)'
    BY <1>1 DEF Answered, OwnConfig
  <2>6. proc'[q] = proc[q]
    BY <1>1
  <2>7. /\ inbox'[q] # <<>> => /\ proc'[q].pc = "poll"
                               /\ \A i \in DOMAIN queue' : ~Request(i, q)'
                               /\ OwnAnswer(Head(inbox[q]).conf, q)'
        /\ \A i \in DOMAIN queue' : Request(i, q)' =>
             /\ proc'[q].pc = "poll" /\ queue'[i].exe = proc'[q].exe
             /\ \A k \in DOMAIN queue' : Request(k, q)' => k = i
        /\ proc'[q].pc \in Decided /\ ~Explicit(proc'[q].start) => OwnConfig(q)'
    BY <2>1, <2>2, <2>3, <2>4, <2>5, <2>6 DEF OwnAnswer
  <2> QED  BY <2>7 DEF Answered
<1> QED  BY <1>5, <1>6


(* A process that starts at a pid has asked nothing.                       *)
LEMMA StartAnswered ==
  ASSUME TypeOK, NEW q \in Pids, Answered(q), known \subseteq known', UNCHANGED <<queue, inbox>>,
         NEW c \in Pids, proc[c].pc \in {"none", "main"},
         NEW x \in Exes, NEW e, proc' = [proc EXCEPT ![c] = Image(x, e)]
  PROVE  Answered(q)'
<1>1. CASE q = c
  <2>1. Quiet(q)
    BY <1>1, NotPolling
  <2>2. Quiet(q)'
    BY <2>1 DEF Quiet, Request
  <2>3. proc'[q] = Image(x, e)
    BY <1>1 DEF TypeOK
  <2>4. proc'[q].pc = "init"
    BY <2>3 DEF Image
  <2> QED  BY <2>2, <2>4, QuietAnswered DEF Decided
<1>2. CASE q # c
  BY <1>2, AnsweredFrame DEF TypeOK
<1> QED  BY <1>1, <1>2

(* Every step keeps requests and answers with who asked.                   *)
LEMMA NextAnswerInv ==
  ASSUME TypeOK, LocalInv, PathInv, AnswerInv, [Next]_vars
  PROVE  AnswerInv'
<1> SUFFICES ASSUME NEW q \in Pids, q \notin stray'  PROVE Answered(q)'
  BY DEF AnswerInv
<1>1. stray' = stray \/ \E p \in Pids : stray' = StrayAfter(p)
  BY DEF Next, KumfInit, StartProgram, SpawnChild, Exec, Exit, Kill, CheckEnv, Access, BindClient,
         SendLookup, Receive, PollTimeout, LoadRules, InitAffinity, ConnectDaemon, Serve,
         DaemonStop, DaemonStart, WriteBaseline, Analyse, UnlinkLookup, LinkLookup, history, vars
<1>2. Answered(q) /\ known \subseteq known'
  BY <1>1, NextInboxType DEF AnswerInv, StrayAfter
<1>3. NoProcess.pc = "none"
  BY DEF NoProcess
<1>4. ASSUME NEW p \in Pids, NEW x \in Exes, NEW e \in UserEnvs, StartProgram(p, x, e)
      PROVE  Answered(q)'
  BY <1>2, <1>3, <1>4, StartAnswered DEF StartProgram, daemon, paths
<1>5. ASSUME NEW p \in Pids, NEW c \in Pids, NEW x \in Exes, SpawnChild(p, c, x)
      PROVE  Answered(q)'
  BY <1>2, <1>3, <1>5, StartAnswered DEF SpawnChild, daemon, paths
<1>6. ASSUME NEW p \in Pids, NEW x \in Exes, Exec(p, x)  PROVE Answered(q)'
  BY <1>2, <1>6, StartAnswered DEF Exec, daemon, paths
<1>7. ASSUME NEW p \in Pids, Exit(p)  PROVE Answered(q)'
  <2>1. /\ proc[p].pc = "main" /\ proc' = [proc EXCEPT ![p] = NoProcess] /\ inbox' = inbox
        /\ UNCHANGED queue \/ Send(Message("DEREG", p, proc[p].exe))
    BY <1>7 DEF Exit, paths
  <2>2. \A i \in DOMAIN queue' : Request(i, q)' => i \in DOMAIN queue /\ queue'[i] = queue[i]
    BY <2>1, SendRequests DEF Request
  <2>3. CASE q = p
    <3>1. Quiet(q)
      BY <1>2, <2>1, <2>3, NotPolling
    <3>2. Quiet(q)'
      BY <2>1, <2>2, <3>1 DEF Quiet, Request
    <3>3. proc'[q].pc = "none"
      BY <1>3, <2>1, <2>3 DEF TypeOK
    <3> QED  BY <3>2, <3>3, QuietAnswered DEF Decided
  <2>4. CASE q # p
    BY <1>2, <2>1, <2>2, <2>4, AnsweredFrame DEF TypeOK
  <2> QED  BY <2>3, <2>4
<1>8. ASSUME NEW p \in Pids, Kill(p)  PROVE Answered(q)'
  <2>1. /\ proc' = [proc EXCEPT ![p] = NoProcess] /\ Close(p) /\ queue' = queue
        /\ stray' = StrayAfter(p)
    BY <1>8 DEF Kill, daemon
  <2>2. CASE q = p
    <3>1. \A i \in DOMAIN queue : ~Request(i, q)
      BY <2>1, <2>2 DEF StrayAfter, Asked, Request
    <3>2. Quiet(q)'
      BY <2>1, <2>2, <3>1 DEF Close, Quiet, Request, TypeOK
    <3>3. proc'[q].pc = "none"
      BY <1>3, <2>1, <2>2 DEF TypeOK
    <3> QED  BY <3>2, <3>3, QuietAnswered DEF Decided
  <2>3. CASE q # p
    BY <1>2, <2>1, <2>3, AnsweredFrame DEF TypeOK, Close
  <2> QED  BY <2>2, <2>3
<1>9. ASSUME NEW p \in Pids,
             \/ CheckEnv(p) \/ Access(p) \/ BindClient(p)
             \/ LoadRules(p) \/ InitAffinity(p) \/ ConnectDaemon(p)
      PROVE  Answered(q)'
  <2>1. CASE q = p
    <3>1. known' = known
      BY <1>9 DEF CheckEnv, Access, BindClient, LoadRules, InitAffinity, ConnectDaemon, profile
    <3> QED  BY <1>2, <1>9, <2>1, <3>1, QuietSteps
  <2>2. CASE q # p
    <3>1. /\ proc'[q] = proc[q] /\ inbox' = inbox /\ proc[p].pc # "none"
          /\ UNCHANGED queue \/ Send(Message("REG", p, proc[p].exe))
      <4>1. proc' = [proc EXCEPT ![p] = proc'[p]] /\ proc[p].pc # "none"
        <5>1. KumfInit(p)
          BY <1>9 DEF KumfInit
        <5> QED  BY <5>1, InitSteps DEF Processes
      <4>2. inbox' = inbox
        BY <1>9 DEF CheckEnv, Access, BindClient, LoadRules, InitAffinity, ConnectDaemon, paths
      <4>3. UNCHANGED queue \/ Send(Message("REG", p, proc[p].exe))
        BY <1>9 DEF CheckEnv, Access, BindClient, LoadRules, InitAffinity, ConnectDaemon, daemon
      <4> QED  BY <2>2, <4>1, <4>2, <4>3 DEF TypeOK
    <3>2. \A i \in DOMAIN queue' : Request(i, q)' => i \in DOMAIN queue /\ queue'[i] = queue[i]
      BY <3>1, SendRequests DEF Request
    <3> QED  BY <1>2, <3>1, <3>2, AnsweredFrame
  <2> QED  BY <2>1, <2>2
<1>10. ASSUME NEW p \in Pids, SendLookup(p) \/ Receive(p) \/ PollTimeout(p)
       PROVE  Answered(q)'
  <2>1. CASE q = p
    <3>1. known' = known
      BY <1>10 DEF SendLookup, Receive, PollTimeout, profile
    <3> QED  BY <1>2, <1>10, <2>1, <3>1, PollSteps
  <2>2. CASE q # p
    <3>1. /\ proc'[q] = proc[q] /\ inbox'[q] = inbox[q] /\ proc[p].pc # "none"
          /\ UNCHANGED queue \/ Send(Message("LOOKUP", p, proc[p].exe))
      BY <1>10, <2>2 DEF SendLookup, Receive, PollTimeout, Step, Close, paths, daemon, TypeOK
    <3>2. \A i \in DOMAIN queue' : Request(i, q)' => i \in DOMAIN queue /\ queue'[i] = queue[i]
      BY <2>2, <3>1, SendRequests DEF Request
    <3> QED  BY <1>2, <3>1, <3>2, AnsweredFrame
  <2> QED  BY <2>1, <2>2
<1>11. CASE Serve
  BY <1>2, <1>11, ServeAnswers
<1>12. CASE \/ DaemonStop \/ DaemonStart \/ \E x \in Exes : WriteBaseline(x) \/ Analyse(x)
            \/ UnlinkLookup \/ LinkLookup \/ UNCHANGED vars
  <2>1. /\ proc' = proc /\ inbox' = inbox
        /\ queue' = <<>> \/ queue' = queue
    BY <1>12 DEF DaemonStop, DaemonStart, WriteBaseline, Analyse, UnlinkLookup, LinkLookup, vars,
                 paths, daemon
  <2>2. \A i \in DOMAIN queue' : Request(i, q)' => i \in DOMAIN queue /\ queue'[i] = queue[i]
    BY <2>1 DEF Request
  <2> QED  BY <1>2, <2>1, <2>2, AnsweredFrame
<1> QED  BY <1>4, <1>5, <1>6, <1>7, <1>8, <1>9, <1>10, <1>11, <1>12 DEF Next, KumfInit


-----------------------------------------------------------------------------
(* The registry *)

(* A message that is no registration of q leaves nothing lasting of it.    *)
LEMMA SendLasting ==
  ASSUME TypeOK, NEW m \in Messages, Send(m), registered' = registered,
         NEW q, ~(m.kind = "REG" /\ m.pid = q), Lasting(q)'
  PROVE  Lasting(q)
<1>1. /\ \A i \in DOMAIN queue : i \in DOMAIN queue' /\ queue'[i] = queue[i]
      /\ \A i \in DOMAIN queue' : i \notin DOMAIN queue => queue'[i] = m
  BY SendProperties
<1>2. CASE q \in registered' /\ \A k \in DOMAIN queue' : ~Dereg(k, q)'
  <2>1. \A k \in DOMAIN queue : ~Dereg(k, q)
    BY <1>1, <1>2 DEF Dereg
  <2> QED  BY <1>2, <2>1 DEF Lasting
<1>3. ASSUME NEW i \in DOMAIN queue', Reg(i, q)',
             \A k \in DOMAIN queue' : k > i => ~Dereg(k, q)'
      PROVE  Lasting(q)
  <2>1. i \in DOMAIN queue /\ Reg(i, q)
    BY <1>1, <1>3 DEF Reg
  <2>2. \A k \in DOMAIN queue : k > i => ~Dereg(k, q)
    BY <1>1, <1>3 DEF Dereg
  <2> QED  BY <2>1, <2>2 DEF Lasting
<1> QED  BY <1>2, <1>3 DEF Lasting

(* A DEREG of kumf_fini that arrives takes back every registration.        *)
LEMMA DeregEnds ==
  ASSUME TypeOK, RegistryInv, NEW q \in Pids, proc[q].pc # "none", registered' = registered,
         Send(Message("DEREG", q, proc[q].exe)), ~(daemon_up /\ Full)
  PROVE  ~Lasting(q)'
<1> DEFINE m == Message("DEREG", q, proc[q].exe)
<1>1. m \in Messages /\ m.kind = "DEREG" /\ m.pid = q
  BY RunningType, MessageType DEF Message
<1>2. Send(m)
  OBVIOUS
<1> HIDE DEF m
<1>3. CASE daemon_up
  <2>1. PICK j \in DOMAIN queue' : queue'[j] = m /\ \A k \in DOMAIN queue : k < j
    BY <1>1, <1>2, <1>3, SendProperties
  <2>2. Dereg(j, q)'
    BY <1>1, <2>1 DEF Dereg
  <2>3. ASSUME NEW i \in DOMAIN queue', Reg(i, q)'  PROVE j > i
    <3>1. queue'[i] # m
      BY <1>1, <2>3 DEF Reg
    <3>2. i \in DOMAIN queue
      BY <1>1, <1>2, <3>1, SendProperties
    <3> QED  BY <2>1, <3>2
  <2> QED  BY <2>1, <2>2, <2>3 DEF Lasting
<1>4. CASE ~daemon_up
  <2>1. queue = <<>> /\ queue' = queue /\ registered = {}
    BY <1>1, <1>2, <1>4, SendProperties DEF RegistryInv
  <2> QED  BY <2>1 DEF Lasting
<1> QED  BY <1>3, <1>4

(* The daemon reads a message: what lasts then lasted before.              *)
LEMMA ServeLasting ==
  ASSUME TypeOK, Serve, NEW q \in Pids, Lasting(q)'
  PROVE  Lasting(q)
<1> DEFINE m == Head(queue)
<1>1. /\ m \in Messages /\ 1 \in DOMAIN queue /\ m = queue[1]
      /\ \A i \in DOMAIN queue' : /\ i \in Nat /\ i >= 1 /\ i+1 \in DOMAIN queue
                                  /\ queue'[i] = queue[i+1]
      /\ \A i \in DOMAIN queue : /\ i \in Nat /\ i >= 1
                                 /\ i # 1 => i-1 \in DOMAIN queue' /\ queue'[i-1] = queue[i]
  BY ServeProperties DEF Serve
<1>2. registered' = CASE m.kind = "REG"   -> registered \cup {m.pid}
                      [] m.kind = "DEREG" -> registered \ {m.pid}
                      [] OTHER            -> registered
  BY DEF Serve
<1> HIDE DEF m
<1>3. \A k \in DOMAIN queue : k # 1 /\ Dereg(k, q) => k-1 \in DOMAIN queue' /\ Dereg(k-1, q)'
  BY <1>1 DEF Dereg
<1>4. CASE q \in registered' /\ \A k \in DOMAIN queue' : ~Dereg(k, q)'
  <2>1. \A k \in DOMAIN queue : k # 1 => ~Dereg(k, q)
    BY <1>3, <1>4
  <2>2. CASE m.kind = "REG" /\ m.pid = q
    <3>1. Reg(1, q)
      BY <1>1, <2>2 DEF Reg
    <3>2. \A k \in DOMAIN queue : k > 1 => ~Dereg(k, q)
      BY <2>1
    <3> QED  BY <1>1, <3>1, <3>2 DEF Lasting
  <2>3. CASE ~(m.kind = "REG" /\ m.pid = q)
    <3>1. q \in registered /\ ~(m.kind = "DEREG" /\ m.pid = q)
      BY <1>2, <1>4, <2>3
    <3>2. ~Dereg(1, q)
      BY <1>1, <3>1 DEF Dereg
    <3> QED  BY <2>1, <3>1, <3>2 DEF Lasting
  <2> QED  BY <2>2, <2>3
<1>5. ASSUME NEW i \in DOMAIN queue', Reg(i, q)',
             \A k \in DOMAIN queue' : k > i => ~Dereg(k, q)'
      PROVE  Lasting(q)
  <2>1. i+1 \in DOMAIN queue /\ Reg(i+1, q) /\ i \in Nat /\ i >= 1
    BY <1>1, <1>5 DEF Reg
  <2>2. ASSUME NEW k \in DOMAIN queue, k > i+1  PROVE ~Dereg(k, q)
    <3>1. k # 1 /\ k-1 > i
      BY <1>1, <2>1, <2>2
    <3> QED  BY <1>3, <1>5, <3>1
  <2> QED  BY <2>1, <2>2 DEF Lasting
<1> QED  BY <1>4, <1>5 DEF Lasting

(* Until it connects, a process that will connect does not turn away.      *)
LEMMA StillConnects ==
  ASSUME TypeOK, LocalInv, NEW q \in Pids, KumfInit(q), ~ConnectDaemon(q), Connects(proc[q])
  PROVE  Connects(proc'[q])
<1> DEFINE r == proc[q]
           s == proc'[q]
<1>1. r \in Processes /\ r.pc # "main" /\ r # NoProcess /\ Local(r)
  <2>1. r \in Processes /\ r.pc # "main"
    BY InitSteps
  <2>2. r.pc # "none"
    BY <2>1 DEF Processes
  <2> QED  BY <2>1, <2>2, RunningType DEF LocalInv
<1>2. /\ r.pc \in {"init", "rules", "affinity", "connect"} /\ Explicit(r.env) /\ r.env.daemon
      /\ r.pc \notin Asking
  BY <1>1 DEF Local, AtStage, Connects, Asking
<1>3. CASE CheckEnv(q)
  <2>1. s = [r EXCEPT !.pc = "rules"]
    BY <1>2, <1>3 DEF CheckEnv, Step, TypeOK
  <2> HIDE DEF r, s
  <2>2. s.pc = "rules" /\ s.env = r.env
    BY <1>1, <2>1 DEF Processes
  <2> QED  BY <1>2, <2>2 DEF Connects, s
<1>4. CASE LoadRules(q)
  <2>1. \E x : s = [r EXCEPT !.pc = "affinity", !.layer2 = x]
    BY <1>4 DEF LoadRules, Step, TypeOK
  <2> HIDE DEF r, s
  <2>2. s.pc = "affinity" /\ s.env = r.env
    BY <1>1, <2>1 DEF Processes
  <2> QED  BY <1>2, <2>2 DEF Connects, s
<1>5. CASE InitAffinity(q)
  <2>1. \E x, y : s \in {[r EXCEPT !.pc = "connect"],
                         [[r EXCEPT !.pc = "connect"] EXCEPT !.mode = x, !.bound = y]}
    BY <1>5 DEF InitAffinity, Step, TypeOK
  <2> HIDE DEF r, s
  <2>2. s.pc = "connect" /\ s.env = r.env
    BY <1>1, <2>1 DEF Processes
  <2> QED  BY <1>2, <2>2 DEF Connects, s
<1>6. CASE Access(q) \/ BindClient(q) \/ SendLookup(q) \/ Receive(q) \/ PollTimeout(q)
  <2>1. r.pc \in Asking
    BY <1>6 DEF Access, BindClient, SendLookup, Receive, PollTimeout, Step, Asking
  <2> QED  BY <1>2, <2>1
<1> QED  BY <1>3, <1>4, <1>5, <1>6 DEF KumfInit

(* exec keeps the pid's registration, and the new image connects again.    *)
LEMMA ExecConnects ==
  ASSUME TypeOK, LocalInv, NEW q \in Pids, NEW x \in Exes, Exec(q, x), Connects(proc[q])
  PROVE  proc'[q] # NoProcess /\ Connects(proc'[q])
<1>1. proc[q].pc = "main" /\ proc[q] \in Processes /\ Local(proc[q])
  BY RunningType DEF Exec, LocalInv
<1>2. proc'[q] = Image(x, proc[q].env) /\ proc[q].env \in Envs
  BY <1>1 DEF Exec, TypeOK, Processes
<1>3. Explicit(proc[q].env) /\ proc[q].env.daemon
  BY <1>1 DEF Connects, Local, AtStage, HasDecided, Decided
<1>4. proc'[q].pc = "init" /\ proc'[q].env = proc[q].env
  BY <1>2 DEF Image
<1> QED  BY <1>2, <1>3, <1>4, ImageLocal DEF Connects


(* What lasts of a pid is of a process that is connected or will be.       *)
LEMMA NextRegistryInv ==
  ASSUME TypeOK, LocalInv, RegistryInv, [Next]_vars
  PROVE  RegistryInv'
<1> DEFINE Kept(q) == Lasting(q)' => proc'[q] # NoProcess /\ Connects(proc'[q])
           Idle == ~daemon_up' => queue' = <<>> /\ registered' = {}
<1>0. ASSUME Idle, \A q \in Pids \ Silent' : Kept(q)  PROVE RegistryInv'
  <2>1. \A q \in Pids : Connects(proc[q])' = Connects(proc'[q])
    BY DEF Connects, Explicit
  <2> QED  BY <1>0, <2>1 DEF RegistryInv
<1>1. NoProcess.pc = "none"
  BY DEF NoProcess
<1>2. ASSUME NEW q \in Pids, q \notin Silent, Lasting(q)
      PROVE  proc[q] # NoProcess /\ Connects(proc[q])
  BY <1>2 DEF RegistryInv
<1>3. ASSUME UNCHANGED <<queue, registered>>, NEW q \in Pids
      PROVE  Lasting(q)' => Lasting(q)
  BY <1>3 DEF Lasting, Reg, Dereg
<1>4. ASSUME UNCHANGED daemon  PROVE Idle
  BY <1>4 DEF daemon, RegistryInv
<1>5. ASSUME NEW p \in Pids,
             \/ \E x \in Exes, e \in UserEnvs : StartProgram(p, x, e)
             \/ \E c \in Pids, x \in Exes : SpawnChild(p, c, x)
      PROVE  RegistryInv'
  <2>1. UNCHANGED daemon /\ Silent' = Silent /\ UNCHANGED <<queue, registered>>
    BY <1>5 DEF StartProgram, SpawnChild, history, daemon, Silent
  <2>2. \A q \in Pids : proc[q] = NoProcess \/ proc'[q] = proc[q]
    BY <1>5 DEF StartProgram, SpawnChild, TypeOK
  <2>3. \A q \in Pids \ Silent' : Kept(q)
    BY <1>2, <1>3, <2>1, <2>2
  <2> QED  BY <1>0, <1>4, <2>1, <2>3
<1>6. ASSUME NEW p \in Pids, NEW x \in Exes, Exec(p, x)  PROVE RegistryInv'
  <2>1. UNCHANGED daemon /\ Silent' = Silent /\ UNCHANGED <<queue, registered>>
    BY <1>6 DEF Exec, history, daemon, Silent
  <2>2. \A q \in Pids : q = p \/ proc'[q] = proc[q]
    BY <1>6 DEF Exec, TypeOK
  <2>3. \A q \in Pids \ Silent' : Kept(q)
    BY <1>2, <1>3, <1>6, <2>1, <2>2, ExecConnects
  <2> QED  BY <1>0, <1>4, <2>1, <2>3
<1>7. ASSUME NEW p \in Pids, Exit(p)  PROVE RegistryInv'
  <2>1. /\ proc[p].pc = "main" /\ registered' = registered
        /\ Silent \subseteq Silent' /\ daemon_up' = daemon_up
        /\ proc[p].conn /\ daemon_up /\ Full => p \in Silent'
        /\ \A q \in Pids : q = p \/ proc'[q] = proc[q]
        /\ IF proc[p].conn THEN Send(Message("DEREG", p, proc[p].exe)) ELSE UNCHANGED queue
    BY <1>7 DEF Exit, TypeOK, Silent
  <2>2. CASE proc[p].conn
    <3> DEFINE m == Message("DEREG", p, proc[p].exe)
    <3>1. Send(m) /\ m \in Messages /\ m.kind # "REG"
      BY <2>1, <2>2, RunningType, MessageType DEF Message
    <3>2. p \notin Silent' => ~Lasting(p)'
      BY <2>1, <2>2, DeregEnds
    <3> HIDE DEF m
    <3>3. \A q \in Pids : Lasting(q)' => Lasting(q)
      BY <2>1, <3>1, SendLasting
    <3>4. \A q \in Pids \ Silent' : Kept(q)
      BY <1>2, <2>1, <3>2, <3>3
    <3>5. Idle
      BY <2>1, <3>1, SendProperties DEF RegistryInv
    <3> QED  BY <1>0, <3>4, <3>5
  <2>3. CASE ~proc[p].conn
    <3>1. UNCHANGED <<queue, registered>> /\ Idle
      BY <2>1, <2>3 DEF RegistryInv
    <3>2. ~Connects(proc[p])
      BY <2>1, <2>3 DEF Connects
    <3>3. \A q \in Pids \ Silent' : Kept(q)
      BY <1>2, <1>3, <2>1, <3>1, <3>2
    <3> QED  BY <1>0, <3>1, <3>3
  <2> QED  BY <2>2, <2>3
<1>8. ASSUME NEW p \in Pids, Kill(p)  PROVE RegistryInv'
  <2>1. UNCHANGED daemon /\ UNCHANGED <<queue, registered>> /\ Silent' = Silent \cup {p}
        /\ \A q \in Pids : q = p \/ proc'[q] = proc[q]
    BY <1>8 DEF Kill, daemon, TypeOK, Silent
  <2>2. \A q \in Pids \ Silent' : Kept(q)
    BY <1>2, <1>3, <2>1
  <2> QED  BY <1>0, <1>4, <2>1, <2>2
<1>9. ASSUME NEW p \in Pids, KumfInit(p), ~ConnectDaemon(p)  PROVE RegistryInv'
  <2>1. \A q \in Pids : q = p \/ proc'[q] = proc[q]
    BY <1>9, InitSteps DEF TypeOK
  <2>2. Silent' = Silent /\ registered' = registered /\ daemon_up' = daemon_up
    BY <1>9 DEF KumfInit, CheckEnv, Access, BindClient, SendLookup, Receive, PollTimeout,
                LoadRules, InitAffinity, daemon, history, Silent
  <2>3. (\A q \in Pids : Lasting(q)' => Lasting(q)) /\ Idle
    <3>1. CASE SendLookup(p)
      <4> DEFINE m == Message("LOOKUP", p, proc[p].exe)
      <4>1. Send(m) /\ m \in Messages /\ m.kind # "REG"
        BY <3>1, RunningType, MessageType DEF Message, SendLookup, Step
      <4> HIDE DEF m
      <4> QED  BY <2>2, <4>1, SendLasting, SendProperties DEF RegistryInv
    <3>2. CASE ~SendLookup(p)
      <4>1. UNCHANGED daemon /\ UNCHANGED <<queue, registered>>
        BY <1>9, <3>2 DEF KumfInit, CheckEnv, Access, BindClient, Receive, PollTimeout,
                          LoadRules, InitAffinity, daemon
      <4> QED  BY <1>3, <1>4, <4>1
    <3> QED  BY <3>1, <3>2
  <2>4. proc'[p] \in Processes /\ proc'[p] # NoProcess
    BY <1>1, <1>9, InitSteps DEF Processes
  <2>5. \A q \in Pids \ Silent' : Kept(q)
    BY <1>2, <1>9, <2>1, <2>2, <2>3, <2>4, StillConnects
  <2> QED  BY <1>0, <2>3, <2>5
<1>10. ASSUME NEW p \in Pids, ConnectDaemon(p)  PROVE RegistryInv'
  <2> DEFINE r == proc[p]
             connects == r.env.daemon /\ daemon_up
  <2>1. /\ r.pc = "connect" /\ registered' = registered /\ Silent' = Silent
        /\ daemon_up' = daemon_up
        /\ \A q \in Pids : q = p \/ proc'[q] = proc[q]
        /\ proc'[p] = [r EXCEPT !.pc = "main", !.conn = connects]
        /\ IF connects THEN Send(Message("REG", p, r.exe)) ELSE UNCHANGED queue
    BY <1>10 DEF ConnectDaemon, Step, history, TypeOK, Silent
  <2>2. r \in Processes /\ r # NoProcess /\ Local(r)
    BY <2>1, RunningType DEF LocalInv
  <2>3. CASE connects
    <3> DEFINE m == Message("REG", p, r.exe)
    <3>1. Send(m) /\ m \in Messages /\ m.pid = p
      BY <2>1, <2>2, <2>3, MessageType DEF Message
    <3>2. proc'[p].conn /\ proc'[p] # NoProcess
      <4>1. proc'[p] = [r EXCEPT !.pc = "main", !.conn = TRUE]
        BY <2>1, <2>3
      <4> HIDE DEF r
      <4>2. proc'[p].conn = TRUE /\ proc'[p].pc = "main"
        BY <2>2, <4>1 DEF Processes
      <4> QED  BY <1>1, <4>2
    <3> HIDE DEF m
    <3>3. \A q \in Pids : q # p /\ Lasting(q)' => Lasting(q)
      BY <2>1, <3>1, SendLasting
    <3>4. \A q \in Pids \ Silent' : Kept(q)
      BY <1>2, <2>1, <3>2, <3>3 DEF Connects
    <3>5. Idle
      BY <2>1, <2>3
    <3> QED  BY <1>0, <3>4, <3>5
  <2>4. CASE ~connects
    <3>1. UNCHANGED <<queue, registered>> /\ Idle
      BY <2>1, <2>4 DEF RegistryInv
    <3>2. ~r.conn
      BY <2>1, <2>2 DEF Local, AtStage
    <3>3. p \notin Silent => ~Lasting(p)
      <4>1. CASE ~daemon_up
        BY <4>1 DEF RegistryInv, Lasting
      <4>2. CASE ~r.env.daemon
        BY <1>2, <3>2, <4>2 DEF Connects
      <4> QED  BY <2>4, <4>1, <4>2
    <3>4. \A q \in Pids \ Silent' : Kept(q)
      BY <1>2, <1>3, <2>1, <3>1, <3>3
    <3> QED  BY <1>0, <3>1, <3>4
  <2> QED  BY <2>3, <2>4
<1>11. CASE Serve
  <2>1. Silent' = Silent /\ proc' = proc /\ daemon_up /\ daemon_up' = daemon_up
    BY <1>11 DEF Serve, history, Silent
  <2>2. \A q \in Pids \ Silent' : Kept(q)
    BY <1>2, <1>11, <2>1, ServeLasting
  <2> QED  BY <1>0, <2>1, <2>2
<1>12. CASE DaemonStop
  <2>1. queue' = <<>> /\ registered' = {}
    BY <1>12 DEF DaemonStop
  <2>2. \A q \in Pids : ~Lasting(q)'
    BY <2>1 DEF Lasting
  <2> QED  BY <1>0, <2>1, <2>2
<1>13. CASE \/ DaemonStart \/ \E x \in Exes : WriteBaseline(x) \/ Analyse(x)
            \/ UnlinkLookup \/ LinkLookup \/ UNCHANGED vars
  <2>1. /\ UNCHANGED <<queue, registered>> /\ Silent' = Silent /\ proc' = proc
        /\ UNCHANGED daemon \/ daemon_up' = TRUE
    BY <1>13 DEF DaemonStart, WriteBaseline, Analyse, UnlinkLookup, LinkLookup, vars, daemon, history,
                 Silent
  <2>2. \A q \in Pids \ Silent' : Kept(q)
    BY <1>2, <1>3, <2>1
  <2> QED  BY <1>0, <1>4, <2>1, <2>2
<1> QED  BY <1>5, <1>6, <1>7, <1>8, <1>9, <1>10, <1>11, <1>12, <1>13 DEF Next, KumfInit

-----------------------------------------------------------------------------
(* The theorems *)

LEMMA InitInv == Init => Inv
<1> SUFFICES ASSUME Init  PROVE Inv
  OBVIOUS
<1>1. TypeOK
  <2>1. Profiled \subseteq Exes /\ RuleProfiles \subseteq Profiled /\ 0 \in 0..MaxStarts
        /\ 0 \in 0..MaxExecs
    BY InitAssumption
  <2>2. inbox \in [Pids -> Seq(Answers)]
    BY DEF Init
  <2> QED  BY <2>1, <2>2 DEF Init, TypeOK, Profilers
<1>2. NoProcess.pc = "none"
  BY DEF NoProcess
<1>3. LocalInv /\ PathInv /\ RegistryInv
  BY DEF Init, LocalInv, PathInv, RegistryInv, Lasting
<1>4. AnswerInv
  BY <1>2 DEF Init, AnswerInv, Answered, Decided
<1> QED  BY <1>1, <1>3, <1>4 DEF Inv

LEMMA NextInv == Inv /\ [Next]_vars => Inv'
BY NextTypeOK, NextLocalInv, NextPathInv, NextAnswerInv, NextRegistryInv DEF Inv

LEMMA InvHolds == Spec => []Inv
<1>1. Init => Inv
  BY InitInv
<1>2. Inv /\ [Next]_vars => Inv'
  BY NextInv
<1> QED  BY <1>1, <1>2, PTL DEF Spec

(* Every variable of the session keeps its type: what the daemon reads is  *)
(* always a message of a process, what a process reads always names an     *)
(* executable that was profiled.                                           *)
THEOREM TypeCorrect == Spec => []TypeOK
<1>1. Inv => TypeOK
  BY DEF Inv
<1> QED  BY <1>1, InvHolds, PTL

(* A process that found no KUMF variable is passive or has its own         *)
(* executable's configuration, however pids are reused and the daemon      *)
(* comes and goes (query_daemon_for_config, handle_lookup).                *)
THEOREM OwnAnswers == Spec => []OwnConfigOrPassive
<1>1. Inv => OwnConfigOrPassive
  BY DEF Inv, AnswerInv, OwnConfigOrPassive, Answered, Decided, Started, Alive
<1> QED  BY <1>1, InvHolds, PTL

(* A passive process loaded no rule, is bound to nothing, is not           *)
(* registered, and its children find the environment it found              *)
(* (kumf_init's early return).                                             *)
THEOREM PassiveIsInert == Spec => []PassiveInert
<1>1. Inv => PassiveInert
  <2> SUFFICES ASSUME Inv, NEW p \in Started, proc[p].mode = "PASSIVE"
               PROVE  /\ ~proc[p].layer2 /\ proc[p].bound = "none" /\ ~proc[p].conn
                      /\ proc[p].env = proc[p].start
    BY DEF PassiveInert
  <2>1. Local(proc[p]) /\ proc[p].pc = "main"
    BY DEF Inv, LocalInv, Started, Alive
  <2> QED  BY <2>1 DEF Local, AtStage, HasDecided, Decided
<1> QED  BY <1>1, InvHolds, PTL

(* A configured process is never passive, keeps its variables and runs in  *)
(* the mode they name (kumf_init, init_affinity).                          *)
THEOREM UserDecides == Spec => []ExplicitEnvWins
<1>1. Inv => ExplicitEnvWins
  <2> SUFFICES ASSUME Inv, NEW p \in Started, Explicit(proc[p].start)
               PROVE  proc[p].mode # "PASSIVE" /\ proc[p].env = proc[p].start /\ NamedMode(proc[p])
    BY DEF ExplicitEnvWins, NamedMode
  <2>1. Local(proc[p]) /\ proc[p].pc = "main"
    BY DEF Inv, LocalInv, Started, Alive
  <2> QED  BY <2>1 DEF Local, AtStage, HasDecided, Decided
<1> QED  BY <1>1, InvHolds, PTL

(* The daemon has no registration of a pid nobody uses, unless the DEREG   *)
(* is on its way, its process was killed, or the queue was full when the   *)
(* process ended (disconnect_daemon, the daemon's REG and DEREG).          *)
THEOREM RegistryKept == Spec => []RegistryCurrent
<1>1. Inv => RegistryCurrent
  <2> SUFFICES ASSUME Inv, NEW p \in registered, proc[p] = NoProcess, p \notin killed,
                      p \notin dropped
               PROVE  \E i \in DOMAIN queue : Dereg(i, p)
    BY DEF RegistryCurrent, Dereg
  <2>1. p \in Pids
    BY DEF Inv, TypeOK
  <2> QED  BY <2>1 DEF Inv, RegistryInv, Lasting, Silent
<1> QED  BY <1>1, InvHolds, PTL

-----------------------------------------------------------------------------
(* Least numbers and least sets. *)

LEMMA LeastNatural ==
  ASSUME NEW T \in SUBSET Nat, T # {}
  PROVE  \E m \in T : \A n \in T : m <= n
<1>1. \E m \in T : \A n \in T : <<n, m>> \notin WF!OpToRel(<, Nat)
  BY WF!NatLessThanWellFounded, WF!WFMin
<1>2. \A m, n \in Nat : <<n, m>> \in WF!OpToRel(<, Nat) <=> n < m
  BY DEF WF!OpToRel
<1>3. \E m \in T : \A n \in T : ~(n < m)
  BY <1>1, <1>2, Zenon
<1> QED  BY <1>3

LEMMA SmallestSet ==
  ASSUME NEW C, C # {}, \A S \in C : IsFiniteSet(S)
  PROVE  \E S \in C : \A T \in C : Cardinality(S) <= Cardinality(T)
<1> DEFINE N == {Cardinality(S) : S \in C}
<1>1. N \in SUBSET Nat /\ N # {}
  BY FS_CardinalityType
<1>2. PICK m \in N : \A n \in N : m <= n
  BY <1>1, LeastNatural
<1> QED  BY <1>2

-----------------------------------------------------------------------------
(* Sums over finite sets do not depend on the order.                       *)

Pick(s) == CHOOSE x \in s : TRUE

IsSum(g, f, S) ==
  g = [s \in SUBSET S |-> IF s = {} THEN 0 ELSE f[Pick(s)] + g[s \ {Pick(s)}]]

LEMMA SumIs ==
  ASSUME NEW f, NEW S
  PROVE  Sum(f, S) = (CHOOSE g : IsSum(g, f, S))[S]
BY DEF Sum, MapThenSumSet, MapThenFoldSet, IsSum, Pick

LEMMA SumExists ==
  ASSUME NEW S, IsFiniteSet(S), NEW f
  PROVE  \E g : IsSum(g, f, S)
<1> DEFINE Small(n) == {s \in SUBSET S : Cardinality(s) <= n}
           Is(g, n) == g = [s \in Small(n) |-> IF s = {} THEN 0 ELSE f[Pick(s)] + g[s \ {Pick(s)}]]
           Bad == {n \in Nat : ~\E g : Is(g, n)}
<1>1. \A s \in SUBSET S : IsFiniteSet(s) /\ Cardinality(s) \in Nat /\ Cardinality(s) <= Cardinality(S)
  BY FS_Subset, FS_CardinalityType
<1>2. \A s \in SUBSET S : s # {} => /\ Pick(s) \in s /\ s \ {Pick(s)} \in SUBSET S
                                     /\ Cardinality(s \ {Pick(s)}) = Cardinality(s) - 1
                                     /\ Cardinality(s) # 0
  BY <1>1, FS_RemoveElement, FS_EmptySet DEF Pick
<1>3. Bad = {}
  <2>1. SUFFICES ASSUME Bad # {}  PROVE FALSE
    OBVIOUS
  <2>2. PICK n \in Bad : \A m \in Bad : n <= m
    BY <2>1, LeastNatural
  <2>3. CASE n = 0
    <3>1. Small(0) = {{}}
      BY <1>1, FS_EmptySet
    <3>2. Is([s \in Small(0) |-> 0], 0)
      BY <3>1
    <3> QED  BY <3>2, <2>3, <2>2
  <2>4. CASE n # 0
    <3>0. n \in Nat
      BY <2>2
    <3>1. n - 1 \in Nat /\ n - 1 \notin Bad
      <4> HIDE DEF Bad
      <4> QED  BY <2>2, <2>4, <3>0
    <3>2. PICK h : Is(h, n - 1)
      BY <3>1
    <3> DEFINE g == [s \in Small(n) |-> IF s = {} THEN 0 ELSE f[Pick(s)] + h[s \ {Pick(s)}]]
    <3> HIDE DEF Bad
    <3>3. \A u \in Small(n - 1) : u \in Small(n) /\ g[u] = h[u]
      <4> TAKE u \in Small(n - 1)
      <4>1. u \in Small(n)
        <5>1. u \in SUBSET S /\ Cardinality(u) \in Nat /\ Cardinality(u) <= n - 1
          BY <1>1
        <5>2. Cardinality(u) <= n
          BY <5>1, <3>0
        <5> QED  BY <5>1, <5>2
      <4>2. h[u] = IF u = {} THEN 0 ELSE f[Pick(u)] + h[u \ {Pick(u)}]
        BY <3>2
      <4> QED  BY <4>1, <4>2
    <3>4. \A s \in Small(n) : s # {} => s \ {Pick(s)} \in Small(n - 1)
      <4> TAKE s \in Small(n)
      <4> HAVE s # {}
      <4>1. s \in SUBSET S /\ Cardinality(s) <= n /\ Cardinality(s) \in Nat
        BY <1>1
      <4>2. s \ {Pick(s)} \in SUBSET S /\ Cardinality(s \ {Pick(s)}) <= n - 1
        BY <1>2, <4>1, <3>0
      <4> QED  BY <4>2
    <3>5. Is(g, n)
      BY <3>3, <3>4
    <3> QED  BY <3>5, <2>2 DEF Bad
  <2> QED  BY <2>3, <2>4
<1>4. Cardinality(S) \in Nat /\ Small(Cardinality(S)) = SUBSET S
  BY <1>1
<1>5. PICK g : Is(g, Cardinality(S))
  BY <1>3, <1>4
<1>6. IsSum(g, f, S)
  BY <1>4, <1>5 DEF IsSum
<1> QED  BY <1>6

(* Two of them agree on what they have in common. *)
LEMMA SumsAgree ==
  ASSUME NEW S, IsFiniteSet(S), NEW T, IsFiniteSet(T), NEW f, NEW e, NEW g, NEW h,
         IsSum(g, f, S), IsSum(h, e, T),
         NEW s \in SUBSET S, s \subseteq T, \A x \in s : f[x] = e[x]
  PROVE  g[s] = h[s]
<1> DEFINE C == {u \in SUBSET s : g[u] # h[u]}
<1>1. SUFFICES ASSUME C # {}  PROVE FALSE
  OBVIOUS
<1>2. \A u \in SUBSET s : IsFiniteSet(u) /\ Cardinality(u) \in Nat
  BY FS_Subset, FS_CardinalityType
<1>3. PICK u \in C : \A v \in C : Cardinality(u) <= Cardinality(v)
  BY <1>1, <1>2, SmallestSet
<1>4. u # {}
  BY <1>3 DEF IsSum
<1>5. Pick(u) \in u
  BY <1>4 DEF Pick
<1>6. Cardinality(u \ {Pick(u)}) = Cardinality(u) - 1
  BY <1>2, <1>5, FS_RemoveElement
<1>7. u \ {Pick(u)} \notin C
  BY <1>2, <1>3, <1>6
<1>8. g[u] = f[Pick(u)] + g[u \ {Pick(u)}] /\ h[u] = e[Pick(u)] + h[u \ {Pick(u)}]
  BY <1>4 DEF IsSum
<1> QED  BY <1>3, <1>5, <1>7, <1>8

LEMMA SumIsOf ==
  ASSUME NEW S, IsFiniteSet(S), NEW f, NEW g, IsSum(g, f, S), NEW s \in SUBSET S
  PROVE  Sum(f, s) = g[s]
<1>1. IsFiniteSet(s)
  BY FS_Subset
<1>2. IsSum(CHOOSE h : IsSum(h, f, s), f, s)
  BY <1>1, SumExists
<1> QED  BY <1>1, <1>2, SumIs, SumsAgree

LEMMA SumEmpty ==
  ASSUME NEW f
  PROVE  Sum(f, {}) = 0
<1>1. IsSum(CHOOSE h : IsSum(h, f, {}), f, {})
  BY SumExists, FS_EmptySet
<1> QED  BY <1>1, SumIs DEF IsSum

LEMMA SumCongruence ==
  ASSUME NEW S, IsFiniteSet(S), NEW f, NEW e, \A x \in S : f[x] = e[x]
  PROVE  Sum(f, S) = Sum(e, S)
<1>1. /\ IsSum(CHOOSE h : IsSum(h, f, S), f, S)
      /\ IsSum(CHOOSE h : IsSum(h, e, S), e, S)
  BY SumExists
<1> QED  BY <1>1, SumIs, SumsAgree

LEMMA SumPick ==
  ASSUME NEW S, IsFiniteSet(S), S # {}, NEW f
  PROVE  Sum(f, S) = f[Pick(S)] + Sum(f, S \ {Pick(S)})
<1>1. PICK g : IsSum(g, f, S)
  BY SumExists
<1>2. Sum(f, S) = g[S] /\ Sum(f, S \ {Pick(S)}) = g[S \ {Pick(S)}]
  BY <1>1, SumIsOf
<1> QED  BY <1>1, <1>2 DEF IsSum

LEMMA SumInt ==
  ASSUME NEW S, IsFiniteSet(S), NEW f, \A x \in S : f[x] \in Int
  PROVE  Sum(f, S) \in Int
<1> DEFINE C == {s \in SUBSET S : Sum(f, s) \notin Int}
<1>1. SUFFICES ASSUME C # {}  PROVE FALSE
  OBVIOUS
<1>2. \A u \in SUBSET S : IsFiniteSet(u) /\ Cardinality(u) \in Nat
  BY FS_Subset, FS_CardinalityType
<1>3. PICK u \in C : \A v \in C : Cardinality(u) <= Cardinality(v)
  BY <1>1, <1>2, SmallestSet
<1>4. u # {} /\ Pick(u) \in u
  BY <1>3, SumEmpty DEF Pick
<1>5. Cardinality(u \ {Pick(u)}) = Cardinality(u) - 1
  BY <1>2, <1>4, FS_RemoveElement
<1>6. u \ {Pick(u)} \notin C
  BY <1>2, <1>3, <1>5
<1>7. Sum(f, u) = f[Pick(u)] + Sum(f, u \ {Pick(u)})
  BY <1>2, <1>4, SumPick
<1> QED  BY <1>3, <1>4, <1>6, <1>7

LEMMA SumRemove ==
  ASSUME NEW S, IsFiniteSet(S), NEW f, \A x \in S : f[x] \in Int, NEW x \in S
  PROVE  Sum(f, S) = f[x] + Sum(f, S \ {x})
<1> DEFINE C == {s \in SUBSET S : \E y \in s : Sum(f, s) # f[y] + Sum(f, s \ {y})}
<1>1. SUFFICES ASSUME C # {}  PROVE FALSE
  OBVIOUS
<1>2. \A u \in SUBSET S : IsFiniteSet(u) /\ Cardinality(u) \in Nat
  BY FS_Subset, FS_CardinalityType
<1>3. PICK u \in C : \A v \in C : Cardinality(u) <= Cardinality(v)
  BY <1>1, <1>2, SmallestSet
<1>4. PICK y \in u : Sum(f, u) # f[y] + Sum(f, u \ {y})
  BY <1>3
<1>a. u \in SUBSET S
  BY <1>3
<1> DEFINE c == Pick(u)
<1>5. c \in u /\ u # {}
  BY <1>4 DEF Pick
<1>6. Sum(f, u) = f[c] + Sum(f, u \ {c})
  BY <1>2, <1>5, SumPick
<1>7. c # y
  BY <1>4, <1>6
<1>8. /\ Cardinality(u \ {c}) = Cardinality(u) - 1 /\ Cardinality(u \ {y}) = Cardinality(u) - 1
      /\ u \ {c} \in SUBSET S /\ u \ {y} \in SUBSET S
  BY <1>2, <1>4, <1>5, FS_RemoveElement
<1>9. u \ {c} \notin C /\ u \ {y} \notin C
  <2> HIDE DEF c, C
  <2>1. Cardinality(u) \in Nat
    BY <1>2, <1>8, <1>a
  <2> QED  BY <1>3, <1>8, <2>1
<1> HIDE DEF c
<1>10. /\ Sum(f, u \ {c}) = f[y] + Sum(f, (u \ {c}) \ {y})
       /\ Sum(f, u \ {y}) = f[c] + Sum(f, (u \ {y}) \ {c})
  BY <1>4, <1>5, <1>7, <1>8, <1>9
<1>11. (u \ {c}) \ {y} = (u \ {y}) \ {c} /\ (u \ {c}) \ {y} \in SUBSET S
  BY <1>8
<1>12. f[c] \in Int /\ f[y] \in Int /\ Sum(f, (u \ {c}) \ {y}) \in Int
  BY <1>2, <1>4, <1>5, <1>11, SumInt
<1>13. Sum(f, u) = f[c] + (f[y] + Sum(f, (u \ {c}) \ {y}))
  BY <1>6, <1>10
<1>14. Sum(f, u \ {y}) = f[c] + Sum(f, (u \ {c}) \ {y})
  BY <1>10, <1>11
<1> QED  BY <1>4, <1>12, <1>13, <1>14

LEMMA SumSplit ==
  ASSUME NEW S, IsFiniteSet(S), NEW f, \A x \in S : f[x] \in Int, NEW T \in SUBSET S
  PROVE  Sum(f, S) = Sum(f, T) + Sum(f, S \ T)
<1> DEFINE C == {U \in SUBSET S : Sum(f, S) # Sum(f, U) + Sum(f, S \ U)}
<1>1. SUFFICES ASSUME C # {}  PROVE FALSE
  OBVIOUS
<1>2. \A U \in SUBSET S : IsFiniteSet(U) /\ Cardinality(U) \in Nat /\ Sum(f, U) \in Int
  BY FS_Subset, FS_CardinalityType, SumInt
<1>3. PICK U \in C : \A V \in C : Cardinality(U) <= Cardinality(V)
  BY <1>1, <1>2, SmallestSet
<1>4. U # {}
  <2>1. U = {} => S \ U = S /\ Sum(f, U) = 0 /\ Sum(f, S) \in Int
    BY <1>2, SumEmpty
  <2> QED  BY <1>3, <2>1
<1>5. PICK x \in U : TRUE
  BY <1>4
<1> DEFINE V == U \ {x}
<1>6. Cardinality(V) = Cardinality(U) - 1 /\ V \in SUBSET S
  BY <1>2, <1>5, FS_RemoveElement
<1>7. Sum(f, S) = Sum(f, V) + Sum(f, S \ V)
  BY <1>2, <1>3, <1>6
<1>8. Sum(f, U) = f[x] + Sum(f, V)
  BY <1>2, <1>5, SumRemove
<1>9. (S \ V) \ {x} = S \ U /\ x \in S \ V
  BY <1>5
<1>10. Sum(f, S \ V) = f[x] + Sum(f, S \ U)
  BY <1>2, <1>9, SumRemove
<1>11. f[x] \in Int /\ Sum(f, V) \in Int /\ Sum(f, S \ U) \in Int
  BY <1>2, <1>5, <1>6
<1> HIDE DEF V
<1> QED  BY <1>3, <1>7, <1>8, <1>10, <1>11

LEMMA SumNat ==
  ASSUME NEW S, IsFiniteSet(S), NEW f, \A x \in S : f[x] \in Nat
  PROVE  Sum(f, S) \in Nat
<1> DEFINE C == {s \in SUBSET S : Sum(f, s) \notin Nat}
<1>1. SUFFICES ASSUME C # {}  PROVE FALSE
  OBVIOUS
<1>2. \A u \in SUBSET S : IsFiniteSet(u) /\ Cardinality(u) \in Nat
  BY FS_Subset, FS_CardinalityType
<1>3. PICK u \in C : \A v \in C : Cardinality(u) <= Cardinality(v)
  BY <1>1, <1>2, SmallestSet
<1>4. u # {} /\ Pick(u) \in u
  BY <1>3, SumEmpty DEF Pick
<1>5. Cardinality(u \ {Pick(u)}) = Cardinality(u) - 1
  BY <1>2, <1>4, FS_RemoveElement
<1>6. u \ {Pick(u)} \notin C
  BY <1>2, <1>3, <1>5
<1>7. Sum(f, u) = f[Pick(u)] + Sum(f, u \ {Pick(u)})
  BY <1>2, <1>4, SumPick
<1> QED  BY <1>3, <1>4, <1>6, <1>7

LEMMA SumMonotone ==
  ASSUME NEW S, IsFiniteSet(S), NEW f, \A x \in S : f[x] \in Nat, NEW T \in SUBSET S
  PROVE  Sum(f, T) <= Sum(f, S)
<1>1. IsFiniteSet(T) /\ IsFiniteSet(S \ T)
  BY FS_Subset
<1>2. Sum(f, T) \in Nat /\ Sum(f, S \ T) \in Nat
  BY <1>1, SumNat
<1>3. Sum(f, S) = Sum(f, T) + Sum(f, S \ T)
  BY SumSplit
<1> QED  BY <1>2, <1>3

LEMMA SumConstant ==
  ASSUME NEW S, IsFiniteSet(S), NEW f, \A x \in S : f[x] = 1
  PROVE  Sum(f, S) = Cardinality(S)
<1> DEFINE C == {s \in SUBSET S : Sum(f, s) # Cardinality(s)}
<1>1. SUFFICES ASSUME C # {}  PROVE FALSE
  OBVIOUS
<1>2. \A u \in SUBSET S : IsFiniteSet(u) /\ Cardinality(u) \in Nat
  BY FS_Subset, FS_CardinalityType
<1>3. PICK u \in C : \A v \in C : Cardinality(u) <= Cardinality(v)
  BY <1>1, <1>2, SmallestSet
<1>4. u # {} /\ Pick(u) \in u
  BY <1>3, SumEmpty, FS_EmptySet DEF Pick
<1>5. Cardinality(u \ {Pick(u)}) = Cardinality(u) - 1
  BY <1>2, <1>4, FS_RemoveElement
<1>6. u \ {Pick(u)} \notin C
  BY <1>2, <1>3, <1>5
<1>7. Sum(f, u) = f[Pick(u)] + Sum(f, u \ {Pick(u)})
  BY <1>2, <1>4, SumPick
<1> QED  BY <1>2, <1>3, <1>4, <1>5, <1>6, <1>7

-----------------------------------------------------------------------------
(* Sorting *)

LEMMA Sorted ==
  ASSUME NEW S \in SUBSET Int, IsFiniteSet(S)
  PROVE  /\ InOrder(S) \in Seq(S) /\ Len(InOrder(S)) = Cardinality(S)
         /\ DOMAIN InOrder(S) = 1..Cardinality(S)
         /\ \A k \in 1..Cardinality(S) : InOrder(S)[k] \in S
         /\ \A j, k \in 1..Cardinality(S) : j < k => InOrder(S)[j] < InOrder(S)[k]
         /\ \A x \in S : \E k \in 1..Cardinality(S) : InOrder(S)[k] = x
<1> DEFINE n == Cardinality(S)
           below(x) == {y \in S : y < x}
           rank == [x \in S |-> Cardinality(below(x))]
           T == 0..n - 1
<1>1. n \in Nat
  BY FS_CardinalityType
<1>2. \A x \in Int : IsFiniteSet(below(x)) /\ Cardinality(below(x)) \in Nat
  BY FS_Subset, FS_CardinalityType
<1>3. ASSUME NEW x \in S  PROVE rank[x] \in T
  <2>1. below(x) \in SUBSET S /\ x \notin below(x) /\ x \in Int
    OBVIOUS
  <2>2. below(x) # S
    BY <2>1
  <2>3. Cardinality(below(x)) <= n /\ Cardinality(below(x)) # n
    BY <2>1, <2>2, FS_Subset, Zenon
  <2>4. Cardinality(below(x)) \in Nat
    BY <1>2, <2>1
  <2>5. Cardinality(below(x)) \in 0..n - 1
    <3> HIDE DEF below, n
    <3> QED  BY <1>1, <2>3, <2>4
  <2> QED  BY <2>5
<1>4. ASSUME NEW x \in S, NEW y \in S, x < y  PROVE rank[x] < rank[y]
  <2>1. x \in Int /\ y \in Int
    OBVIOUS
  <2>2. below(x) \in SUBSET below(y)
    <3>1. \A z \in S : z \in Int
      OBVIOUS
    <3>2. \A z \in S : z < x => z < y
      BY <1>4, <2>1, <3>1
    <3> QED  BY <3>2
  <2>5. x \in below(y) /\ x \notin below(x)
    BY <1>4, <2>1
  <2>3. below(x) # below(y)
    BY <2>5
  <2>4. /\ Cardinality(below(x)) <= Cardinality(below(y))
        /\ Cardinality(below(x)) # Cardinality(below(y))
    BY <1>2, <2>1, <2>2, <2>3, FS_Subset
  <2> QED  BY <1>2, <2>1, <2>4
<1>5. rank \in Injection(S, T)
  <2>1. \A x, y \in S : x # y => x < y \/ y < x
    OBVIOUS
  <2>2. \A x, y \in S : x # y => rank[x] # rank[y]
    <3> HIDE DEF rank, n
    <3>1. \A x \in S : rank[x] \in Int
      BY <1>1, <1>3
    <3> QED  BY <1>4, <2>1, <3>1
  <2> HIDE DEF T
  <2> QED  BY <1>3, <2>2 DEF Injection, IsInjective
<1>6. IsFiniteSet(T) /\ Cardinality(T) = n
  BY <1>1, FS_Interval
<1>7. rank \in Surjection(S, T)
  BY <1>5, <1>6, FS_Injection
<1>8. \A k \in 1..n : \E x \in S : rank[x] = k - 1
  <2>1. \A k \in 1..n : k - 1 \in T
    BY <1>1
  <2> QED  BY <1>7, <2>1 DEF Surjection
<1>9. InOrder(S) = [k \in 1..n |-> CHOOSE x \in S : Cardinality(below(x)) = k - 1]
  BY DEF InOrder
<1>10. \A k \in 1..n : InOrder(S)[k] \in S /\ rank[InOrder(S)[k]] = k - 1
  <2>1. \A k \in 1..n : \E x \in S : Cardinality(below(x)) = k - 1
    BY <1>8
  <2>2. \A k \in 1..n : InOrder(S)[k] \in S /\ Cardinality(below(InOrder(S)[k])) = k - 1
    <3> HIDE DEF below, n, rank
    <3> QED  BY <1>9, <2>1
  <2> QED  BY <2>2
<1> HIDE DEF n, rank, T
<1>11. InOrder(S) \in Seq(S) /\ Len(InOrder(S)) = n /\ DOMAIN InOrder(S) = 1..n
  <2>1. DOMAIN InOrder(S) = 1..n
    BY <1>9
  <2>2. InOrder(S) = [k \in 1..n |-> InOrder(S)[k]]
    BY <1>9
  <2>3. InOrder(S) \in [1..n -> S]
    BY <1>10, <2>2
  <2> QED  BY <1>1, <2>1, <2>3
<1>12. ASSUME NEW j \in 1..n, NEW k \in 1..n, j < k  PROVE InOrder(S)[j] < InOrder(S)[k]
  <2> DEFINE a == InOrder(S)[j]  b == InOrder(S)[k]
  <2>1. a \in S /\ b \in S /\ rank[a] = j - 1 /\ rank[b] = k - 1
    BY <1>10
  <2> HIDE DEF a, b
  <2>2. a \in Int /\ b \in Int /\ j \in Int /\ k \in Int
    BY <1>1, <2>1
  <2>3. a # b /\ ~(b < a)
    BY <1>4, <1>12, <2>1, <2>2
  <2>4. a < b
    BY <2>2, <2>3
  <2> QED  BY <2>4 DEF a, b
<1>13. ASSUME NEW x \in S  PROVE \E k \in 1..n : InOrder(S)[k] = x
  <2>1. rank[x] + 1 \in 1..n /\ (rank[x] + 1) - 1 = rank[x]
    BY <1>1, <1>3 DEF T
  <2>2. rank[InOrder(S)[rank[x] + 1]] = rank[x] /\ InOrder(S)[rank[x] + 1] \in S
    BY <1>10, <2>1
  <2>3. InOrder(S)[rank[x] + 1] = x
    BY <1>5, <2>2 DEF Injection, IsInjective
  <2> QED  BY <2>1, <2>3
<1>14. n = Cardinality(S)
  BY DEF n
<1> QED  BY <1>10, <1>11, <1>12, <1>13, <1>14

-----------------------------------------------------------------------------
(* The best pages *)

RowOK(r) == r.page \in Nat /\ r.n \in Nat \ {0} /\ r.pac \in Nat

LEMMA SumOfRows ==
  ASSUME NEW rows, NEW N \in Nat, DOMAIN rows = 1..N, \A k \in 1..N : rows[k].n \in Nat \ {0}
  PROVE  /\ \A K \in SUBSET (1..N) : AccessesAt(rows, K) \in Nat
         /\ \A K \in SUBSET (1..N) : \A L \in SUBSET K : AccessesAt(rows, L) <= AccessesAt(rows, K)
         /\ Accesses(rows) = AccessesAt(rows, 1..N)
         /\ N # 0 => Accesses(rows) > 0
<1> DEFINE f == [k \in 1..N |-> rows[k].n]
<1>1. \A K \in SUBSET (1..N) : IsFiniteSet(K)
  <2> HIDE DEF f
  <2>1. N \in Int /\ 1 \in Int
    OBVIOUS
  <2>2. IsFiniteSet(1..N)
    BY <2>1, FS_Interval
  <2> QED  BY <2>2, FS_Subset
<1>2. \A k \in 1..N : f[k] \in Nat
  OBVIOUS
<1>3. \A K \in SUBSET (1..N) : AccessesAt(rows, K) = Sum(f, K)
  <2> TAKE K \in SUBSET (1..N)
  <2>1. \A k \in K : [i \in K |-> rows[i].n][k] = f[k]
    OBVIOUS
  <2> QED  BY <1>1, <2>1, SumCongruence DEF AccessesAt
<1> HIDE DEF f
<1>4. \A K \in SUBSET (1..N) : Sum(f, K) \in Nat
  BY <1>1, <1>2, SumNat
<1>5. \A K \in SUBSET (1..N) : \A L \in SUBSET K : Sum(f, L) <= Sum(f, K)
  BY <1>1, <1>2, SumMonotone
<1>6. N # 0 => Sum(f, 1..N) > 0
  <2> HAVE N # 0
  <2>1. 1 \in 1..N /\ f[1] \in Nat \ {0}
    BY DEF f
  <2>2. IsFiniteSet(1..N) /\ \A x \in 1..N : f[x] \in Int
    BY <1>1, <1>2
  <2>3. Sum(f, 1..N) = f[1] + Sum(f, (1..N) \ {1})
    BY <2>1, <2>2, SumRemove
  <2>4. Sum(f, (1..N) \ {1}) \in Nat
    BY <1>4
  <2> QED  BY <2>1, <2>3, <2>4
<1>7. Accesses(rows) = AccessesAt(rows, 1..N)
  BY DEF Accesses
<1> QED  BY <1>3, <1>4, <1>5, <1>6, <1>7

(* The place at which the best rows have percent of the accesses. *)
LEMMA Percents ==
  ASSUME NEW n \in Nat, NEW percent \in 1..100
  PROVE  percent * n \in Int /\ 100 * n >= percent * n /\ (n > 0 => percent * n > 0)
OBVIOUS

LEMMA PlaceIs ==
  ASSUME NEW rows, NEW N \in Nat \ {0}, DOMAIN rows = 1..N,
         \A k \in 1..N : rows[k].n \in Nat \ {0}, NEW percent \in 1..100
  PROVE  /\ Place(rows, percent) \in 1..N
         /\ 100 * AccessesAt(rows, 1..Place(rows, percent)) >= percent * Accesses(rows)
         /\ \A K \in SUBSET (1..Place(rows, percent) - 1) :
              100 * AccessesAt(rows, K) < percent * Accesses(rows)
<1> DEFINE R == {k \in 1..N : 100 * AccessesAt(rows, 1..k) >= percent * Accesses(rows)}
<1>0. /\ \A K \in SUBSET (1..N) : AccessesAt(rows, K) \in Nat
      /\ \A K \in SUBSET (1..N) : \A L \in SUBSET K : AccessesAt(rows, L) <= AccessesAt(rows, K)
      /\ Accesses(rows) = AccessesAt(rows, 1..N)
      /\ Accesses(rows) > 0
  BY SumOfRows
<1>a. Accesses(rows) \in Nat /\ 1..N \in SUBSET (1..N)
  BY <1>0
<1>b. /\ percent * Accesses(rows) \in Int
      /\ 100 * Accesses(rows) >= percent * Accesses(rows)
      /\ percent * Accesses(rows) > 0
  <2> DEFINE n == Accesses(rows)
  <2>1. n \in Nat /\ n > 0
    BY <1>0, <1>a
  <2> HIDE DEF n
  <2>2. percent * n \in Int /\ 100 * n >= percent * n /\ percent * n > 0
    BY <2>1, Percents
  <2> QED  BY <2>2 DEF n
<1>1. N \in R
  <2>1. 100 * Accesses(rows) >= percent * Accesses(rows)
    BY <1>b
  <2> QED  BY <1>0, <2>1
<1>2. R \in SUBSET Nat /\ R # {}
  BY <1>1
<1>3. PICK m \in R : \A k \in R : m <= k
  BY <1>2, LeastNatural
<1>4. Place(rows, percent) = m
  <2>1. Place(rows, percent) = Min(R)
    BY DEF Place
  <2>2. \A k \in R : k \in Nat
    BY <1>2
  <2> HIDE DEF R
  <2> QED  BY <1>3, <2>1, <2>2 DEF Min
<1>5. ASSUME NEW K \in SUBSET (1..m - 1)  PROVE 100 * AccessesAt(rows, K) < percent * Accesses(rows)
  <2>1. CASE m = 1
    <3>1. K = {}
      BY <2>1
    <3>2. AccessesAt(rows, K) = 0
      BY <3>1, SumEmpty DEF AccessesAt
    <3>3. percent * Accesses(rows) > 0
      BY <1>b
    <3> QED  BY <3>2, <3>3
  <2>2. CASE m # 1
    <3>1. m - 1 \in 1..N /\ m - 1 \notin R
      BY <1>3, <2>2
    <3>2. 100 * AccessesAt(rows, 1..m - 1) < percent * Accesses(rows)
      <4>1. ~(100 * AccessesAt(rows, 1..m - 1) >= percent * Accesses(rows))
        BY <3>1
      <4>2. 1..m - 1 \in SUBSET (1..N)
        BY <3>1
      <4>3. AccessesAt(rows, 1..m - 1) \in Nat
        BY <1>0, <4>2
      <4>4. percent * Accesses(rows) \in Int
        BY <1>b
      <4> DEFINE x == AccessesAt(rows, 1..m - 1)  y == percent * Accesses(rows)
      <4>5. ~(100 * x >= y) /\ x \in Nat /\ y \in Int
        BY <4>1, <4>3, <4>4
      <4> HIDE DEF x, y
      <4>6. 100 * x < y
        BY <4>5
      <4> QED  BY <4>6 DEF x, y
    <3>3. 1..m - 1 \in SUBSET (1..N) /\ K \in SUBSET (1..m - 1)
      BY <3>1
    <3>4. /\ AccessesAt(rows, K) <= AccessesAt(rows, 1..m - 1)
          /\ AccessesAt(rows, K) \in Nat /\ AccessesAt(rows, 1..m - 1) \in Nat
      <4>1. K \in SUBSET (1..N)
        BY <3>3
      <4> QED  BY <1>0, <3>3, <4>1
    <3>5. percent * Accesses(rows) \in Int
      BY <1>b
    <3> DEFINE x == AccessesAt(rows, 1..m - 1)  y == percent * Accesses(rows)  z == AccessesAt(rows, K)
    <3>6. 100 * x < y /\ z <= x /\ x \in Nat /\ y \in Int /\ z \in Nat
      BY <3>2, <3>4, <3>5
    <3> HIDE DEF x, y, z
    <3>7. 100 * z < y
      BY <3>6
    <3> QED  BY <3>7 DEF y, z
  <2> QED  BY <2>1, <2>2
<1> QED  BY <1>3, <1>4, <1>5

Covers(c) ==
  LET in(tiers) == {k \in DOMAIN c : c[k].tier \in tiers}
      better(tiers) == {k \in DOMAIN c : \E j \in in(tiers) :
                          /\ c[k].pac > c[j].pac
                          /\ \A i \in in(tiers) : c[i].pac >= c[j].pac}
  IN  /\ 100 * AccessesAt(c, in({"HOT"})) >= 80 * Accesses(c)
      /\ 100 * AccessesAt(c, in({"HOT", "WARM"})) >= 95 * Accesses(c)
      /\ Len(c) >= 3 =>
           /\ 100 * AccessesAt(c, better({"HOT"})) < 80 * Accesses(c)
           /\ 100 * AccessesAt(c, better({"HOT", "WARM"})) < 95 * Accesses(c)

(* Rows of pages, best first. *)
Ranking(rows) ==
  /\ DOMAIN rows = 1..Len(rows) /\ Len(rows) \in Nat \ {0}
  /\ \A k \in 1..Len(rows) : RowOK(rows[k])
  /\ \A j, k \in 1..Len(rows) : j < k => rows[j].pac >= rows[k].pac

LEMMA RowsAreTiered ==
  ASSUME NEW rows, Ranking(rows)
  PROVE  /\ DOMAIN page_pac(rows) = 1..Len(rows) /\ Len(page_pac(rows)) = Len(rows)
         /\ page_pac(rows) # <<>>
         /\ \A k \in 1..Len(rows) :
              /\ page_pac(rows)[k].page = rows[k].page /\ page_pac(rows)[k].n = rows[k].n
              /\ page_pac(rows)[k].pac = rows[k].pac
              /\ page_pac(rows)[k].tier = Tier(rows[k].pac, detect_knee(rows))
         /\ \A K \in SUBSET (1..Len(rows)) : AccessesAt(page_pac(rows), K) = AccessesAt(rows, K)
         /\ Accesses(page_pac(rows)) = Accesses(rows)
<1> DEFINE c == page_pac(rows)  N == Len(rows)
<1>1. c = [k \in 1..N |-> [page |-> rows[k].page, n |-> rows[k].n, pac |-> rows[k].pac,
                           tier |-> Tier(rows[k].pac, detect_knee(rows))]]
  BY DEF page_pac, Ranking
<1>2. N \in Nat \ {0} /\ DOMAIN c = 1..N /\ Len(c) = N
  BY <1>1 DEF Ranking
<1>3. c # <<>>
  BY <1>2
<1>4. \A k \in 1..N : /\ c[k].page = rows[k].page /\ c[k].n = rows[k].n /\ c[k].pac = rows[k].pac
                      /\ c[k].tier = Tier(rows[k].pac, detect_knee(rows))
  BY <1>1
<1> HIDE DEF c
<1>5. \A K \in SUBSET (1..N) : AccessesAt(c, K) = AccessesAt(rows, K)
  <2> TAKE K \in SUBSET (1..N)
  <2>1. [k \in K |-> c[k].n] = [k \in K |-> rows[k].n]
    BY <1>4
  <2> QED  BY <2>1 DEF AccessesAt
<1>6. Accesses(c) = Accesses(rows)
  <2>1. DOMAIN rows = 1..N
    BY DEF Ranking
  <2> QED  BY <1>2, <1>5, <2>1 DEF Accesses
<1> QED  BY <1>2, <1>3, <1>4, <1>5, <1>6 DEF c

LEMMA HotRowsCover ==
  ASSUME NEW rows, Ranking(rows)
  PROVE  Covers(page_pac(rows))
<1> DEFINE c == page_pac(rows)  N == Len(rows)  total == Accesses(rows)
           in(tiers) == {k \in DOMAIN c : c[k].tier \in tiers}
           better(tiers) == {k \in DOMAIN c : \E j \in in(tiers) :
                               /\ c[k].pac > c[j].pac
                               /\ \A i \in in(tiers) : c[i].pac >= c[j].pac}
           H == in({"HOT"})  W == in({"HOT", "WARM"})  knee == detect_knee(rows)
           pac_(k) == rows[k].pac
<1>1. /\ N \in Nat \ {0} /\ DOMAIN rows = 1..N
      /\ \A k \in 1..N : rows[k].n \in Nat \ {0} /\ pac_(k) \in Nat
      /\ \A j, k \in 1..N : j < k => pac_(j) >= pac_(k)
  BY DEF Ranking, RowOK
<1>2. /\ DOMAIN c = 1..N /\ Len(c) = N
      /\ \A k \in 1..N : c[k].pac = pac_(k) /\ c[k].tier = Tier(pac_(k), knee)
      /\ \A K \in SUBSET (1..N) : AccessesAt(c, K) = AccessesAt(rows, K)
      /\ Accesses(c) = total
  BY RowsAreTiered
<1>3. /\ \A K \in SUBSET (1..N) : AccessesAt(rows, K) \in Nat
      /\ \A K \in SUBSET (1..N) : \A L \in SUBSET K : AccessesAt(rows, L) <= AccessesAt(rows, K)
      /\ total = AccessesAt(rows, 1..N) /\ total \in Nat
  <2>1. 1..N \in SUBSET (1..N)
    OBVIOUS
  <2> QED  BY <1>1, <2>1, SumOfRows
<1>4. \A k \in 1..N : /\ k \in H <=> pac_(k) >= knee.hot
                      /\ k \in W <=> pac_(k) >= knee.hot \/ pac_(k) >= knee.warm
  BY <1>2 DEF Tier
<1>5. Covers(c) <=>
        /\ 100 * AccessesAt(rows, H) >= 80 * total
        /\ 100 * AccessesAt(rows, W) >= 95 * total
        /\ N >= 3 => /\ 100 * AccessesAt(rows, better({"HOT"})) < 80 * total
                     /\ 100 * AccessesAt(rows, better({"HOT", "WARM"})) < 95 * total
  <2>1. /\ H \in SUBSET (1..N) /\ W \in SUBSET (1..N)
        /\ better({"HOT"}) \in SUBSET (1..N) /\ better({"HOT", "WARM"}) \in SUBSET (1..N)
    BY <1>2
  <2>2. /\ AccessesAt(c, H) = AccessesAt(rows, H) /\ AccessesAt(c, W) = AccessesAt(rows, W)
        /\ AccessesAt(c, better({"HOT"})) = AccessesAt(rows, better({"HOT"}))
        /\ AccessesAt(c, better({"HOT", "WARM"})) = AccessesAt(rows, better({"HOT", "WARM"}))
    <3> HIDE DEF H, W, better
    <3> QED  BY <1>2, <2>1
  <2>3. Covers(c) <=>
        /\ 100 * AccessesAt(c, H) >= 80 * Accesses(c)
        /\ 100 * AccessesAt(c, W) >= 95 * Accesses(c)
        /\ Len(c) >= 3 => /\ 100 * AccessesAt(c, better({"HOT"})) < 80 * Accesses(c)
                          /\ 100 * AccessesAt(c, better({"HOT", "WARM"})) < 95 * Accesses(c)
    BY DEF Covers
  <2> HIDE DEF H, W, better, c, N, total
  <2> QED  BY <1>2, <2>2, <2>3
<1> HIDE DEF c, H, W, better, knee
<1>6. CASE N < 3
  <2>1. knee.hot = pac_(N) /\ N \in {1, 2}
    <3>0. N = 1 \/ N = 2
      BY <1>1, <1>6
    <3>1. N \div 2 + 1 = N
      <4> HIDE DEF N
      <4> QED  BY <3>0
    <3> QED  BY <1>1, <1>6, <3>1 DEF knee, detect_knee
  <2>2. \A k \in 1..N : pac_(k) >= pac_(N)
    BY <1>1
  <2>3. H = 1..N /\ W = 1..N
    BY <1>1, <1>2, <1>4, <2>1, <2>2 DEF H, W, in
  <2>4. 100 * total >= 80 * total /\ 100 * total >= 95 * total
    BY <1>3
  <2> HIDE DEF N, total
  <2>5. AccessesAt(rows, H) = total /\ AccessesAt(rows, W) = total /\ ~(N >= 3)
    BY <1>1, <1>3, <1>6, <2>3
  <2>6. Covers(c)
    BY <1>5, <2>4, <2>5
  <2> QED  BY <2>6 DEF c
<1>7. CASE N >= 3
  <2> DEFINE a == Place(rows, 80)  b == Place(rows, 95)
  <2>1. knee.hot = pac_(a) /\ knee.warm = pac_(b)
    BY <1>1, <1>7 DEF knee, detect_knee
  <2>2. /\ a \in 1..N /\ 100 * AccessesAt(rows, 1..a) >= 80 * total
        /\ \A K \in SUBSET (1..a - 1) : 100 * AccessesAt(rows, K) < 80 * total
    <3>1. 80 \in 1..100
      OBVIOUS
    <3> HIDE DEF N
    <3> QED  BY <1>1, <3>1, PlaceIs
  <2>3. /\ b \in 1..N /\ 100 * AccessesAt(rows, 1..b) >= 95 * total
        /\ \A K \in SUBSET (1..b - 1) : 100 * AccessesAt(rows, K) < 95 * total
    <3>1. 95 \in 1..100
      OBVIOUS
    <3> HIDE DEF N
    <3> QED  BY <1>1, <3>1, PlaceIs
  <2> HIDE DEF a, b, total
  <2>4. a <= b
    <3>1. SUFFICES ASSUME b < a  PROVE FALSE
      BY <2>2, <2>3
    <3>2. 1..b \in SUBSET (1..a - 1) /\ 1..b \in SUBSET (1..N)
      BY <2>2, <2>3, <3>1
    <3>3. 100 * AccessesAt(rows, 1..b) < 80 * total
      BY <2>2, <3>2
    <3>4. AccessesAt(rows, 1..b) \in Nat
      BY <1>3, <3>2
    <3> QED  BY <1>3, <2>3, <3>3, <3>4
  <2>5. pac_(a) >= pac_(b) /\ pac_(a) \in Nat /\ pac_(b) \in Nat
    <3>1. a \in 1..N /\ b \in 1..N
      BY <2>2, <2>3
    <3> QED  BY SMTT(30), <1>1, <2>4, <3>1
  <2>6. 1..a \in SUBSET H /\ 1..b \in SUBSET W /\ H \in SUBSET (1..N) /\ W \in SUBSET (1..N)
    <3>1. \A k \in 1..a : k \in 1..N /\ pac_(k) >= pac_(a)
      BY <1>1, <2>2
    <3>2. \A k \in 1..b : k \in 1..N /\ pac_(k) >= pac_(b)
      BY <1>1, <2>3
    <3>3. H \in SUBSET (1..N) /\ W \in SUBSET (1..N)
      BY <1>2 DEF H, W, in
    <3> QED  BY <1>4, <2>1, <3>1, <3>2, <3>3
  <2>7. 100 * AccessesAt(rows, H) >= 80 * total
    <3>1. AccessesAt(rows, 1..a) <= AccessesAt(rows, H)
      BY <1>3, <2>6
    <3>2. AccessesAt(rows, H) \in Nat /\ AccessesAt(rows, 1..a) \in Nat
      BY <1>3, <2>6, <2>2
    <3> QED  BY <1>3, <2>2, <3>1, <3>2
  <2>8. 100 * AccessesAt(rows, W) >= 95 * total
    <3>1. AccessesAt(rows, 1..b) <= AccessesAt(rows, W)
      BY <1>3, <2>6
    <3>2. AccessesAt(rows, W) \in Nat /\ AccessesAt(rows, 1..b) \in Nat
      BY <1>3, <2>6, <2>3
    <3> QED  BY <1>3, <2>3, <3>1, <3>2
  <2>9. better({"HOT"}) \in SUBSET (1..a - 1)
    <3>1. ASSUME NEW k \in 1..N, NEW j \in H, pac_(k) > pac_(j)  PROVE k \in 1..a - 1
      <4>1. j \in 1..N /\ pac_(j) >= pac_(a)
        BY <1>4, <2>1, <2>6
      <4>2. ~(a <= k)
        BY <1>1, <2>2, <2>5, <3>1, <4>1
      <4> QED  BY <2>2, <4>2
    <3>2. \A k \in better({"HOT"}) : k \in 1..N /\ \E j \in H : pac_(k) > pac_(j)
      BY <1>2, <2>6 DEF better, H, in
    <3> QED  BY <3>1, <3>2
  <2>10. better({"HOT", "WARM"}) \in SUBSET (1..b - 1)
    <3>1. ASSUME NEW k \in 1..N, NEW j \in W, pac_(k) > pac_(j)  PROVE k \in 1..b - 1
      <4>0. j \in 1..N
        BY <2>6
      <4>1. pac_(j) >= pac_(b) /\ pac_(j) \in Nat /\ pac_(k) \in Nat
        BY <1>1, <1>4, <2>1, <2>5, <4>0
      <4>2. ~(b <= k)
        BY <1>1, <2>3, <2>5, <3>1, <4>1
      <4> QED  BY <2>3, <4>2
    <3>2. \A k \in better({"HOT", "WARM"}) : k \in 1..N /\ \E j \in W : pac_(k) > pac_(j)
      BY <1>2, <2>6 DEF better, W, in
    <3> QED  BY <3>1, <3>2
  <2>11. /\ 100 * AccessesAt(rows, better({"HOT"})) < 80 * total
         /\ 100 * AccessesAt(rows, better({"HOT", "WARM"})) < 95 * total
    BY <2>2, <2>3, <2>9, <2>10
  <2>12. Covers(c)
    BY <1>5, <2>7, <2>8, <2>11
  <2> QED  BY <2>12 DEF c
<1> QED  BY <1>1, <1>6, <1>7 DEF c

-----------------------------------------------------------------------------
(* Parsing, line by line *)

AtStart == [sample |-> Empty, stats |-> NoStats]

LEMMA ParseSteps ==
  ASSUME NEW lines, Len(lines) \in Nat, NEW worker
  PROVE  /\ AfterEach(lines, worker)[0] = AtStart
         /\ \A k \in 1..Len(lines) :
              AfterEach(lines, worker)[k] = ParseLine(AfterEach(lines, worker)[k - 1], lines[k], worker)
<1> DEFINE N == Len(lines)
           Is(g, n) == g = [k \in 0..n |-> IF k = 0 THEN AtStart
                                           ELSE ParseLine(g[k - 1], lines[k], worker)]
           Bad == {n \in Nat : ~\E g : Is(g, n)}
<1>1. Bad = {}
  <2>1. SUFFICES ASSUME Bad # {}  PROVE FALSE
    OBVIOUS
  <2>2. PICK n \in Bad : \A m \in Bad : n <= m
    BY <2>1, LeastNatural
  <2>3. n \in Nat /\ ~\E g : Is(g, n)
    BY <2>2
  <2>4. n # 0
    <3>1. Is([k \in {0} |-> AtStart], 0)
      BY SMT
    <3> QED  BY <2>3, <3>1
  <2>5. n - 1 \in Nat /\ n - 1 \notin Bad
    <3> HIDE DEF Bad
    <3> QED  BY <2>2, <2>3, <2>4
  <2>6. PICK h : Is(h, n - 1)
    BY <2>5
  <2> DEFINE g == [k \in 0..n |-> IF k = 0 THEN AtStart ELSE ParseLine(h[k - 1], lines[k], worker)]
  <2>7. \A k \in 0..n - 1 : g[k] = h[k]
    BY <2>6, <2>3
  <2>8. Is(g, n)
    <3>1. \A k \in 0..n : k # 0 => k - 1 \in 0..n - 1
      BY <2>3
    <3>2. \A k \in 0..n : k # 0 => g[k - 1] = h[k - 1]
      BY <2>7, <3>1
    <3> QED  BY <3>2
  <2> QED  BY <2>8, <2>3
<1>2. PICK g : Is(g, N)
  BY <1>1
<1>3. AfterEach(lines, worker) = CHOOSE f : Is(f, N)
  BY DEF AfterEach, AtStart
<1> DEFINE A == AfterEach(lines, worker)
<1>4. Is(A, N)
  BY <1>2, <1>3
<1> HIDE DEF A
<1>5. A[0] = AtStart
  BY <1>4
<1>6. \A k \in 1..N : A[k] = ParseLine(A[k - 1], lines[k], worker)
  BY <1>4
<1> QED  BY <1>5, <1>6 DEF A

SamplePages == Pages \cup {NoPage, Kernel}
ReadSamples == [page : SamplePages, lat : Nat, sve : BOOLEAN]
Stats == [Pages -> [n : Nat, lat : Nat, sve : Nat]]
States == [sample : ReadSamples, stats : Stats]
LineOK(l) ==
  /\ l.kind \in {"PC", "VA", "OP", "LAT", "TS", "other"}
  /\ l.page \in Pages \cup {Kernel} /\ l.lat \in Nat /\ l.sve \in BOOLEAN

LEMMA FlushType ==
  ASSUME NEW st \in Stats, NEW s \in ReadSamples
  PROVE  flush_sample(st, s) \in Stats
BY DEF flush_sample, Stats, ReadSamples

LEMMA ParseLineType ==
  ASSUME NEW state \in States, NEW l, LineOK(l), NEW worker
  PROVE  ParseLine(state, l, worker) \in States
<1>1. /\ state = [sample |-> state.sample, stats |-> state.stats]
      /\ state.sample \in ReadSamples /\ state.stats \in Stats
  BY DEF States
<1>2. Empty \in ReadSamples
  BY DEF Empty, ReadSamples, SamplePages
<1>3. flush_sample(state.stats, state.sample) \in Stats
  BY <1>1, FlushType
<1>4. /\ [state EXCEPT !.sample.page = l.page] \in States
      /\ [state EXCEPT !.sample.lat = l.lat] \in States
      /\ [state EXCEPT !.sample.sve = @ \/ l.sve] \in States
  BY DEF States, ReadSamples, SamplePages, LineOK
<1> QED  BY <1>2, <1>3, <1>4 DEF ParseLine, States

LEMMA ParseType ==
  ASSUME NEW lines, Len(lines) \in Nat, \A k \in 1..Len(lines) : LineOK(lines[k]), NEW worker
  PROVE  /\ \A k \in 0..Len(lines) : AfterEach(lines, worker)[k] \in States
         /\ LastFlush(AfterLines(lines, worker)) \in Stats
<1> DEFINE A == AfterEach(lines, worker)
           Bad == {k \in 0..Len(lines) : A[k] \notin States}
<1>1. AtStart \in States
  BY DEF AtStart, States, Empty, NoStats, ReadSamples, SamplePages, Stats
<1>2. /\ A[0] = AtStart
      /\ \A k \in 1..Len(lines) : A[k] = ParseLine(A[k - 1], lines[k], worker)
  BY ParseSteps
<1>3. Bad = {}
  <2>1. SUFFICES ASSUME Bad # {}  PROVE FALSE
    OBVIOUS
  <2>0. Bad \in SUBSET Nat
    OBVIOUS
  <2>2. PICK k \in Bad : \A m \in Bad : k <= m
    <3> HIDE DEF Bad
    <3> QED  BY <2>0, <2>1, LeastNatural
  <2>3. k \in 1..Len(lines) /\ k - 1 \in 0..Len(lines) /\ A[k] \notin States
    <3>1. k # 0
      BY <1>1, <1>2, <2>2
    <3> QED  BY <3>1, <2>2
  <2>4. A[k - 1] \in States
    <3>1. k - 1 \notin Bad
      <4> HIDE DEF Bad
      <4> QED  BY <2>2, <2>3
    <3> QED  BY <3>1, <2>3
  <2> HIDE DEF A
  <2>5. ParseLine(A[k - 1], lines[k], worker) \in States
    BY <2>3, <2>4, ParseLineType
  <2> QED  BY <1>2, <2>3, <2>5
<1>4. \A k \in 0..Len(lines) : A[k] \in States
  BY <1>3
<1>5. A[Len(lines)] \in States
  BY <1>4
<1>6. LastFlush(A[Len(lines)]) \in Stats
  <2> HIDE DEF A
  <2> QED  BY <1>5, FlushType DEF LastFlush, States
<1> QED  BY <1>4, <1>6 DEF AfterLines

-----------------------------------------------------------------------------
(* The lines of a dump *)

Samples == [page : UserPages \cup {Kernel}, lat : Nat, sve : BOOLEAN, vaLast : BOOLEAN, ts : BOOLEAN]

(* Between two addresses there is the program counter of the second        *)
(* sample; likewise for latencies.                                         *)
OneEach(lines) ==
  \A j, k \in 1..Len(lines) :
    j < k /\ lines[j].kind = lines[k].kind /\ lines[k].kind \in {"VA", "LAT"} =>
      \E m \in 1..Len(lines) : j < m /\ m < k /\ lines[m].kind = "PC"

Packets == [kind : {"PC", "VA", "OP", "LAT", "TS"}, page : UserPages \cup {Kernel},
            lat : Nat, sve : BOOLEAN]

LinesOK(lines) == lines \in Seq(Packets) /\ OneEach(lines)

LEMMA PacketsAreLines ==
  ASSUME NEW l \in Packets
  PROVE  LineOK(l) /\ l.page # Junk /\ l.kind # "other"
<1>1. Junk \notin UserPages /\ Junk \in Nat
  BY PipelineAssumption
<1> QED  BY <1>1 DEF Packets, LineOK, Pages, Kernel

LEMMA SampleLinesAre ==
  ASSUME NEW s \in Samples
  PROVE  /\ DOMAIN SampleLines(s) = 1..Len(SampleLines(s)) /\ Len(SampleLines(s)) \in {4, 5}
         /\ SampleLines(s)[1].kind = "PC"
         /\ SampleLines(s) \in Seq(Packets)
         /\ \A j, k \in 1..Len(SampleLines(s)) :
              SampleLines(s)[j].kind = SampleLines(s)[k].kind => j = k
<1> DEFINE kinds == IF s.vaLast THEN <<"PC", "OP", "LAT", "VA", "TS">>
                               ELSE <<"PC", "VA", "OP", "LAT", "TS">>
           n == IF s.ts THEN 5 ELSE 4
           t == [k \in 1..n |-> [kind |-> kinds[k], page |-> s.page, lat |-> s.lat, sve |-> s.sve]]
<1>1. SampleLines(s) = t
  BY DEF SampleLines
<1>2. n \in {4, 5} /\ DOMAIN t = 1..n /\ Len(t) = n
  OBVIOUS
<1>3. /\ kinds[1] = "PC" /\ kinds[5] = "TS"
      /\ {kinds[2], kinds[3], kinds[4]} = {"VA", "OP", "LAT"}
      /\ kinds[2] # kinds[3] /\ kinds[2] # kinds[4] /\ kinds[3] # kinds[4]
  OBVIOUS
<1> HIDE DEF kinds
<1>4. \A k \in 1..n : k \in {1, 2, 3, 4, 5}
  BY <1>2
<1>5. \A k \in {1, 2, 3, 4, 5} : kinds[k] \in {"PC", "VA", "OP", "LAT", "TS"}
  BY <1>3
<1>6. \A j, k \in {1, 2, 3, 4, 5} : kinds[j] = kinds[k] => j = k
  <2>1. /\ kinds[2] \in {"VA", "OP", "LAT"} /\ kinds[3] \in {"VA", "OP", "LAT"}
        /\ kinds[4] \in {"VA", "OP", "LAT"}
    BY <1>3
  <2> QED  BY <1>3, <2>1
<1> HIDE DEF n
<1>7. \A k \in 1..n : /\ t[k].kind = kinds[k] /\ t[k].page = s.page /\ t[k].lat = s.lat
                      /\ t[k].sve = s.sve
  OBVIOUS
<1> HIDE DEF t
<1>8. /\ s.page \in UserPages \cup {Kernel} /\ s.lat \in Nat /\ s.sve \in BOOLEAN
  BY DEF Samples
<1>9. \A k \in 1..n : [kind |-> kinds[k], page |-> s.page, lat |-> s.lat, sve |-> s.sve] \in Packets
  BY <1>4, <1>5, <1>8 DEF Packets
<1>13. t \in Seq(Packets)
  <2>1. t \in [1..n -> Packets] /\ n \in Nat
    BY <1>2, <1>9 DEF t
  <2> QED  BY <2>1
<1>10. 1 \in 1..n
  BY <1>2
<1>11. t[1].kind = "PC"
  BY <1>3, <1>7, <1>10
<1>12. \A j, k \in 1..n : t[j].kind = t[k].kind => j = k
  BY <1>4, <1>6, <1>7
<1> QED  BY <1>1, <1>2, <1>11, <1>12, <1>13

LEMMA JoinLines ==
  ASSUME NEW a, LinesOK(a), NEW s \in Samples
  PROVE  LinesOK(a \o SampleLines(s))
<1> DEFINE b == SampleLines(s)  t == a \o b  M == Len(a)
<1>1. /\ b \in Seq(Packets) /\ Len(b) \in {4, 5} /\ b[1].kind = "PC"
      /\ \A j, k \in 1..Len(b) : b[j].kind = b[k].kind => j = k
  BY SampleLinesAre
<1>2. a \in Seq(Packets) /\ OneEach(a)
  BY DEF LinesOK
<1> HIDE DEF b
<1>3. /\ t \in Seq(Packets) /\ M \in Nat /\ Len(t) = M + Len(b)
      /\ \A k \in 1..M + Len(b) : t[k] = IF k <= M THEN a[k] ELSE b[k - M]
  BY <1>1, <1>2, ConcatProperties
<1> HIDE DEF t
<1>4. ASSUME NEW j \in 1..Len(t), NEW k \in 1..Len(t), j < k, t[j].kind = t[k].kind,
             t[k].kind \in {"VA", "LAT"}
      PROVE  \E m \in 1..Len(t) : j < m /\ m < k /\ t[m].kind = "PC"
  <2>1. CASE k <= M
    <3>1. j \in 1..M /\ k \in 1..M /\ t[j] = a[j] /\ t[k] = a[k]
      BY <1>1, <1>3, <1>4, <2>1
    <3>2. PICK m \in 1..M : j < m /\ m < k /\ a[m].kind = "PC"
      BY <1>2, <1>4, <3>1 DEF OneEach
    <3>3. m \in 1..Len(t) /\ t[m] = a[m]
      BY <1>1, <1>3, <3>2
    <3> QED  BY <3>2, <3>3
  <2>2. CASE ~(k <= M) /\ j <= M
    <3>0. M + 1 \in 1..Len(t) /\ ~(M + 1 <= M) /\ (M + 1) - M = 1 /\ k \in 1..M + Len(b)
      BY <1>1, <1>3
    <3>1. M + 1 \in 1..Len(t) /\ t[M + 1] = b[1] /\ t[k] = b[k - M]
      BY <1>3, <2>2, <3>0
    <3>2. k # M + 1
      BY <1>1, <1>4, <3>1
    <3>3. j < M + 1 /\ M + 1 < k
      BY <1>1, <1>3, <2>2, <3>2
    <3> QED  BY <1>1, <3>1, <3>3
  <2>3. CASE ~(k <= M) /\ ~(j <= M)
    <3>1. /\ t[j] = b[j - M] /\ t[k] = b[k - M] /\ j - M \in 1..Len(b) /\ k - M \in 1..Len(b)
          /\ j - M # k - M
      BY <1>1, <1>3, <1>4, <2>3
    <3> QED  BY <1>1, <1>4, <3>1
  <2> QED  BY <2>1, <2>2, <2>3
<1>5. OneEach(t)
  BY <1>4 DEF OneEach
<1> QED  BY <1>3, <1>5 DEF LinesOK, t, b

LEMMA LinesAreOK ==
  ASSUME NEW d \in Seq(Samples)
  PROVE  LinesOK(FlattenSeq([k \in DOMAIN d |-> SampleLines(d[k])]))
<1> DEFINE q == [k \in DOMAIN d |-> SampleLines(d[k])]  N == Len(d)
           Is(g, n) == g = [k \in 1..n |-> IF k = 1 THEN q[k] ELSE g[k - 1] \o q[k]]
           Bad == {n \in 1..N : ~\E g : Is(g, n) /\ LinesOK(g[n])}
<1>1. /\ N \in Nat /\ DOMAIN d = 1..N /\ Len(q) = N /\ DOMAIN q = 1..N
      /\ \A k \in 1..N : d[k] \in Samples /\ q[k] = SampleLines(d[k])
  OBVIOUS
<1>2. ASSUME N = 0  PROVE LinesOK(FlattenSeq(q))
  <2>1. q = <<>>
    BY <1>1, <1>2
  <2>2. FlattenSeq(q) = <<>>
    BY <1>1, <1>2, <2>1 DEF FlattenSeq
  <2> QED  BY <2>2 DEF LinesOK, OneEach
<1>3. ASSUME N # 0  PROVE LinesOK(FlattenSeq(q))
  <2> HIDE DEF q
  <2>1. Bad = {}
    <3>1. SUFFICES ASSUME Bad # {}  PROVE FALSE
      OBVIOUS
    <3>2. Bad \in SUBSET Nat
      <4>1. \A n \in Bad : n \in 1..N
        OBVIOUS
      <4> HIDE DEF Bad, N
      <4> QED  BY <1>1, <4>1
    <3>3. PICK n \in Bad : \A m \in Bad : n <= m
      <4> HIDE DEF Bad
      <4> QED  BY <3>1, <3>2, LeastNatural
    <3>4. n \in 1..N /\ ~\E g : Is(g, n) /\ LinesOK(g[n])
      BY <3>3
    <3>5. CASE n = 1
      <4> DEFINE g == [k \in {1} |-> q[1]]
      <4>1. Is(g, 1)
        BY SMT
      <4>2. LinesOK(<<>>) /\ d[1] \in Samples /\ q[1] = SampleLines(d[1])
        BY <1>1, <1>3 DEF LinesOK, OneEach
      <4>3. LinesOK(<<>> \o q[1])
        BY <4>2, JoinLines
      <4>4. <<>> \o q[1] = q[1]
        BY <4>2, SampleLinesAre, ConcatEmptySeq
      <4> QED  BY <3>4, <3>5, <4>1, <4>3, <4>4
    <3>6. CASE n # 1
      <4>1. n - 1 \in 1..N /\ n \in Nat /\ n - 1 \notin Bad
        <5> HIDE DEF Bad
        <5> QED  BY <1>1, <3>3, <3>4, <3>6
      <4>2. PICK h : Is(h, n - 1) /\ LinesOK(h[n - 1])
        BY <4>1
      <4> DEFINE g == [k \in 1..n |-> IF k = 1 THEN q[k] ELSE h[k - 1] \o q[k]]
      <4>9. \A k \in 1..n - 1 : k \in 1..n
        BY <4>1
      <4>10. n \in 1..n
        BY <3>4, <4>1
      <4>3. \A k \in 1..n - 1 : g[k] = h[k]
        <5> TAKE k \in 1..n - 1
        <5>1. h[k] = IF k = 1 THEN q[k] ELSE h[k - 1] \o q[k]
          BY <4>2
        <5>2. g[k] = IF k = 1 THEN q[k] ELSE h[k - 1] \o q[k]
          BY <4>9
        <5> QED  BY <5>1, <5>2
      <4>4. \A k \in 1..n : k # 1 => k - 1 \in 1..n - 1
        BY <4>1
      <4>5. \A k \in 1..n : k # 1 => g[k - 1] = h[k - 1]
        BY <4>3, <4>4
      <4>6. Is(g, n)
        BY <4>5
      <4>7. g[n] = h[n - 1] \o q[n]
        BY <3>6, <4>10
      <4>8. LinesOK(h[n - 1] \o SampleLines(d[n])) /\ q[n] = SampleLines(d[n])
        BY <1>1, <3>4, <4>2, JoinLines
      <4>11. LinesOK(g[n])
        BY <4>7, <4>8
      <4> HIDE DEF g, Is
      <4> QED  BY <3>4, <4>6, <4>11
    <3> QED  BY <3>5, <3>6
  <2>2. N \in 1..N
    BY <1>1, <1>3
  <2>3. PICK g : Is(g, N) /\ LinesOK(g[N])
    BY <2>1, <2>2
  <2>4. FlattenSeq(q) = (CHOOSE f : Is(f, N))[N]
    BY <1>1, <1>3 DEF FlattenSeq
  <2>5. \A f : Is(f, N) => f[N] = g[N]
    <3>1. SUFFICES ASSUME NEW f, Is(f, N)  PROVE f[N] = g[N]
      OBVIOUS
    <3> DEFINE Differ == {k \in 1..N : f[k] # g[k]}
    <3>2. Differ = {}
      <4>1. SUFFICES ASSUME Differ # {}  PROVE FALSE
        OBVIOUS
      <4>2. Differ \in SUBSET Nat
        BY <1>1
      <4>3. PICK k \in Differ : \A m \in Differ : k <= m
        <5> HIDE DEF Differ
        <5> QED  BY <4>1, <4>2, LeastNatural
      <4>4. k \in 1..N /\ f[k] # g[k]
        BY <4>3
      <4>5. k # 1
        BY <2>3, <3>1, <4>4
      <4>6. k - 1 \in 1..N /\ k - 1 \notin Differ
        <5> HIDE DEF Differ
        <5> QED  BY <1>1, <4>3, <4>4, <4>5
      <4>7. f[k] = f[k - 1] \o q[k] /\ g[k] = g[k - 1] \o q[k]
        BY <2>3, <3>1, <4>4, <4>5
      <4> QED  BY <4>4, <4>6, <4>7
    <3> QED  BY <2>2, <3>2
  <2>6. Is(CHOOSE f : Is(f, N), N)
    BY <2>3
  <2> HIDE DEF Is
  <2>7. FlattenSeq(q) = g[N]
    BY <2>4, <2>5, <2>6
  <2> QED  BY <2>3, <2>7
<1> QED  BY <1>2, <1>3

-----------------------------------------------------------------------------
(* The chunks of a file *)

LEMMA LeastIsMin ==
  ASSUME NEW S \in SUBSET Nat, S # {}
  PROVE  Min(S) \in S /\ \A x \in S : Min(S) <= x
BY LeastNatural DEF Min

LEMMA MinMaxOfTwo ==
  ASSUME NEW a \in Int, NEW b \in Int
  PROVE  /\ Min({a, b}) = IF a <= b THEN a ELSE b
         /\ Max({a, b}) = IF a <= b THEN b ELSE a
BY DEF Min, Max

LEMMA Division ==
  ASSUME NEW n \in Nat, NEW d \in Nat \ {0}
  PROVE  n \div d \in Nat /\ n % d \in 0..d - 1 /\ n = d * (n \div d) + (n % d)
OBVIOUS

LEMMA FiniteImage ==
  ASSUME NEW S, IsFiniteSet(S), NEW f
  PROVE  IsFiniteSet({f[x] : x \in S})
<1> DEFINE g == [x \in S |-> f[x]]
<1>1. g \in Surjection(S, {f[x] : x \in S})
  BY DEF Surjection
<1> QED  BY <1>1, FS_Surjection

LEMMA BoundaryIs ==
  ASSUME NEW lines, Len(lines) \in Nat, NEW i \in Nat, NEW chunk_size \in Nat, NEW bare_
  PROVE  Boundary(lines, i, chunk_size, bare_) \in Nat
<1> DEFINE offset == i * chunk_size
           found == {k \in LineAt(offset)..Min({LineAt(offset) + MaxScan - 1, Len(lines)}) :
                       bare_ /\ lines[k].kind = "TS" /\ LineUnits * (k - 1) >= offset}
<1>1. offset \in Nat /\ offset + chunk_size * i \in Nat
  BY SMT
<1>2. LineAt(offset) \in Nat
  <2> HIDE DEF offset
  <2> QED  BY <1>1 DEF LineAt, LineUnits
<1>3. found \in SUBSET Nat
  <2>1. MaxScan \in Nat
    BY PipelineAssumption
  <2>2. Min({LineAt(offset) + MaxScan - 1, Len(lines)}) \in Int
    <3> HIDE DEF offset
    <3> QED  BY <1>2, <2>1, MinMaxOfTwo
  <2>3. \A k \in LineAt(offset)..Min({LineAt(offset) + MaxScan - 1, Len(lines)}) : k \in Nat
    <3> HIDE DEF offset
    <3> QED  BY <1>2, <2>2
  <2> QED  BY <2>3
<1>4. found # {} => LineUnits * Min(found) \in Nat
  <2> HIDE DEF found
  <2> HAVE found # {}
  <2>1. Min(found) \in Nat
    BY <1>3, LeastIsMin
  <2> QED  BY <2>1 DEF LineUnits
<1> HIDE DEF found
<1> QED  BY <1>1, <1>4 DEF Boundary, found

LEMMA ChunksAre ==
  ASSUME NEW lines, Len(lines) \in Nat, NEW w \in Nat \ {0}, NEW bare_
  PROVE  LET C == chunks(lines, w, bare_)
         IN  /\ Len(C) \in Nat /\ DOMAIN C = 1..Len(C)
             /\ \A i \in 1..Len(C) : /\ C[i].from \in Nat /\ C[i].to \in Nat /\ C[i].from < C[i].to
                                     /\ i # 1 => C[i].from = C[i - 1].to
             /\ \A i, j \in 1..Len(C) : i < j => C[i].to < C[j].to
             /\ IF Len(C) = 0 THEN Size(lines) = 0
                ELSE C[1].from = 0 /\ C[Len(C)].to >= Size(lines)
<1> DEFINE size == Size(lines)  chunk_size == size \div w
           S == {0, size} \cup {Boundary(lines, i, chunk_size, bare_) : i \in 1..w - 1}
           b == InOrder(S)  n == Cardinality(S)  C == chunks(lines, w, bare_)
<1>1. size \in Nat /\ chunk_size \in Nat
  <2>1. size \in Nat
    BY DEF Size, LineUnits
  <2> HIDE DEF size
  <2> QED  BY <2>1, Division
<1>2. \A i \in 1..w - 1 : Boundary(lines, i, chunk_size, bare_) \in Nat
  <2> HIDE DEF chunk_size
  <2> QED  BY <1>1, BoundaryIs
<1> DEFINE B == {Boundary(lines, i, chunk_size, bare_) : i \in 1..w - 1}
<1>3. IsFiniteSet(B)
  <2> HIDE DEF chunk_size
  <2>1. IsFiniteSet(1..w - 1)
    BY FS_Interval
  <2> DEFINE f == [i \in 1..w - 1 |-> Boundary(lines, i, chunk_size, bare_)]
  <2>2. B = {f[i] : i \in 1..w - 1}
    OBVIOUS
  <2> HIDE DEF f
  <2> QED  BY <2>1, <2>2, FiniteImage
<1>4. S \in SUBSET Nat /\ IsFiniteSet(S) /\ 0 \in S /\ size \in S
  <2>1. B \in SUBSET Nat
    BY <1>2
  <2>2. S = (B \cup {0}) \cup {size}
    OBVIOUS
  <2>3. 0 \in S /\ size \in S
    BY <2>2
  <2>4. S \in SUBSET Nat
    BY <1>1, <2>1, <2>2
  <2>5. IsFiniteSet(S)
    <3> HIDE DEF B, S, size
    <3>1. IsFiniteSet(B \cup {0})
      BY <1>3, FS_AddElement
    <3> QED  BY <2>2, <3>1, FS_AddElement
  <2> QED  BY <2>3, <2>4, <2>5
<1>5. boundaries(lines, w, bare_) = b
  BY DEF boundaries
<1>6. C = [i \in 1..Len(b) - 1 |-> [from |-> b[i], to |-> b[i + 1]]]
  BY <1>5 DEF chunks
<1> HIDE DEF S, B, C, size
<1>7. /\ n \in Nat \ {0} /\ Len(b) = n
      /\ \A k \in 1..n : b[k] \in S
      /\ \A j, k \in 1..n : j < k => b[j] < b[k]
      /\ \A x \in S : \E k \in 1..n : b[k] = x
  <2>1. n # 0 /\ n \in Nat
    BY <1>4, FS_EmptySet, FS_CardinalityType
  <2>2. S \in SUBSET Int
    BY <1>4
  <2> QED  BY <1>4, <2>1, <2>2, Sorted
<1> HIDE DEF b, n
<1>8. Len(C) = n - 1 /\ DOMAIN C = 1..n - 1
  BY <1>6, <1>7
<1>9. \A k \in 1..n : b[k] \in Nat
  BY <1>4, <1>7
<1>10. \A i \in 1..n - 1 : i \in 1..n /\ i + 1 \in 1..n /\ C[i].from = b[i] /\ C[i].to = b[i + 1]
  BY <1>6, <1>7
<1>11. b[1] = 0
  <2>1. PICK k \in 1..n : b[k] = 0
    BY <1>4, <1>7
  <2>2. 1 \in 1..n
    BY <1>7
  <2>3. k # 1 => b[1] < b[k]
    BY <1>7, <2>1, <2>2
  <2>4. b[1] \in Nat
    BY <1>9, <2>2
  <2> QED  BY <2>1, <2>3, <2>4
<1>12. b[n] >= size
  <2>1. PICK k \in 1..n : b[k] = size
    BY <1>4, <1>7
  <2>2. n \in 1..n
    BY <1>7
  <2>3. k # n => b[k] < b[n]
    BY <1>7, <2>1, <2>2
  <2>4. b[n] \in Nat
    BY <1>9, <2>2
  <2> QED  BY <1>1, <2>1, <2>3, <2>4
<1>13. ASSUME NEW i \in 1..n - 1
       PROVE  /\ C[i].from \in Nat /\ C[i].to \in Nat /\ C[i].from < C[i].to
              /\ i # 1 => C[i].from = C[i - 1].to
  <2>1. i # 1 => i - 1 \in 1..n - 1 /\ (i - 1) + 1 = i
    BY <1>7
  <2>2. i < i + 1
    BY <1>7
  <2>3. C[i].from = b[i] /\ C[i].to = b[i + 1] /\ i \in 1..n /\ i + 1 \in 1..n
    BY <1>10
  <2>4. b[i] < b[i + 1]
    BY <1>7, <2>2, <2>3
  <2>5. i # 1 => C[i - 1].to = b[i]
    <3> HAVE i # 1
    <3>1. C[i - 1].to = b[(i - 1) + 1]
      BY <1>10, <2>1
    <3> QED  BY <2>1, <3>1
  <2> QED  BY <1>9, <2>3, <2>4, <2>5
<1>14. \A i, j \in 1..n - 1 : i < j => C[i].to < C[j].to
  <2>1. \A i, j \in 1..n - 1 : i < j => i + 1 < j + 1
    BY <1>7
  <2>2. ASSUME NEW i \in 1..n - 1, NEW j \in 1..n - 1, i < j  PROVE C[i].to < C[j].to
    <3>1. i + 1 \in 1..n /\ j + 1 \in 1..n /\ C[i].to = b[i + 1] /\ C[j].to = b[j + 1]
      BY <1>10
    <3>2. b[i + 1] < b[j + 1]
      BY <1>7, <2>1, <2>2, <3>1
    <3> QED  BY <3>1, <3>2
  <2> QED  BY <2>2
<1>15. IF n - 1 = 0 THEN size = 0 ELSE C[1].from = 0 /\ C[n - 1].to >= size
  <2>1. CASE n = 1
    BY <1>1, <1>11, <1>12, <2>1
  <2>2. CASE n # 1
    <3>1. 1 \in 1..n - 1 /\ n - 1 \in 1..n - 1 /\ (n - 1) + 1 = n
      BY <1>7, <2>2
    <3> QED  BY <1>7, <1>10, <1>11, <1>12, <2>2, <3>1
  <2> QED  BY <1>7, <2>1, <2>2
<1>16. n - 1 \in Nat
  BY <1>7
<1> QED  BY <1>8, <1>13, <1>14, <1>15, <1>16 DEF C, size

(* What a worker reads: pieces of lines. *)
ChunkEnd(lines, c) == IF c.to <= 3 * Len(lines) THEN c.to ELSE 3 * Len(lines)
FirstLine(c) == c.from \div 3 + 1
LastLine(lines, c) == (ChunkEnd(lines, c) - 1) \div 3 + 1
PieceFrom(c, g) == IF c.from <= 3 * (g - 1) THEN 0 ELSE c.from - 3 * (g - 1)
PieceTo(lines, c, g) ==
  IF ChunkEnd(lines, c) >= 3 * g THEN 3 ELSE ChunkEnd(lines, c) - 3 * (g - 1)

LEMMA PieceType ==
  ASSUME NEW l, LineOK(l), NEW from, NEW to, NEW bare_
  PROVE  LineOK(Piece(l, from, to, bare_)) \/ Piece(l, from, to, bare_) = [l EXCEPT !.kind = "other"]
BY DEF Piece, LineOK, Pages

LEMMA PieceOK ==
  ASSUME NEW l \in Packets, NEW from, NEW to, NEW bare_
  PROVE  LineOK(Piece(l, from, to, bare_))
<1>1. Junk \in Pages
  BY DEF Pages
<1>2. LineOK([l EXCEPT !.kind = "other"]) /\ LineOK([l EXCEPT !.page = Junk]) /\ LineOK(l)
  BY <1>1 DEF Packets, LineOK, Pages
<1> QED  BY <1>2 DEF Piece

LEMMA ChunkLinesAre ==
  ASSUME NEW lines \in Seq(Packets), NEW c, c.from \in Nat, c.to \in Nat, c.from < c.to, NEW bare_
  PROVE  LET read == ChunkLines(lines, c, bare_)
         IN  /\ DOMAIN read = 1..Len(read)
             /\ Len(read) = IF c.from < 3 * Len(lines) THEN LastLine(lines, c) - FirstLine(c) + 1 ELSE 0
             /\ Len(read) \in Nat /\ (c.from < 3 * Len(lines) => Len(read) # 0)
             /\ \A k \in 1..Len(read) :
                  LET g == FirstLine(c) + k - 1
                  IN  /\ g \in 1..Len(lines)
                      /\ read[k] = Piece(lines[g], PieceFrom(c, g), PieceTo(lines, c, g), bare_)
                      /\ LineOK(read[k])
<1> DEFINE N == Len(lines)  to == ChunkEnd(lines, c)  first == FirstLine(c)
           last == LastLine(lines, c)  read == ChunkLines(lines, c, bare_)
           n == IF c.from < 3 * N THEN last - first + 1 ELSE 0
           start(k) == LineUnits * (first + k - 2)
<1>1. /\ N \in Nat /\ to \in Nat /\ to <= 3 * N /\ first \in Nat \ {0} /\ last \in Int
      /\ (c.from < 3 * N => c.from < to)
  BY DEF ChunkEnd, FirstLine, LastLine
<1>2. last <= N
  <2> HIDE DEF to
  <2>1. last = (to - 1) \div 3 + 1
    BY DEF LastLine, to
  <2> QED  BY <1>1, <2>1
<1>3. c.from < 3 * N => first <= last
  <2> HAVE c.from < 3 * N
  <2>1. last = (to - 1) \div 3 + 1 /\ first = c.from \div 3 + 1
    BY DEF LastLine, FirstLine
  <2> HIDE DEF to, first, last
  <2> QED  BY <1>1, <2>1
<1>4. ~(c.from < 3 * N) => last < first
  <2> HAVE ~(c.from < 3 * N)
  <2>1. first = c.from \div 3 + 1
    BY DEF FirstLine
  <2> HIDE DEF first, last
  <2> QED  BY <1>1, <1>2, <2>1
<1>5. n \in Nat /\ (c.from < 3 * N => n # 0) /\ 1..(last - first + 1) = 1..n
  <2> HIDE DEF first, last
  <2> QED  BY <1>1, <1>3, <1>4
<1>6. to = Min({c.to, Size(lines)}) /\ LineAt(to - 1) = last /\ LineAt(c.from) = first
  <2>1. Size(lines) = 3 * N
    BY DEF Size, LineUnits
  <2>2. to = Min({c.to, Size(lines)})
    BY <1>1, <2>1, MinMaxOfTwo DEF ChunkEnd
  <2> QED  BY <2>2 DEF LineAt, LineUnits, FirstLine, LastLine
<1>7. read = [k \in 1..(last - first + 1) |->
                Piece(lines[first + k - 1], Max({c.from - start(k), 0}),
                      Min({to - start(k), LineUnits}), bare_)]
  <2> HIDE DEF to, first, last
  <2> QED  BY <1>6 DEF ChunkLines, LineUnits
<1> HIDE DEF read
<1>8. DOMAIN read = 1..n /\ Len(read) = n
  <2>1. DOMAIN read = 1..(last - first + 1) /\ read = [k \in 1..(last - first + 1) |-> read[k]]
    BY <1>7
  <2> HIDE DEF first, last, n
  <2>2. DOMAIN read = 1..n /\ read = [k \in 1..n |-> read[k]]
    BY <1>5, <2>1
  <2> QED  BY <1>5, <2>2
<1>9. ASSUME NEW k \in 1..n
      PROVE  LET g == first + k - 1
             IN  /\ g \in 1..N
                 /\ read[k] = Piece(lines[g], PieceFrom(c, g), PieceTo(lines, c, g), bare_)
                 /\ LineOK(read[k])
  <2> DEFINE g == first + k - 1
  <2>1. k \in 1..(last - first + 1) /\ k \in Nat
    BY <1>5
  <2>2. g \in 1..N
    <3> HIDE DEF first, last, n
    <3> QED  BY <1>1, <1>2, <2>1
  <2>3. start(k) = 3 * (g - 1) /\ start(k) \in Int
    <3> HIDE DEF first
    <3> QED  BY <1>1, <2>1 DEF LineUnits
  <2> HIDE DEF first, start, to, g, last, n
  <2>4. Max({c.from - start(k), 0}) = PieceFrom(c, g)
    <3>1. c.from - start(k) \in Int /\ g \in Int
      BY <2>2, <2>3
    <3>2. Max({c.from - start(k), 0}) = IF c.from - start(k) <= 0 THEN 0 ELSE c.from - start(k)
      <4> DEFINE a == c.from - start(k)
      <4>1. a \in Int /\ 0 \in Int
        BY <3>1
      <4> HIDE DEF a
      <4>2. Max({a, 0}) = IF a <= 0 THEN 0 ELSE a
        BY <4>1, MinMaxOfTwo
      <4> QED  BY <4>2 DEF a
    <3> QED  BY <2>3, <3>1, <3>2 DEF PieceFrom
  <2>5. Min({to - start(k), LineUnits}) = PieceTo(lines, c, g)
    <3>1. to - start(k) \in Int /\ LineUnits = 3 /\ g \in Int
      BY <1>1, <2>2, <2>3 DEF LineUnits
    <3>2. Min({to - start(k), 3}) = IF to - start(k) <= 3 THEN to - start(k) ELSE 3
      BY <3>1, MinMaxOfTwo
    <3> QED  BY <1>1, <2>3, <3>1, <3>2 DEF PieceTo, to
  <2>6. read[k] = Piece(lines[g], PieceFrom(c, g), PieceTo(lines, c, g), bare_)
    BY <1>7, <2>1, <2>4, <2>5 DEF g
  <2>7. LineOK(read[k])
    <3>1. lines[g] \in Packets
      BY <2>2
    <3> QED  BY <2>6, <3>1, PieceOK
  <2> QED  BY <2>2, <2>6, <2>7 DEF g
<1> QED  BY <1>5, <1>8, <1>9 DEF read

-----------------------------------------------------------------------------
(* The table of pages *)

Distinct(rows) == \A j, k \in 1..Len(rows) : rows[j].page = rows[k].page => j = k

LEMMA RoundType ==
  ASSUME NEW n \in Nat, NEW d \in Nat \ {0}
  PROVE  Round(n, d) \in Nat
<1>1. n \div d \in Nat
  BY Division
<1> QED  BY <1>1 DEF Round

LEMMA PacType ==
  ASSUME NEW s \in [n : Nat, lat : Nat, sve : Nat], s.n > 0
  PROVE  pac(s) \in Nat
<1>1. 10 * s.lat * s.n \in Nat
  BY SMT
<1>2. s.n + s.sve \in Nat \ {0}
  BY SMT
<1> QED  BY <1>1, <1>2, RoundType DEF pac

LEMMA PagesFinite == IsFiniteSet(Pages)
BY PipelineAssumption, FS_AddElement DEF Pages

LEMMA PagesAreNat == Pages \subseteq Nat
BY PipelineAssumption DEF Pages

LEMMA ScoresAreRanked ==
  ASSUME NEW st \in Stats, NEW rows \in compute_pac_scores(st)
  PROVE  IF Len(rows) = 0 THEN page_pac(rows) = <<>> ELSE Ranking(rows) /\ Distinct(rows)
<1> DEFINE scored == {p \in Pages : st[p].n > 0}
           row(p) == [page |-> p, n |-> st[p].n, pac |-> pac(st[p])]
           R == {row(p) : p \in scored}  n == Cardinality(R)
<1>1. IsFiniteSet(scored)
  BY PagesFinite, FS_Subset
<1>2. IsFiniteSet(R) /\ n \in Nat
  <2> DEFINE f == [p \in scored |-> row(p)]
  <2>1. R = {f[p] : p \in scored}
    OBVIOUS
  <2>2. IsFiniteSet(R)
    <3> HIDE DEF f, scored
    <3> QED  BY <1>1, <2>1, FiniteImage
  <2> HIDE DEF R
  <2> QED  BY <2>2, FS_CardinalityType
<1>3. /\ rows \in [1..n -> R]
      /\ \A j, k \in 1..n : j # k => rows[j] # rows[k]
      /\ \A j, k \in 1..n : j < k => rows[j].pac >= rows[k].pac
  BY DEF compute_pac_scores, SetToSeqs
<1>4. DOMAIN rows = 1..n /\ Len(rows) = n
  <2> HIDE DEF n, R
  <2> QED  BY <1>2, <1>3
<1>5. \A r \in R : RowOK(r) /\ r = row(r.page)
  <2> TAKE r \in R
  <2>1. PICK p \in scored : r = row(p)
    OBVIOUS
  <2>2. p \in Nat /\ st[p] \in [n : Nat, lat : Nat, sve : Nat] /\ st[p].n > 0
    BY PagesAreNat DEF Stats
  <2>3. pac(st[p]) \in Nat /\ st[p].n \in Nat \ {0}
    BY <2>2, PacType
  <2> QED  BY <2>1, <2>2, <2>3 DEF RowOK
<1> HIDE DEF R, n, row
<1>6. \A k \in 1..n : rows[k] \in R
  BY <1>3
<1>7. ASSUME n # 0  PROVE Ranking(rows) /\ Distinct(rows)
  <2>1. Ranking(rows)
    BY <1>2, <1>3, <1>4, <1>5, <1>6, <1>7 DEF Ranking
  <2>2. Distinct(rows)
    BY <1>3, <1>4, <1>5, <1>6 DEF Distinct
  <2> QED  BY <2>1, <2>2
<1>8. ASSUME n = 0  PROVE page_pac(rows) = <<>>
  <2>1. DOMAIN rows = {}
    BY <1>4, <1>8
  <2>2. page_pac(rows) = [k \in {} |-> [page |-> rows[k].page, n |-> rows[k].n, pac |-> rows[k].pac,
                              tier |-> Tier(rows[k].pac, detect_knee(rows))]]
    BY <2>1 DEF page_pac
  <2> QED  BY <2>2
<1> QED  BY <1>4, <1>7, <1>8

-----------------------------------------------------------------------------
(* What the pipeline has at each stage. *)

PoolRan ==
  /\ Parallel
  /\ \A i \in DOMAIN parts : /\ i \in DOMAIN Chunks
                             /\ parts[i] = _parse_chunk_worker(Lines, Chunks[i], bare)

InputInv ==
  /\ dump \in Seq(Samples) /\ bare \in BOOLEAN /\ workers \in Nat
  /\ stats \in Stats

PartsInv ==
  /\ stage = "parse" => parts = <<>>
  /\ stage = "pool" => PoolRan
  /\ stage = "parsed" =>
       \/ parts = <<>> /\ stats = parse_stream(Lines)
       \/ PoolRan /\ DOMAIN parts = DOMAIN Chunks /\ stats = merged(parts)

CsvInv == csv # <<>> => \E rows : Ranking(rows) /\ Distinct(rows) /\ csv = page_pac(rows)

LEMMA LinesNow ==
  ASSUME InputInv
  PROVE  LinesOK(Lines) /\ Lines \in Seq(Packets) /\ Len(Lines) \in Nat
<1>1. LinesOK(Lines)
  BY LinesAreOK DEF InputInv, Lines
<1> QED  BY <1>1 DEF LinesOK

LEMMA StreamType ==
  ASSUME NEW lines \in Seq(Packets)
  PROVE  parse_stream(lines) \in Stats
<1>1. Len(lines) \in Nat /\ \A k \in 1..Len(lines) : LineOK(lines[k])
  BY PacketsAreLines
<1> QED  BY <1>1, ParseType DEF parse_stream

LEMMA WorkerType ==
  ASSUME NEW lines \in Seq(Packets), NEW w \in Nat \ {0}, NEW bare_,
         NEW i \in DOMAIN chunks(lines, w, bare_)
  PROVE  _parse_chunk_worker(lines, chunks(lines, w, bare_)[i], bare_) \in Stats
<1> DEFINE c == chunks(lines, w, bare_)[i]
<1>1. Len(lines) \in Nat
  OBVIOUS
<1>2. c.from \in Nat /\ c.to \in Nat /\ c.from < c.to
  BY <1>1, ChunksAre
<1> HIDE DEF c
<1>3. /\ Len(ChunkLines(lines, c, bare_)) \in Nat
      /\ \A k \in 1..Len(ChunkLines(lines, c, bare_)) : LineOK(ChunkLines(lines, c, bare_)[k])
  BY <1>2, ChunkLinesAre
<1>4. _parse_chunk_worker(lines, c, bare_) \in Stats
  BY <1>3, ParseType DEF _parse_chunk_worker
<1> QED  BY <1>4 DEF c

LEMMA MergedType ==
  ASSUME NEW q, IsFiniteSet(DOMAIN q), \A i \in DOMAIN q : q[i] \in Stats
  PROVE  merged(q) \in Stats
<1>1. ASSUME NEW p \in Pages
      PROVE  /\ Sum([i \in DOMAIN q |-> q[i][p].n], DOMAIN q) \in Nat
             /\ Sum([i \in DOMAIN q |-> q[i][p].lat], DOMAIN q) \in Nat
             /\ Sum([i \in DOMAIN q |-> q[i][p].sve], DOMAIN q) \in Nat
  <2>1. \A i \in DOMAIN q : q[i][p].n \in Nat /\ q[i][p].lat \in Nat /\ q[i][p].sve \in Nat
    BY DEF Stats
  <2> DEFINE a == [i \in DOMAIN q |-> q[i][p].n]  b == [i \in DOMAIN q |-> q[i][p].lat]
             c == [i \in DOMAIN q |-> q[i][p].sve]
  <2>2. \A i \in DOMAIN q : a[i] \in Nat /\ b[i] \in Nat /\ c[i] \in Nat
    BY <2>1
  <2> HIDE DEF a, b, c
  <2>3. Sum(a, DOMAIN q) \in Nat /\ Sum(b, DOMAIN q) \in Nat /\ Sum(c, DOMAIN q) \in Nat
    BY <2>2, SumNat
  <2> QED  BY <2>3 DEF a, b, c
<1> QED  BY <1>1 DEF merged, Stats

LEMMA ChunksNow ==
  ASSUME InputInv, Parallel
  PROVE  /\ workers \in Nat \ {0} /\ DOMAIN Chunks = 1..Len(Chunks)
         /\ Len(Chunks) \in Nat /\ Len(Chunks) >= 2
<1>1. workers \in Nat \ {0} /\ Len(Chunks) >= 2
  BY DEF Parallel, InputInv
<1>2. Len(Lines) \in Nat
  BY LinesNow
<1> QED  BY <1>1, <1>2, ChunksAre DEF Chunks

PipelineInv == InputInv /\ PartsInv /\ CsvInv

LEMMA EmptyStats == NoStats \in Stats
BY DEF NoStats, Stats

LEMMA PipelineInitInv == PipelineInit => PipelineInv
<1> SUFFICES ASSUME PipelineInit  PROVE PipelineInv
  OBVIOUS
<1>1. dump \in Seq(Samples) /\ workers \in Nat
  <2>1. dump \in Dumps /\ Dumps \subseteq Seq(Samples)
    BY PipelineAssumption DEF PipelineInit, Samples
  <2>2. workers \in 0..MaxWorkers /\ MaxWorkers \in Nat
    BY PipelineAssumption DEF PipelineInit
  <2> QED  BY <2>1, <2>2
<1>2. InputInv
  BY <1>1, EmptyStats DEF PipelineInit, InputInv
<1>3. PartsInv /\ CsvInv
  BY DEF PipelineInit, PartsInv, CsvInv
<1> QED  BY <1>2, <1>3 DEF PipelineInv

(* What the dump determines does not change with it. *)
LEMMA InputStays ==
  ASSUME UNCHANGED input
  PROVE  Lines' = Lines /\ Chunks' = Chunks /\ Parallel' = Parallel /\ bare' = bare
BY DEF input, Lines, Chunks, Parallel

LEMMA PartsStay ==
  ASSUME UNCHANGED input, UNCHANGED parts, PoolRan
  PROVE  PoolRan'
BY InputStays DEF PoolRan

LEMMA PipelineNextInv ==
  ASSUME PipelineInv, [PipelineNext]_pipeline
  PROVE  PipelineInv'
<1> USE DEF PipelineInv
<1>1. ASSUME ParseStream  PROVE PipelineInv'
  <2>1. UNCHANGED input /\ UNCHANGED parts /\ csv' = csv /\ stage = "parse" /\ stage' = "parsed"
        /\ stats' = parse_stream(Lines)
    BY <1>1 DEF ParseStream, GoOn
  <2>2. InputInv'
    BY <2>1, LinesNow, StreamType DEF InputInv, input
  <2>3. PartsInv'
    BY <2>1, InputStays DEF PartsInv
  <2> QED  BY <2>1, <2>2, <2>3 DEF CsvInv
<1>2. ASSUME StartPool  PROVE PipelineInv'
  <2>1. UNCHANGED input /\ UNCHANGED parts /\ csv' = csv /\ stage = "parse" /\ stage' = "pool"
        /\ stats' = stats /\ Parallel
    BY <1>2 DEF StartPool, GoOn
  <2>2. parts = <<>> /\ PoolRan
    BY <2>1 DEF PartsInv, PoolRan
  <2>3. PartsInv'
    BY <2>1, <2>2, PartsStay DEF PartsInv
  <2> QED  BY <2>1, <2>3 DEF CsvInv, InputInv, input
<1>3. ASSUME NEW i \in DOMAIN Chunks, ParseChunk(i)  PROVE PipelineInv'
  <2>1. /\ UNCHANGED input /\ csv' = csv /\ stage = "pool" /\ stage' = "pool" /\ stats' = stats
        /\ parts' = [j \in DOMAIN parts \cup {i} |->
                       IF j = i THEN _parse_chunk_worker(Lines, Chunks[i], bare) ELSE parts[j]]
        /\ i \notin DOMAIN parts
    BY <1>3 DEF ParseChunk, GoOn
  <2>2. PoolRan
    BY <2>1 DEF PartsInv
  <2>3. /\ DOMAIN parts' = DOMAIN parts \cup {i}
        /\ parts'[i] = _parse_chunk_worker(Lines, Chunks[i], bare)
        /\ \A j \in DOMAIN parts : parts'[j] = parts[j]
    BY <2>1
  <2>4. PoolRan'
    BY <2>1, <2>2, <2>3, InputStays DEF PoolRan
  <2>5. PartsInv'
    BY <2>1, <2>4 DEF PartsInv
  <2> QED  BY <2>1, <2>5 DEF CsvInv, InputInv, input
<1>4. ASSUME Merge  PROVE PipelineInv'
  <2>1. /\ UNCHANGED input /\ UNCHANGED parts /\ csv' = csv /\ stage = "pool" /\ stage' = "parsed"
        /\ stats' = merged(parts) /\ DOMAIN parts = DOMAIN Chunks
    BY <1>4 DEF Merge, GoOn
  <2>2. PoolRan
    BY <2>1 DEF PartsInv
  <2>3. workers \in Nat \ {0} /\ DOMAIN Chunks = 1..Len(Chunks) /\ Len(Chunks) \in Nat
    BY <2>2, ChunksNow DEF PoolRan
  <2>4. \A i \in DOMAIN parts : parts[i] \in Stats
    <3>1. Lines \in Seq(Packets)
      BY LinesNow
    <3> QED  BY <2>1, <2>2, <2>3, <3>1, WorkerType DEF PoolRan, Chunks
  <2>5. merged(parts) \in Stats
    <3>1. IsFiniteSet(DOMAIN parts)
      BY <2>1, <2>3, FS_Interval
    <3> QED  BY <2>4, <3>1, MergedType
  <2>6. InputInv'
    BY <2>1, <2>5 DEF InputInv, input
  <2>7. PartsInv'
    BY <2>1, <2>2, PartsStay, InputStays DEF PartsInv
  <2> QED  BY <2>1, <2>6, <2>7 DEF CsvInv
<1>5. ASSUME generate_report  PROVE PipelineInv'
  <2>1. /\ stage' = "csv" /\ dump' = <<>> /\ bare' = FALSE /\ workers' = 0 /\ stats' = NoStats
        /\ \E rows \in compute_pac_scores(stats) : csv' = page_pac(rows)
    BY <1>5 DEF generate_report, GoOn
  <2>2. InputInv'
    <3>1. <<>> \in Seq(Samples) /\ FALSE \in BOOLEAN /\ 0 \in Nat
      OBVIOUS
    <3> QED  BY <2>1, <3>1, EmptyStats DEF InputInv
  <2>3. PICK rows \in compute_pac_scores(stats) : csv' = page_pac(rows)
    BY <2>1
  <2>4. stats \in Stats
    BY DEF InputInv
  <2>5. CsvInv'
    BY <2>3, <2>4, ScoresAreRanked DEF CsvInv
  <2>6. PartsInv'
    BY <2>1 DEF PartsInv
  <2> QED  BY <2>2, <2>5, <2>6
<1>6. ASSUME \/ NoRecords \/ \E node \in Nodes : GenerateSizeBased(node)
             \/ \E node \in Nodes : \E log \in Logs : GenerateAllocBased(log, node)
             \/ load_rules
      PROVE  PipelineInv'
  <2>1. /\ UNCHANGED input /\ UNCHANGED parts /\ csv' = csv /\ stats' = stats
        /\ stage' \notin {"parse", "pool", "parsed"}
    BY <1>6 DEF NoRecords, GenerateSizeBased, GenerateAllocBased, load_rules, GoOn
  <2>2. InputInv' /\ PartsInv' /\ CsvInv'
    BY <2>1 DEF InputInv, PartsInv, CsvInv, input
  <2> QED  BY <2>2
<1>7. ASSUME UNCHANGED pipeline  PROVE PipelineInv'
  <2>1. UNCHANGED input /\ UNCHANGED parts /\ csv' = csv /\ stats' = stats /\ stage' = stage
    BY <1>7 DEF pipeline
  <2>2. PartsInv'
    BY <2>1, PartsStay, InputStays DEF PartsInv
  <2> QED  BY <2>1, <2>2 DEF InputInv, CsvInv, input
<1> QED  BY <1>1, <1>2, <1>3, <1>4, <1>5, <1>6, <1>7 DEF PipelineNext

LEMMA PipelineInvHolds == PipelineSpec => []PipelineInv
BY PipelineInitInv, PipelineNextInv, PTL DEF PipelineSpec

LEMMA CsvCovers ==
  ASSUME PipelineInv
  PROVE  HotPagesCover
<1> SUFFICES ASSUME csv # <<>>  PROVE Covers(csv)
  BY DEF HotPagesCover, Covers, InTiers, BetterThan
<1>1. PICK rows : Ranking(rows) /\ csv = page_pac(rows)
  BY DEF PipelineInv, CsvInv
<1> QED  BY <1>1, HotRowsCover

(* detect_knee cumulates accesses from the best page on: the pages that    *)
(* its thresholds make hot have 80 percent of them at least, with the warm *)
(* ones 95, and the pages that score more would not have done.             *)
THEOREM HotPagesSuffice == PipelineSpec => []HotPagesCover
BY PipelineInvHolds, CsvCovers, PTL

-----------------------------------------------------------------------------
(* From scores to routing *)

(* Blocks of which a configuration is made. *)
Blocks(found) == IsFiniteSet(found) /\ \A a \in found : a.size \in Nat /\ a.size >= PageUnits

LEMMA GreatestIsMax ==
  ASSUME NEW S \in SUBSET Nat, IsFiniteSet(S), S # {}
  PROVE  Max(S) \in S /\ \A x \in S : x <= Max(S)
<1>1. S \in SUBSET Int /\ Cardinality(S) \in Nat \ {0}
  BY FS_CardinalityType, FS_EmptySet
<1> DEFINE b == InOrder(S)  n == Cardinality(S)
<1>2. /\ \A k \in 1..n : b[k] \in S
      /\ \A j, k \in 1..n : j < k => b[j] < b[k]
      /\ \A x \in S : \E k \in 1..n : b[k] = x
  BY <1>1, Sorted
<1> HIDE DEF b, n
<1>3. n \in 1..n /\ b[n] \in S
  BY <1>1, <1>2 DEF n
<1>4. \A x \in S : x <= b[n]
  <2> TAKE x \in S
  <2>1. PICK k \in 1..n : b[k] = x
    BY <1>2
  <2>2. k = n \/ k < n
    BY <1>1, <2>1 DEF n
  <2>3. b[k] <= b[n]
    <3>1. b[k] \in Int /\ b[n] \in Int
      BY <1>1, <1>3, <2>1
    <3>2. k < n => b[k] < b[n]
      BY <1>2, <1>3, <2>1
    <3> QED  BY <2>2, <3>1, <3>2
  <2> QED  BY <2>1, <2>3
<1>5. \E y \in S : \A x \in S : y >= x
  BY <1>3, <1>4
<1>6. Max(S) \in S /\ \A x \in S : Max(S) >= x
  BY <1>5 DEF Max
<1> QED  BY <1>6

LEMMA SizesAre ==
  ASSUME NEW found, Blocks(found), NEW tier
  PROVE  /\ IsFiniteSet(Sizes(found, tier)) /\ Sizes(found, tier) \in SUBSET Nat
         /\ \A s \in Sizes(found, tier) : s >= PageUnits
<1> DEFINE T == {b \in found : b.tier = tier}  f == [a \in T |-> a.size]
<1>1. IsFiniteSet(T)
  BY FS_Subset DEF Blocks
<1>2. Sizes(found, tier) = {f[a] : a \in T}
  BY DEF Sizes
<1>3. \A a \in T : f[a] \in Nat /\ f[a] >= PageUnits
  BY DEF Blocks
<1> HIDE DEF f, T
<1>4. IsFiniteSet(Sizes(found, tier))
  BY <1>1, <1>2, FiniteImage
<1> QED  BY <1>2, <1>3, <1>4

LEMMA CorrelatedAreBlocks ==
  ASSUME NEW log \in Logs, NEW rows
  PROVE  Blocks(cross_correlate(rows, log))
<1> DEFINE T == {b \in ToSet(log) : b.type # 0 /\ b.size >= PageUnits}
           f == [a \in T |-> [size |-> a.size, tier |-> TierOf(rows, a)]]
<1> DEFINE Calls == [addr : Nat, size : Nat, type : Nat]
<1>1. log \in Seq(Calls)
  BY PipelineAssumption
<1>a. Len(log) \in Nat /\ DOMAIN log = 1..Len(log) /\ \A k \in 1..Len(log) : log[k] \in Calls
  <2> HIDE DEF Calls
  <2> QED  BY <1>1
<1>2. ToSet(log) = {log[k] : k \in 1..Len(log)} /\ Len(log) \in Nat
  BY <1>a DEF ToSet
<1>3. IsFiniteSet(ToSet(log))
  <2>1. IsFiniteSet(1..Len(log))
    BY <1>2, FS_Interval
  <2> QED  BY <1>2, <2>1, FiniteImage
<1>4. IsFiniteSet(T)
  BY <1>3, FS_Subset
<1>5. cross_correlate(rows, log) = {f[a] : a \in T}
  BY DEF cross_correlate
<1>6. \A a \in T : f[a].size \in Nat /\ f[a].size >= PageUnits
  <2>1. \A a \in ToSet(log) : a.size \in Nat
    BY <1>a, <1>2
  <2> QED  BY <2>1
<1> HIDE DEF f, T
<1>7. IsFiniteSet(cross_correlate(rows, log))
  BY <1>4, <1>5, FiniteImage
<1> QED  BY <1>5, <1>6, <1>7 DEF Blocks

(* What the routing depends on, from the time pac_to_interc has run. *)
ConfInv ==
  /\ Blocks(alloc_pac)
  /\ stage \in {"parse", "pool", "parsed", "failed", "csv"} => alloc_pac = {}
  /\ stage \in {"conf", "run"} =>
       /\ fast_node \in Nodes
       /\ \/ conf = generate_interc_conf_alloc_based(alloc_pac, fast_node)
          \/ alloc_pac = {} /\ \A k \in DOMAIN conf : conf[k].kind = "size_gt"
  /\ stage = "run" => size_rules = SizeRules(conf)

LEMMA ConfInit == PipelineInit => ConfInv
<1>1. Blocks({})
  BY FS_EmptySet DEF Blocks
<1> QED  BY <1>1 DEF PipelineInit, ConfInv

LEMMA ConfNext ==
  ASSUME ConfInv, [PipelineNext]_pipeline
  PROVE  ConfInv'
<1>1. ASSUME UNCHANGED <<generated, size_rules>>,
             \/ stage' = stage
             \/ stage' \in {"parse", "pool", "parsed", "failed", "csv"}
                /\ stage \in {"parse", "pool", "parsed", "failed", "csv"}
      PROVE  ConfInv'
  BY <1>1 DEF ConfInv, generated
<1>2. ASSUME \/ ParseStream \/ StartPool \/ Merge \/ generate_report \/ NoRecords
             \/ \E i \in DOMAIN Chunks : ParseChunk(i)
      PROVE  ConfInv'
  BY <1>1, <1>2 DEF ParseStream, StartPool, Merge, generate_report, NoRecords, ParseChunk, GoOn
<1>3. ASSUME NEW node \in Nodes, GenerateSizeBased(node)  PROVE ConfInv'
  <2>1. /\ stage = "csv" /\ stage' = "conf" /\ alloc_pac' = alloc_pac /\ fast_node' = node
        /\ conf' = generate_interc_conf_size_based(aggregate_page_ranges(csv), node)
    BY <1>3 DEF GenerateSizeBased, GoOn
  <2>2. \A k \in DOMAIN conf' : conf'[k].kind = "size_gt"
    BY <2>1 DEF generate_interc_conf_size_based, Line
  <2> QED  BY <2>1, <2>2 DEF ConfInv
<1>4. ASSUME NEW node \in Nodes, NEW log \in Logs, GenerateAllocBased(log, node)  PROVE ConfInv'
  <2>1. /\ stage = "csv" /\ stage' = "conf" /\ alloc_pac' = cross_correlate(csv, log)
        /\ fast_node' = node /\ conf' = generate_interc_conf_alloc_based(alloc_pac', node)
    BY <1>4 DEF GenerateAllocBased, GoOn
  <2>2. Blocks(alloc_pac')
    BY <2>1, CorrelatedAreBlocks
  <2> QED  BY <2>1, <2>2 DEF ConfInv
<1>5. ASSUME load_rules  PROVE ConfInv'
  <2>1. stage = "conf" /\ stage' = "run" /\ UNCHANGED generated /\ size_rules' = SizeRules(conf)
    BY <1>5 DEF load_rules, GoOn
  <2>2. size_rules' = SizeRules(conf)'
    BY <2>1 DEF generated, SizeRules
  <2> QED  BY <2>1, <2>2 DEF ConfInv, generated
<1>6. ASSUME UNCHANGED pipeline  PROVE ConfInv'
  BY <1>1, <1>6 DEF pipeline
<1> QED  BY <1>2, <1>3, <1>4, <1>5, <1>6 DEF PipelineNext

LEMMA NothingMatches ==
  ASSUME NEW layer2 \in BOOLEAN, NEW rules, NEW sz, rules = <<>>
  PROVE  resolve_node(layer2, rules, <<>>, sz, 0, 0, 0) = NoMatch
<1>1. match_size(rules, sz) = NoMatch /\ match_addr(<<>>, 0) = NoMatch
  BY DEF match_size, match_addr, FirstMatch
<1>2. ~(NoMatch >= 0)
  BY DEF NoMatch
<1> QED  BY <1>1, <1>2 DEF resolve_node

LEMMA OneRuleMatches ==
  ASSUME NEW r, r.min_size \in Nat \ {0}, r.max_size \in Nat \ {0}, r.node \in Int,
         r.node >= 0 \/ r.node = LocalNode, NEW sz \in Nat
  PROVE  resolve_node(TRUE, <<r>>, <<>>, sz, 0, 0, 0) =
           IF r.node >= 0 /\ r.min_size <= sz /\ sz < r.max_size THEN r.node ELSE NoMatch
<1>1. match_addr(<<>>, 0) = NoMatch /\ ~(NoMatch >= 0) /\ ~(LocalNode >= 0)
  BY DEF match_addr, FirstMatch, NoMatch, LocalNode
<1>2. SizeInRule(r, sz) <=> r.min_size <= sz /\ sz < r.max_size
  BY DEF SizeInRule
<1>3. match_size(<<r>>, sz) = IF SizeInRule(r, sz) THEN r.node ELSE NoMatch
  <2> DEFINE hits == {i \in DOMAIN <<r>> : SizeInRule(<<r>>[i], sz)}
  <2>1. match_size(<<r>>, sz) = IF hits = {} THEN NoMatch ELSE <<r>>[Min(hits)].node
    BY DEF match_size, FirstMatch
  <2>2. hits = IF SizeInRule(r, sz) THEN {1} ELSE {}
    OBVIOUS
  <2> HIDE DEF hits
  <2>3. {1} \in SUBSET Nat /\ {1} # {}
    OBVIOUS
  <2>4. Min({1}) = 1
    BY <2>3, LeastIsMin
  <2> QED  BY <2>1, <2>2, <2>4
<1>4. CASE r.node >= 0 /\ SizeInRule(r, sz)
  <2>1. r.node # LocalNode
    BY <1>1, <1>4
  <2> QED  BY <1>2, <1>3, <1>4, <2>1 DEF resolve_node, resolve_node_relative
<1>5. CASE ~(r.node >= 0 /\ SizeInRule(r, sz))
  <2>1. ~(match_size(<<r>>, sz) >= 0)
    BY <1>1, <1>3, <1>5
  <2> QED  BY <1>1, <1>2, <1>5, <2>1 DEF resolve_node
<1> QED  BY <1>4, <1>5

LEMMA RulesOfRange ==
  ASSUME NEW lo, NEW hi, NEW node
  PROVE  SizeRules(<<Line("size_range", lo, hi, node)>>) =
           <<[min_size |-> lo, max_size |-> hi, node |-> NodeOf(Line("size_range", lo, hi, node))]>>
<1> DEFINE l == Line("size_range", lo, hi, node)
           taken == InOrder({k \in DOMAIN <<l>> : <<l>>[k].kind = "size_range"})
<1>1. l.kind = "size_range" /\ l.lo = lo /\ l.hi = hi
  BY DEF Line
<1> HIDE DEF l
<1>2. {k \in DOMAIN <<l>> : <<l>>[k].kind = "size_range"} = {1}
  BY <1>1
<1>3. taken = InOrder({1}) /\ {1} \in SUBSET Int /\ IsFiniteSet({1}) /\ Cardinality({1}) = 1
  <2>1. IsFiniteSet({1}) /\ Cardinality({1}) = 1
    BY FS_Singleton
  <2>2. {1} \in SUBSET Int
    OBVIOUS
  <2>3. taken = InOrder({1})
    BY <1>2
  <2> QED  BY <2>1, <2>2, <2>3
<1>4. DOMAIN taken = 1..1 /\ \A k \in 1..1 : taken[k] \in {1}
  <2> HIDE DEF taken
  <2> QED  BY <1>3, Sorted
<1>5. DOMAIN taken = {1} /\ taken[1] = 1
  BY <1>4
<1>6. SizeRules(<<l>>) = [k \in DOMAIN taken |-> [min_size |-> <<l>>[taken[k]].lo,
                            max_size |-> <<l>>[taken[k]].hi, node |-> NodeOf(<<l>>[taken[k]])]]
  BY DEF SizeRules
<1> HIDE DEF taken
<1>7. SizeRules(<<l>>) = [k \in 1..1 |-> [min_size |-> lo, max_size |-> hi, node |-> NodeOf(l)]]
  BY <1>1, <1>5, <1>6
<1> QED  BY <1>7 DEF l

LEMMA RulesOfNone ==
  ASSUME NEW lines, \A k \in DOMAIN lines : lines[k].kind = "size_gt"
  PROVE  SizeRules(lines) = <<>>
<1> DEFINE taken == InOrder({k \in DOMAIN lines : lines[k].kind = "size_range"})
<1>1. {k \in DOMAIN lines : lines[k].kind = "size_range"} = {}
  OBVIOUS
<1>2. {} \in SUBSET Int /\ IsFiniteSet({}) /\ Cardinality({}) = 0
  BY FS_EmptySet
<1>3. DOMAIN taken = {}
  <2>1. DOMAIN InOrder({}) = 1..0
    BY <1>2, Sorted
  <2> QED  BY <1>1, <2>1
<1> HIDE DEF taken
<1>4. SizeRules(lines) = [k \in DOMAIN taken |-> [min_size |-> lines[taken[k]].lo,
                            max_size |-> lines[taken[k]].hi, node |-> NodeOf(lines[taken[k]])]]
  BY DEF SizeRules, taken
<1> QED  BY <1>3, <1>4

(* Where the code sends each size.                                         *)
LEMMA ConfRoutes ==
  ASSUME ConfInv, stage = "run", NEW sz \in 1..MaxSize
  PROVE  malloc(sz) = IF /\ fast_node # LocalWord /\ Hot # {} /\ sz > ROUTE_THRESHOLD
                         /\ Min(Hot) <= sz /\ sz < Max(Hot)
                      THEN fast_node ELSE NoMatch
<1>0. sz \in Nat /\ fast_node \in Nodes /\ size_rules = SizeRules(conf) /\ Blocks(alloc_pac)
  BY PipelineAssumption DEF ConfInv
<1>1. CASE Hot = {}
  <2>1. \A k \in DOMAIN conf : conf[k].kind = "size_gt"
    <3>1. generate_interc_conf_alloc_based(alloc_pac, fast_node) = <<>>
      BY <1>1 DEF Hot, generate_interc_conf_alloc_based
    <3> QED  BY <3>1 DEF ConfInv
  <2>2. size_rules = <<>>
    BY <1>0, <2>1, RulesOfNone
  <2>3. (conf # <<>>) \in BOOLEAN
    OBVIOUS
  <2>4. resolve_node(conf # <<>>, size_rules, <<>>, sz, 0, 0, 0) = NoMatch
    BY <2>2, <2>3, NothingMatches
  <2> QED  BY <1>1, <2>4 DEF malloc
<1>2. CASE Hot # {}
  <2> DEFINE lo == Min(Hot)  hi == Max(Hot)  l == Line("size_range", lo, hi, fast_node)
             r == [min_size |-> lo, max_size |-> hi, node |-> NodeOf(l)]
  <2>1. /\ IsFiniteSet(Hot) /\ Hot \in SUBSET Nat /\ \A s \in Hot : s >= PageUnits
    BY <1>0, SizesAre DEF Hot
  <2>2. lo \in Hot /\ hi \in Hot
    BY <1>2, <2>1, LeastIsMin, GreatestIsMax
  <2>3. lo \in Nat \ {0} /\ hi \in Nat \ {0}
    <3> HIDE DEF lo, hi
    <3> QED  BY <2>1, <2>2 DEF PageUnits
  <2>4. conf = <<l>>
    <3>1. alloc_pac # {}
      BY <1>2 DEF Hot, Sizes
    <3> QED  BY <1>2, <3>1 DEF ConfInv, Hot, generate_interc_conf_alloc_based
  <2> HIDE DEF lo, hi
  <2>5. size_rules = <<r>> /\ conf # <<>>
    <3>1. size_rules = SizeRules(<<l>>)
      BY <1>0, <2>4
    <3>2. conf # <<>>
      BY <2>4
    <3> QED  BY <3>1, <3>2, RulesOfRange
  <2>6. l.node = fast_node
    BY DEF Line
  <2>7. r.min_size = lo /\ r.max_size = hi /\ r.node = IF fast_node = LocalWord THEN LocalNode ELSE fast_node
    BY <2>6 DEF NodeOf
  <2>8. /\ r.node \in Int /\ (r.node >= 0 \/ r.node = LocalNode)
        /\ r.node >= 0 <=> fast_node # LocalWord
    BY <1>0, <2>7, PipelineAssumption DEF LocalNode
  <2> HIDE DEF r, l
  <2>9. resolve_node(TRUE, <<r>>, <<>>, sz, 0, 0, 0) =
          IF r.node >= 0 /\ lo <= sz /\ sz < hi THEN r.node ELSE NoMatch
    BY <1>0, <2>3, <2>7, <2>8, OneRuleMatches
  <2>10. malloc(sz) = IF sz > ROUTE_THRESHOLD THEN resolve_node(TRUE, <<r>>, <<>>, sz, 0, 0, 0) ELSE NoMatch
    BY <2>5 DEF malloc
  <2> HIDE DEF ROUTE_THRESHOLD
  <2> QED  BY <1>2, <2>7, <2>8, <2>9, <2>10 DEF lo, hi
<1> QED  BY <1>1, <1>2

LEMMA ConfHotSized ==
  ASSUME ConfInv
  PROVE  RoutedAreHotSized
<1> SUFFICES ASSUME stage = "run", fast_node # LocalWord, NEW sz \in 1..MaxSize
             PROVE  /\ malloc(sz) \in {NoMatch, fast_node}
                    /\ malloc(sz) = fast_node =>
                         /\ sz > ROUTE_THRESHOLD /\ Hot # {}
                         /\ Min(Hot) <= sz /\ sz <= Max(Hot)
                    /\ sz \in Hot /\ sz > ROUTE_THRESHOLD /\ sz < Max(Hot) => malloc(sz) = fast_node
  BY DEF RoutedAreHotSized
<1>1. fast_node # NoMatch
  BY PipelineAssumption DEF ConfInv, NoMatch
<1>2. malloc(sz) = IF /\ Hot # {} /\ sz > ROUTE_THRESHOLD /\ Min(Hot) <= sz /\ sz < Max(Hot)
                   THEN fast_node ELSE NoMatch
  BY ConfRoutes
<1>3. IsFiniteSet(Hot) /\ Hot \in SUBSET Nat
  BY SizesAre DEF ConfInv, Hot
<1>4. Hot # {} => Max(Hot) \in Nat /\ \A s \in Hot : Min(Hot) <= s
  BY <1>3, LeastIsMin, GreatestIsMax
<1>5. sz \in Nat
  BY PipelineAssumption
<1> HIDE DEF malloc, Hot, ROUTE_THRESHOLD
<1> QED  BY <1>1, <1>2, <1>4, <1>5

(* What load_rules takes from the configuration sends to a numbered fast   *)
(* node every hot size above the threshold but the largest, nothing        *)
(* smaller or larger than the hot ones, and nothing anywhere else          *)
(* (generate_interc_conf_alloc_based, match_size).                         *)
THEOREM RoutingIsHotSized == PipelineSpec => []RoutedAreHotSized
<1>1. PipelineSpec => []ConfInv
  BY ConfInit, ConfNext, PTL DEF PipelineSpec
<1> QED  BY <1>1, ConfHotSized, PTL

-----------------------------------------------------------------------------
(* The ranges of a tier *)

Table(c) ==
  /\ DOMAIN c = 1..Len(c) /\ Len(c) \in Nat \ {0}
  /\ \A k \in 1..Len(c) : c[k].page \in Nat /\ c[k].n \in Nat \ {0}
  /\ Distinct(c)

LEMMA CsvIsTable ==
  ASSUME NEW rows, Ranking(rows), Distinct(rows)
  PROVE  Table(page_pac(rows))
<1>1. /\ DOMAIN page_pac(rows) = 1..Len(rows) /\ Len(page_pac(rows)) = Len(rows)
      /\ \A k \in 1..Len(rows) :
            page_pac(rows)[k].page = rows[k].page /\ page_pac(rows)[k].n = rows[k].n
  BY RowsAreTiered
<1>2. Len(rows) \in Nat \ {0} /\ \A k \in 1..Len(rows) : rows[k].page \in Nat /\ rows[k].n \in Nat \ {0}
  BY DEF Ranking, RowOK
<1>3. Distinct(page_pac(rows))
  BY <1>1 DEF Distinct
<1> QED  BY <1>1, <1>2, <1>3 DEF Table

LEMMA AccessesGrow ==
  ASSUME NEW c, Table(c), NEW K \in SUBSET (1..Len(c)), NEW i \in (1..Len(c)) \ K
  PROVE  /\ AccessesAt(c, K \cup {i}) = AccessesAt(c, K) + c[i].n
         /\ AccessesAt(c, K) \in Nat
<1> DEFINE N == Len(c)  f == [k \in 1..N |-> c[k].n]
<1>0. N \in Nat /\ DOMAIN c = 1..N /\ \A k \in 1..N : c[k].n \in Nat \ {0}
  BY DEF Table
<1>1. \A J \in SUBSET (1..N) : IsFiniteSet(J)
  <2>1. IsFiniteSet(1..N)
    BY <1>0, FS_Interval
  <2> QED  BY <2>1, FS_Subset
<1>2. \A k \in 1..N : f[k] \in Nat
  BY <1>0
<1>3. \A J \in SUBSET (1..N) : AccessesAt(c, J) = Sum(f, J)
  <2> TAKE J \in SUBSET (1..N)
  <2>1. \A k \in J : [m \in J |-> c[m].n][k] = f[k]
    OBVIOUS
  <2> QED  BY <1>1, <2>1, SumCongruence DEF AccessesAt
<1>4. f[i] = c[i].n
  OBVIOUS
<1> HIDE DEF f
<1>5. K \cup {i} \in SUBSET (1..N) /\ (K \cup {i}) \ {i} = K /\ i \in K \cup {i}
  OBVIOUS
<1>6. IsFiniteSet(K \cup {i}) /\ \A x \in K \cup {i} : f[x] \in Int
  BY <1>1, <1>2, <1>5
<1>7. Sum(f, K \cup {i}) = f[i] + Sum(f, K)
  <2> DEFINE L == K \cup {i}
  <2>1. L \ {i} = K /\ i \in L /\ IsFiniteSet(L) /\ \A x \in L : f[x] \in Int
    BY <1>5, <1>6
  <2> HIDE DEF L
  <2>2. Sum(f, L) = f[i] + Sum(f, L \ {i})
    BY <2>1, SumRemove
  <2> QED  BY <2>1, <2>2 DEF L
<1>8. Sum(f, K) \in Nat
  BY <1>1, <1>2, SumNat
<1>9. f[i] \in Nat
  BY <1>2
<1> QED  BY <1>3, <1>4, <1>5, <1>7, <1>8, <1>9

(* Rows of a tier with these pages *)
RowsAt(c, t, Q) == {k \in DOMAIN c : c[k].tier = t /\ c[k].page \in Q}

(* The only row of a page. *)
OnlyRow(c, t, p, k) ==
  c[k] = RowOf(c, p) /\ c[k].page = p /\ c[k].tier = t /\ RowsAt(c, t, {p}) = {k}

LEMMA RowIsThere ==
  ASSUME NEW c, Table(c), NEW t, NEW p \in TierPages(c, t)
  PROVE  \E k \in 1..Len(c) : OnlyRow(c, t, p, k)
<1>1. PICK k \in 1..Len(c) : c[k].tier = t /\ c[k].page = p
  BY DEF TierPages, Table
<1>2. \A j \in 1..Len(c) : c[j].page = p => j = k
  BY <1>1 DEF Table, Distinct
<1>3. RowOf(c, p) = c[k]
  <2>1. (CHOOSE j \in DOMAIN c : c[j].page = p) = k
    BY <1>1, <1>2 DEF Table
  <2> QED  BY <2>1 DEF RowOf
<1>4. RowsAt(c, t, {p}) = {k}
  BY <1>1, <1>2 DEF RowsAt, Table
<1> QED  BY <1>1, <1>3, <1>4 DEF OnlyRow

LEMMA RowOfPage ==
  ASSUME NEW c, Table(c), NEW t, NEW p \in TierPages(c, t)
  PROVE  p \in Nat /\ RowOf(c, p).page = p /\ RowOf(c, p).tier = t /\ RowOf(c, p).n \in Nat
<1>1. PICK k \in 1..Len(c) : OnlyRow(c, t, p, k)
  BY RowIsThere
<1> QED  BY <1>1 DEF OnlyRow, Table

LEMMA AfterPagesIs ==
  ASSUME NEW c, NEW b, NEW n \in Nat \ {0}, DOMAIN b = 1..n
  PROVE  /\ AfterPages(c, b)[1] = [done |-> {}, now |-> NewRange(RowOf(c, b[1]))]
         /\ \A k \in 2..n : AfterPages(c, b)[k] = Extend(AfterPages(c, b)[k - 1], RowOf(c, b[k]))
<1> DEFINE First == [done |-> {}, now |-> NewRange(RowOf(c, b[1]))]
           Is(g, m) == g = [k \in 1..m |-> IF k = 1 THEN First ELSE Extend(g[k - 1], RowOf(c, b[k]))]
           Bad == {m \in Nat : ~\E g : Is(g, m)}
<1> HIDE DEF First
<1>1. Bad = {}
  <2>1. SUFFICES ASSUME Bad # {}  PROVE FALSE
    OBVIOUS
  <2>2. PICK m \in Bad : \A j \in Bad : m <= j
    BY <2>1, LeastNatural
  <2>3. m \in Nat /\ ~\E g : Is(g, m)
    BY <2>2
  <2>4. m # 0
    <3>1. Is([k \in 1..0 |-> First], 0)
      BY SMT
    <3> QED  BY <2>3, <3>1
  <2>5. m - 1 \in Nat /\ m - 1 \notin Bad
    <3> HIDE DEF Bad
    <3> QED  BY <2>2, <2>3, <2>4
  <2>6. PICK h : Is(h, m - 1)
    BY <2>5
  <2> DEFINE g == [k \in 1..m |-> IF k = 1 THEN First ELSE Extend(h[k - 1], RowOf(c, b[k]))]
  <2>7. \A k \in 1..m - 1 : g[k] = h[k]
    BY <2>6, <2>3
  <2>8. Is(g, m)
    <3>1. \A k \in 1..m : k # 1 => k - 1 \in 1..m - 1
      BY <2>3
    <3>2. \A k \in 1..m : k # 1 => g[k - 1] = h[k - 1]
      BY <2>7, <3>1
    <3> QED  BY <3>2
  <2> QED  BY <2>8, <2>3
<1>2. PICK g : Is(g, n)
  BY <1>1
<1> DEFINE A == AfterPages(c, b)
<1>3. A = CHOOSE f : Is(f, n)
  BY DEF AfterPages, First
<1>4. Is(A, n)
  BY <1>2, <1>3
<1> HIDE DEF A
<1>5. 1 \in 1..n /\ \A k \in 2..n : k \in 1..n /\ k # 1
  OBVIOUS
<1>6. A[1] = First /\ \A k \in 2..n : A[k] = Extend(A[k - 1], RowOf(c, b[k]))
  BY <1>4, <1>5
<1> QED  BY <1>6 DEF A, First

Ranges(t) == [start : Nat, end : Nat, tier : {t}, pages : Nat, n : Nat]

RangeOK(c, t, r) ==
  /\ r \in Ranges(t) /\ r.start < r.end /\ r.pages = r.end - r.start
  /\ r.start..r.end - 1 \subseteq TierPages(c, t)
  /\ r.n = AccessesAt(c, RowsAt(c, t, r.start..r.end - 1))

(* The ranges after the k-th page of a tier. *)
Grouped(c, t, b, k, st) ==
  /\ \A r \in st.done \cup {st.now} : RangeOK(c, t, r)
  /\ st.now.end = b[k] + 1
  /\ \A r \in st.done : r.end < st.now.start
  /\ \A r, s \in st.done : r # s => r.end < s.start \/ s.end < r.start
  /\ \A j \in 1..k : \E r \in st.done \cup {st.now} : b[j] \in r.start..r.end - 1

LEMMA NewRangeOK ==
  ASSUME NEW c, Table(c), NEW t, NEW p \in TierPages(c, t)
  PROVE  /\ RangeOK(c, t, NewRange(RowOf(c, p)))
         /\ NewRange(RowOf(c, p)).start = p /\ NewRange(RowOf(c, p)).end = p + 1
<1> DEFINE r == NewRange(RowOf(c, p))
<1>1. p \in Nat /\ RowOf(c, p).page = p /\ RowOf(c, p).tier = t /\ RowOf(c, p).n \in Nat
  BY RowOfPage
<1>2. r = [start |-> p, end |-> p + 1, tier |-> t, pages |-> 1, n |-> RowOf(c, p).n]
  BY <1>1 DEF NewRange
<1>0. PICK k \in 1..Len(c) : OnlyRow(c, t, p, k)
  BY RowIsThere
<1>3. c[k] = RowOf(c, p) /\ RowsAt(c, t, {p}) = {k}
  BY <1>0 DEF OnlyRow
<1>4. AccessesAt(c, {k}) = c[k].n
  <2>1. AccessesAt(c, {}) = 0
    BY SumEmpty DEF AccessesAt
  <2>2. {} \cup {k} = {k} /\ k \in (1..Len(c)) \ {} /\ {} \in SUBSET (1..Len(c))
    OBVIOUS
  <2>3. AccessesAt(c, {} \cup {k}) = AccessesAt(c, {}) + c[k].n
    BY <2>2, AccessesGrow
  <2> QED  BY <1>1, <1>3, <2>1, <2>2, <2>3
<1>5. p..(p + 1) - 1 = {p}
  BY <1>1
<1> HIDE DEF r
<1>6. /\ r \in Ranges(t) /\ r.start = p /\ r.end = p + 1 /\ r.pages = 1 /\ r.n = RowOf(c, p).n
  BY <1>1, <1>2 DEF Ranges
<1>7. r.n = AccessesAt(c, RowsAt(c, t, r.start..r.end - 1))
  BY <1>3, <1>4, <1>5, <1>6
<1>8. RangeOK(c, t, r)
  BY <1>1, <1>5, <1>6, <1>7 DEF RangeOK
<1> QED  BY <1>6, <1>8 DEF r

LEMMA RangeGrows ==
  ASSUME NEW c, Table(c), NEW t, NEW r, RangeOK(c, t, r), r.end \in TierPages(c, t)
  PROVE  LET row == RowOf(c, r.end)
             s == Longer(r, row)
         IN  RangeOK(c, t, s) /\ s.start = r.start /\ s.end = r.end + 1
<1> DEFINE p == r.end  row == RowOf(c, p)
           s == Longer(r, row)
           Q == r.start..p - 1
<1>1. p \in Nat /\ row.n \in Nat
  BY RowOfPage
<1>0. PICK k \in 1..Len(c) : OnlyRow(c, t, p, k)
  BY RowIsThere
<1>2. c[k] = row /\ RowsAt(c, t, {p}) = {k}
  BY <1>0 DEF OnlyRow
<1>3. /\ r \in Ranges(t) /\ r.start \in Nat /\ r.start < p /\ r.pages = p - r.start
      /\ Q \subseteq TierPages(c, t)
      /\ r.n = AccessesAt(c, RowsAt(c, t, Q)) /\ r.n \in Nat
  BY DEF RangeOK, Ranges
<1>4. r.start..(p + 1) - 1 = Q \cup {p} /\ p \notin Q
  BY <1>1, <1>3
<1>5. RowsAt(c, t, Q \cup {p}) = RowsAt(c, t, Q) \cup {k}
  BY <1>2 DEF RowsAt
<1>6. k \notin RowsAt(c, t, Q)
  <2>1. k \in RowsAt(c, t, {p})
    BY <1>2
  <2> QED  BY <1>4, <2>1 DEF RowsAt
<1>7. RowsAt(c, t, Q) \in SUBSET (1..Len(c))
  BY DEF RowsAt, Table
<1>8. AccessesAt(c, RowsAt(c, t, Q \cup {p})) = r.n + row.n
  <2> DEFINE K == RowsAt(c, t, Q)
  <2>1. K \in SUBSET (1..Len(c)) /\ k \in (1..Len(c)) \ K
    BY <1>6, <1>7
  <2> HIDE DEF K
  <2>2. AccessesAt(c, K \cup {k}) = AccessesAt(c, K) + c[k].n
    BY <2>1, AccessesGrow
  <2> QED  BY <1>2, <1>3, <1>5, <2>2 DEF K
<1>9. s \in Ranges(t) /\ s.start = r.start /\ s.end = p + 1 /\ s.pages = r.pages + 1 /\ s.n = r.n + row.n
  <2>2. r.pages \in Nat
    BY <1>3 DEF Ranges
  <2> HIDE DEF row
  <2>3. s = [start |-> r.start, end |-> p + 1, tier |-> t, pages |-> r.pages + 1, n |-> r.n + row.n]
    BY <1>3 DEF Longer, Ranges
  <2> HIDE DEF s
  <2> QED  BY <1>1, <1>3, <2>2, <2>3 DEF Ranges
<1> HIDE DEF s, Q, row
<1>10. RangeOK(c, t, s)
  <2>1. s.n = AccessesAt(c, RowsAt(c, t, s.start..s.end - 1))
    BY <1>4, <1>8, <1>9
  <2>2. s.start..s.end - 1 \subseteq TierPages(c, t)
    BY <1>3, <1>4, <1>9
  <2>3. s.start < s.end /\ s.pages = s.end - s.start
    BY <1>1, <1>3, <1>9
  <2> QED  BY <1>9, <2>1, <2>2, <2>3 DEF RangeOK
<1> QED  BY <1>9, <1>10 DEF s, row

LEMMA PagesInOrder ==
  ASSUME NEW c, Table(c), NEW t, TierPages(c, t) # {}
  PROVE  LET b == InOrder(TierPages(c, t))
         IN  /\ Len(b) \in Nat \ {0} /\ DOMAIN b = 1..Len(b)
             /\ \A k \in 1..Len(b) : b[k] \in TierPages(c, t) /\ b[k] \in Nat
             /\ \A j, k \in 1..Len(b) : j < k => b[j] < b[k]
             /\ \A p \in TierPages(c, t) : \E k \in 1..Len(b) : b[k] = p
<1> DEFINE P == TierPages(c, t)  b == InOrder(P)  K == {j \in DOMAIN c : c[j].tier = t}
           f == [k \in K |-> c[k].page]
<1>1. IsFiniteSet(1..Len(c))
  BY FS_Interval DEF Table
<1>2. IsFiniteSet(K)
  BY <1>1, FS_Subset DEF Table
<1>3. P = {f[k] : k \in K}
  BY DEF TierPages
<1>4. \A k \in K : f[k] \in Nat
  BY DEF Table
<1> HIDE DEF f, K
<1>5. IsFiniteSet(P) /\ P \in SUBSET Nat
  BY <1>2, <1>3, <1>4, FiniteImage
<1>6. P \in SUBSET Int /\ P # {} /\ Cardinality(P) \in Nat \ {0}
  BY <1>5, FS_CardinalityType, FS_EmptySet
<1> HIDE DEF P
<1>7. /\ Len(b) = Cardinality(P) /\ DOMAIN b = 1..Cardinality(P)
      /\ \A k \in 1..Cardinality(P) : b[k] \in P
      /\ \A j, k \in 1..Cardinality(P) : j < k => b[j] < b[k]
      /\ \A p \in P : \E k \in 1..Cardinality(P) : b[k] = p
  BY <1>5, <1>6, Sorted
<1> HIDE DEF b
<1>8. \A k \in 1..Len(b) : b[k] \in Nat
  BY <1>5, <1>7
<1> QED  BY <1>6, <1>7, <1>8 DEF P, b

LEMMA GroupsStart ==
  ASSUME NEW c, Table(c), NEW t, NEW b, b[1] \in TierPages(c, t)
  PROVE  Grouped(c, t, b, 1, [done |-> {}, now |-> NewRange(RowOf(c, b[1]))])
<1> DEFINE r == NewRange(RowOf(c, b[1]))
<1>1. RangeOK(c, t, r) /\ r.start = b[1] /\ r.end = b[1] + 1 /\ b[1] \in Nat
  BY NewRangeOK, RowOfPage
<1> HIDE DEF r
<1>2. \A j \in 1..1 : b[j] \in r.start..r.end - 1
  BY <1>1
<1>3. Grouped(c, t, b, 1, [done |-> {}, now |-> r])
  BY <1>1, <1>2 DEF Grouped
<1> QED  BY <1>3 DEF r

LEMMA GroupsGrow ==
  ASSUME NEW c, Table(c), NEW t, NEW b, NEW k \in Nat, k >= 2, NEW st,
         b[k] \in TierPages(c, t), b[k - 1] \in Nat, b[k - 1] < b[k],
         Grouped(c, t, b, k - 1, st)
  PROVE  Grouped(c, t, b, k, Extend(st, RowOf(c, b[k])))
<1> DEFINE row == RowOf(c, b[k])  new == Extend(st, row)
<1>1. b[k] \in Nat /\ row.page = b[k]
  BY RowOfPage
<1>2. /\ \A r \in st.done \cup {st.now} : /\ RangeOK(c, t, r)
                                           /\ r.start \in Nat /\ r.end \in Nat /\ r.start < r.end
      /\ st.now.end = b[k - 1] + 1
      /\ \A r \in st.done : r.end < st.now.start
      /\ \A r, s \in st.done : r # s => r.end < s.start \/ s.end < r.start
      /\ \A j \in 1..k - 1 : \E r \in st.done \cup {st.now} : b[j] \in r.start..r.end - 1
  BY DEF Grouped, RangeOK, Ranges
<1>3. CASE b[k] = st.now.end
  <2> DEFINE s == Longer(st.now, row)
  <2>1. new.done = st.done /\ new.now = s
    BY <1>1, <1>3 DEF Extend
  <2>2. RangeOK(c, t, s) /\ s.start = st.now.start /\ s.end = st.now.end + 1
    BY <1>2, <1>3, RangeGrows
  <2> HIDE DEF s, new, row
  <2>3. \A j \in 1..k : \E r \in new.done \cup {new.now} : b[j] \in r.start..r.end - 1
    <3> TAKE j \in 1..k
    <3>1. CASE j = k
      <4>1. b[k] \in s.start..s.end - 1
        BY <1>1, <1>2, <1>3, <2>2
      <4> QED  BY <2>1, <3>1, <4>1
    <3>2. CASE j # k
      <4>1. PICK r \in st.done \cup {st.now} : b[j] \in r.start..r.end - 1
        BY <1>2, <3>2
      <4>2. CASE r \in st.done
        BY <2>1, <4>1, <4>2
      <4>3. CASE r = st.now
        <5>1. b[j] \in s.start..s.end - 1
          BY <1>2, <2>2, <4>1, <4>3
        <5> QED  BY <2>1, <5>1
      <4> QED  BY <4>1, <4>2, <4>3
    <3> QED  BY <3>1, <3>2
  <2>4. new.now.end = b[k] + 1
    BY <1>3, <2>1, <2>2
  <2>5. \A r \in new.done \cup {new.now} : RangeOK(c, t, r)
    BY <1>2, <2>1, <2>2
  <2>6. Grouped(c, t, b, k, new)
    BY <1>2, <2>1, <2>2, <2>3, <2>4, <2>5 DEF Grouped
  <2> QED  BY <2>6 DEF new, row
<1>4. CASE b[k] # st.now.end
  <2> DEFINE s == NewRange(row)
  <2>1. new.done = st.done \cup {st.now} /\ new.now = s
    BY <1>1, <1>4 DEF Extend
  <2>2. RangeOK(c, t, s) /\ s.start = b[k] /\ s.end = b[k] + 1
    BY NewRangeOK
  <2> HIDE DEF s, new, row
  <2>3. \A r \in new.done : r.end < s.start
    <3>1. st.now.end < b[k]
      BY <1>1, <1>2, <1>4
    <3>2. \A r \in st.done : r.end < b[k]
      <4> TAKE r \in st.done
      <4>1. /\ r.end < st.now.start /\ st.now.start < st.now.end
            /\ r.end \in Nat /\ st.now.start \in Nat /\ st.now.end \in Nat
        BY <1>2
      <4> QED  BY <1>1, <3>1, <4>1
    <3> QED  BY <2>1, <2>2, <3>1, <3>2
  <2>4. \A j \in 1..k : \E r \in new.done \cup {new.now} : b[j] \in r.start..r.end - 1
    <3> TAKE j \in 1..k
    <3>1. CASE j = k
      <4>1. b[k] \in s.start..s.end - 1
        BY <1>1, <2>2
      <4> QED  BY <2>1, <3>1, <4>1
    <3>2. CASE j # k
      <4>1. PICK r \in st.done \cup {st.now} : b[j] \in r.start..r.end - 1
        BY <1>2, <3>2
      <4> QED  BY <2>1, <4>1
    <3> QED  BY <3>1, <3>2
  <2>5. \A r, q \in new.done : r # q => r.end < q.start \/ q.end < r.start
    BY <1>2, <2>1
  <2>6. \A r \in new.done \cup {new.now} : RangeOK(c, t, r)
    BY <1>2, <2>1, <2>2
  <2>7. Grouped(c, t, b, k, new)
    BY <2>1, <2>2, <2>3, <2>4, <2>5, <2>6 DEF Grouped
  <2> QED  BY <2>7 DEF new, row
<1> QED  BY <1>3, <1>4

(* The ranges of a tier do not touch each other and have all its pages.    *)
LEMMA TierRangesAre ==
  ASSUME NEW c, Table(c), NEW t, TierPages(c, t) # {}
  PROVE  /\ \A r \in TierRanges(c, t) : RangeOK(c, t, r)
         /\ \A r, s \in TierRanges(c, t) : r # s => r.end < s.start \/ s.end < r.start
         /\ \A p \in TierPages(c, t) : \E r \in TierRanges(c, t) : p \in r.start..r.end - 1
<1> DEFINE b == InOrder(TierPages(c, t))  n == Len(b)  A == AfterPages(c, b)
           Bad == {k \in 1..n : ~Grouped(c, t, b, k, A[k])}
<1>1. /\ n \in Nat \ {0} /\ DOMAIN b = 1..n
      /\ \A k \in 1..n : b[k] \in TierPages(c, t) /\ b[k] \in Nat
      /\ \A j, k \in 1..n : j < k => b[j] < b[k]
      /\ \A p \in TierPages(c, t) : \E k \in 1..n : b[k] = p
  BY PagesInOrder
<1>2. TierRanges(c, t) = A[n].done \cup {A[n].now}
  BY DEF TierRanges
<1> HIDE DEF b, n
<1>3. /\ A[1] = [done |-> {}, now |-> NewRange(RowOf(c, b[1]))]
      /\ \A k \in 2..n : A[k] = Extend(A[k - 1], RowOf(c, b[k]))
  <2>1. n \in Nat \ {0} /\ DOMAIN b = 1..n
    BY <1>1
  <2> QED  BY <2>1, AfterPagesIs
<1> HIDE DEF A
<1>4. Bad = {}
  <2>1. SUFFICES ASSUME Bad # {}  PROVE FALSE
    OBVIOUS
  <2>2. Bad \in SUBSET Nat
    BY <1>1
  <2>3. PICK k \in Bad : \A m \in Bad : k <= m
    <3> HIDE DEF Bad
    <3> QED  BY <2>1, <2>2, LeastNatural
  <2>4. k \in 1..n /\ ~Grouped(c, t, b, k, A[k])
    BY <2>3
  <2>5. k # 1
    <3>1. b[1] \in TierPages(c, t)
      BY <1>1
    <3>2. Grouped(c, t, b, 1, A[1])
      BY <1>3, <3>1, GroupsStart
    <3> QED  BY <2>4, <3>2
  <2>6. k - 1 \in 1..n /\ k \in 2..n /\ k - 1 < k /\ k \in Nat /\ k >= 2
    BY <1>1, <2>4, <2>5
  <2>7. Grouped(c, t, b, k - 1, A[k - 1])
    <3>1. k - 1 \notin Bad
      <4> HIDE DEF Bad
      <4> QED  BY <1>1, <2>3, <2>6
    <3> QED  BY <2>6, <3>1
  <2>8. b[k] \in TierPages(c, t) /\ b[k - 1] \in Nat /\ b[k - 1] < b[k]
    BY <1>1, <2>6
  <2>9. Grouped(c, t, b, k, Extend(A[k - 1], RowOf(c, b[k])))
    BY <2>6, <2>7, <2>8, GroupsGrow
  <2> QED  BY <1>3, <2>4, <2>6, <2>9
<1>5. n \in 1..n
  BY <1>1
<1>6. Grouped(c, t, b, n, A[n])
  BY <1>4, <1>5
<1>7. \A r, s \in A[n].done \cup {A[n].now} : r # s => r.end < s.start \/ s.end < r.start
  BY <1>6 DEF Grouped
<1>8. \A p \in TierPages(c, t) : \E r \in A[n].done \cup {A[n].now} : p \in r.start..r.end - 1
  <2> TAKE p \in TierPages(c, t)
  <2>1. PICK k \in 1..n : b[k] = p
    BY <1>1
  <2> QED  BY <1>6, <2>1 DEF Grouped
<1> QED  BY <1>2, <1>6, <1>7, <1>8 DEF Grouped

LEMMA RowsOfRange ==
  ASSUME NEW c, Table(c), NEW t, NEW r, RangeOK(c, t, r)
  PROVE  Cardinality(RowsAt(c, t, r.start..r.end - 1)) = r.end - r.start
<1> DEFINE Q == r.start..r.end - 1  K == RowsAt(c, t, Q)  f == [k \in K |-> c[k].page]
<1>1. r.start \in Nat /\ r.end \in Nat /\ r.start < r.end /\ Q \subseteq TierPages(c, t)
  BY DEF RangeOK, Ranges
<1>2. IsFiniteSet(K)
  <2>1. IsFiniteSet(1..Len(c)) /\ DOMAIN c = 1..Len(c)
    BY FS_Interval DEF Table
  <2> QED  BY <2>1, FS_Subset DEF RowsAt
<1>3. \A k \in K : k \in 1..Len(c) /\ c[k].page \in Q
  BY DEF RowsAt, Table
<1>4. \A p \in Q : \E k \in K : c[k].page = p
  BY <1>1 DEF RowsAt, TierPages
<1>5. \A j, k \in K : c[j].page = c[k].page => j = k
  BY <1>3 DEF Table, Distinct
<1>6. f \in Surjection(K, Q) /\ f \in Injection(K, Q)
  <2> HIDE DEF K, Q
  <2> QED  BY <1>3, <1>4, <1>5 DEF Surjection, Injection, IsInjective
<1> HIDE DEF f
<1>7. Cardinality(Q) = Cardinality(K)
  BY <1>2, <1>6, FS_Surjection
<1>8. Cardinality(Q) = r.end - r.start
  <2>1. r.start \in Int /\ r.end - 1 \in Int
    BY <1>1
  <2>2. Cardinality(Q) = IF r.start > r.end - 1 THEN 0 ELSE (r.end - 1) - r.start + 1
    BY <2>1, FS_Interval
  <2> QED  BY <1>1, <2>2
<1> QED  BY <1>7, <1>8

LEMMA RangesOfTable ==
  ASSUME Table(csv)
  PROVE  RangesPartition
<1> DEFINE ranges == aggregate_page_ranges(csv)
           rowsOf(r) == {k \in InTiers({r.tier}) : csv[k].page \in r.start..r.end - 1}
           tiers == {csv[k].tier : k \in DOMAIN csv}
<1>1. \A t \in tiers : TierPages(csv, t) # {}
  BY DEF TierPages
<1>2. ranges = UNION {TierRanges(csv, t) : t \in tiers}
  BY DEF aggregate_page_ranges
<1>3. \A r : rowsOf(r) = RowsAt(csv, r.tier, r.start..r.end - 1)
  BY DEF InTiers, RowsAt
<1> HIDE DEF ranges, rowsOf, tiers
<1>4. ASSUME NEW r \in ranges
      PROVE  r.tier \in tiers /\ r \in TierRanges(csv, r.tier) /\ RangeOK(csv, r.tier, r)
  <2>1. PICK t \in tiers : r \in TierRanges(csv, t)
    BY <1>2
  <2>2. RangeOK(csv, t, r)
    BY <1>1, <2>1, TierRangesAre
  <2>3. r.tier = t
    BY <2>2 DEF RangeOK, Ranges
  <2> QED  BY <2>1, <2>2, <2>3
<1>5. ASSUME NEW r \in ranges
      PROVE  /\ r.pages = r.end - r.start /\ r.pages = Cardinality(rowsOf(r))
             /\ r.n = AccessesAt(csv, rowsOf(r))
  <2>1. RangeOK(csv, r.tier, r)
    BY <1>4
  <2>2. Cardinality(RowsAt(csv, r.tier, r.start..r.end - 1)) = r.end - r.start
    BY <2>1, RowsOfRange
  <2> QED  BY <1>3, <2>1, <2>2 DEF RangeOK
<1>6. ASSUME NEW k \in DOMAIN csv
      PROVE  \E r \in ranges : r.tier = csv[k].tier /\ csv[k].page \in r.start..r.end - 1
  <2> DEFINE t == csv[k].tier
  <2>1. t \in tiers /\ csv[k].page \in TierPages(csv, t)
    BY DEF tiers, TierPages
  <2>2. TierPages(csv, t) # {}
    BY <2>1
  <2> HIDE DEF t
  <2>3. PICK r \in TierRanges(csv, t) : csv[k].page \in r.start..r.end - 1
    BY <2>1, <2>2, TierRangesAre
  <2>4. RangeOK(csv, t, r)
    BY <2>2, TierRangesAre
  <2>5. r \in ranges /\ r.tier = t
    BY <1>2, <2>1, <2>4 DEF RangeOK, Ranges
  <2> QED  BY <2>3, <2>5 DEF t
<1>7. ASSUME NEW r \in ranges, NEW s \in ranges, r.tier = s.tier, r.start <= s.start, r # s
      PROVE  r.end < s.start
  <2> DEFINE t == r.tier
  <2>1. TierPages(csv, t) # {} /\ r \in TierRanges(csv, t) /\ s \in TierRanges(csv, t)
    BY <1>1, <1>4, <1>7
  <2>2. RangeOK(csv, t, r) /\ RangeOK(csv, t, s)
    BY <1>4, <1>7
  <2> HIDE DEF t
  <2>3. r.end < s.start \/ s.end < r.start
    BY <1>7, <2>1, TierRangesAre
  <2>4. r.start \in Nat /\ r.end \in Nat /\ s.start \in Nat /\ s.end \in Nat /\ s.start < s.end
    BY <2>2 DEF RangeOK, Ranges
  <2> QED  BY <1>7, <2>3, <2>4
<1> QED  BY <1>5, <1>6, <1>7 DEF RangesPartition, ranges, rowsOf

LEMMA CsvPartitions ==
  ASSUME PipelineInv
  PROVE  RangesPartition
<1>1. CASE csv = <<>>
  BY <1>1 DEF RangesPartition
<1>2. CASE csv # <<>>
  <2>1. PICK rows : Ranking(rows) /\ Distinct(rows) /\ csv = page_pac(rows)
    BY <1>2 DEF PipelineInv, CsvInv
  <2>2. Table(csv)
    BY <2>1, CsvIsTable
  <2> QED  BY <2>2, RangesOfTable
<1> QED  BY <1>1, <1>2

(* aggregate_page_ranges makes of the pages of a tier ranges that have     *)
(* each page once, with all accesses, and neighbours in the same range.    *)
THEOREM RangesArePages == PipelineSpec => []RangesPartition
BY PipelineInvHolds, CsvPartitions, PTL

-----------------------------------------------------------------------------
(* What parsing comes to: every address is an access, and a latency counts *)
(* for the page of the address that is in the same sample.                 *)

LEMMA SumAdd ==
  ASSUME NEW S, IsFiniteSet(S), NEW x, x \notin S, NEW f, \A y \in S \cup {x} : f[y] \in Int
  PROVE  Sum(f, S \cup {x}) = Sum(f, S) + f[x]
<1> DEFINE T == S \cup {x}
<1>1. IsFiniteSet(T)
  BY FS_AddElement
<1>2. x \in T /\ T \ {x} = S /\ \A y \in T : f[y] \in Int
  OBVIOUS
<1> HIDE DEF T
<1>3. Sum(f, T) = f[x] + Sum(f, S)
  BY <1>1, <1>2, SumRemove
<1>4. Sum(f, S) \in Int /\ f[x] \in Int
  BY <1>2, SumInt
<1> QED  BY <1>3, <1>4 DEF T

Ends == {"PC", "TS"}
Ones(lines) == [j \in 1..Len(lines) |-> 1]
Latency(lines) == [j \in 1..Len(lines) |-> lines[j].lat]

Near(lines, i, j) ==
  \A m \in 1..Len(lines) : (i < m /\ m < j) \/ (j < m /\ m < i) => lines[m].kind \notin Ends

Addresses(lines, p, k) == {j \in 1..k : lines[j].kind = "VA" /\ lines[j].page = p}
Latencies(lines, p, k) ==
  {j \in 1..k : /\ lines[j].kind = "LAT"
                /\ \E i \in 1..k : lines[i].kind = "VA" /\ lines[i].page = p /\ Near(lines, i, j)}

(* The lines of the sample that is being read. *)
Open(lines, k) == {j \in 1..k : \A m \in j..k : lines[m].kind \notin Ends}

Parsed(lines, k, state) ==
  /\ state \in States
  /\ \A j \in Open(lines, k) : lines[j].kind = "VA" => lines[j].page = state.sample.page
  /\ \A j \in Open(lines, k) : lines[j].kind = "LAT" => lines[j].lat = state.sample.lat
  /\ state.sample.page # NoPage => \E j \in Open(lines, k) : lines[j].kind = "VA"
  /\ state.sample.lat # 0 => \E j \in Open(lines, k) : lines[j].kind = "LAT"
  /\ \A p \in Pages :
       /\ LastFlush(state)[p].n = Sum(Ones(lines), Addresses(lines, p, k))
       /\ LastFlush(state)[p].lat = Sum(Latency(lines), Latencies(lines, p, k))

ParsableOK(lines) ==
  /\ Len(lines) \in Nat /\ OneEach(lines)
  /\ \A k \in 1..Len(lines) : LineOK(lines[k])

LEMMA FlushIs ==
  ASSUME NEW state \in States, NEW p \in Pages
  PROVE  /\ LastFlush(state)[p].n = IF state.sample.page = p THEN state.stats[p].n + 1
                                    ELSE state.stats[p].n
         /\ LastFlush(state)[p].lat = IF state.sample.page = p THEN state.stats[p].lat + state.sample.lat
                                      ELSE state.stats[p].lat
<1>1. state.stats \in Stats /\ state.sample \in ReadSamples
  BY DEF States
<1> QED  BY <1>1 DEF LastFlush, flush_sample, Stats, ReadSamples

LEMMA ParsedStart ==
  ASSUME NEW lines, ParsableOK(lines)
  PROVE  Parsed(lines, 0, AtStart)
<1>1. AtStart \in States
  BY DEF AtStart, States, Empty, NoStats, ReadSamples, SamplePages, Stats
<1>2. Open(lines, 0) = {}
  BY DEF Open
<1>3. AtStart.sample.page = NoPage /\ AtStart.sample.lat = 0
  BY DEF AtStart, Empty
<1>4. ASSUME NEW p \in Pages
      PROVE  /\ LastFlush(AtStart)[p].n = Sum(Ones(lines), Addresses(lines, p, 0))
             /\ LastFlush(AtStart)[p].lat = Sum(Latency(lines), Latencies(lines, p, 0))
  <2>1. p # NoPage
    BY PagesAreNat DEF NoPage
  <2>2. AtStart.stats[p].n = 0 /\ AtStart.stats[p].lat = 0
    BY DEF AtStart, NoStats
  <2>3. Addresses(lines, p, 0) = {} /\ Latencies(lines, p, 0) = {}
    BY DEF Addresses, Latencies
  <2> QED  BY <1>1, <1>3, <2>1, <2>2, <2>3, FlushIs, SumEmpty
<1> QED  BY <1>1, <1>2, <1>3, <1>4 DEF Parsed

LEMMA SetsFinite ==
  ASSUME NEW lines, ParsableOK(lines), NEW p, NEW k \in 0..Len(lines)
  PROVE  /\ IsFiniteSet(Addresses(lines, p, k)) /\ IsFiniteSet(Latencies(lines, p, k))
         /\ Addresses(lines, p, k) \subseteq 1..Len(lines)
         /\ Latencies(lines, p, k) \subseteq 1..Len(lines)
         /\ \A j \in 1..Len(lines) : /\ Ones(lines)[j] = 1 /\ Latency(lines)[j] = lines[j].lat
                                     /\ lines[j].lat \in Nat
<1>1. IsFiniteSet(1..Len(lines)) /\ 1..k \subseteq 1..Len(lines)
  BY FS_Interval DEF ParsableOK
<1>2. Addresses(lines, p, k) \subseteq 1..Len(lines) /\ Latencies(lines, p, k) \subseteq 1..Len(lines)
  BY <1>1 DEF Addresses, Latencies
<1>3. \A j \in 1..Len(lines) : /\ Ones(lines)[j] = 1 /\ Latency(lines)[j] = lines[j].lat
                               /\ lines[j].lat \in Nat
  BY DEF Ones, Latency, ParsableOK, LineOK
<1> QED  BY <1>1, <1>2, <1>3, FS_Subset

(* A line that belongs to the sample that was being read before it. *)
LEMMA NearIsOpen ==
  ASSUME NEW lines, ParsableOK(lines), NEW k \in 1..Len(lines), NEW j \in 1..k - 1,
         lines[j].kind \notin Ends
  PROVE  /\ Near(lines, j, k) <=> j \in Open(lines, k - 1)
         /\ Near(lines, k, j) <=> j \in Open(lines, k - 1)
<1>1. k \in Nat /\ j \in Nat /\ j < k /\ Len(lines) \in Nat
  BY DEF ParsableOK
<1>2. ASSUME j \in Open(lines, k - 1)  PROVE Near(lines, j, k) /\ Near(lines, k, j)
  <2>1. \A m \in 1..Len(lines) : (j < m /\ m < k) \/ (k < m /\ m < j) => m \in j..k - 1
    BY <1>1
  <2> QED  BY <1>2, <2>1 DEF Near, Open
<1>3. ASSUME Near(lines, j, k) \/ Near(lines, k, j)  PROVE j \in Open(lines, k - 1)
  <2> SUFFICES ASSUME NEW m \in j..k - 1  PROVE lines[m].kind \notin Ends
    BY DEF Open
  <2>1. CASE m = j
    BY <2>1
  <2>2. CASE m # j
    <3>1. m \in 1..Len(lines) /\ j < m /\ m < k
      BY <1>1, <2>2
    <3> QED  BY <1>3, <3>1 DEF Near
  <2> QED  BY <2>1, <2>2
<1> QED  BY <1>2, <1>3

LEMMA OpenGrows ==
  ASSUME NEW lines, ParsableOK(lines), NEW k \in 1..Len(lines)
  PROVE  Open(lines, k) = IF lines[k].kind \in Ends THEN {} ELSE Open(lines, k - 1) \cup {k}
<1>1. k \in Nat
  BY DEF ParsableOK
<1>2. CASE lines[k].kind \in Ends
  <2>1. \A j \in 1..k : k \in j..k
    BY <1>1
  <2> QED  BY <1>2, <2>1 DEF Open
<1>3. CASE lines[k].kind \notin Ends
  <2>1. \A j \in 1..k - 1 : j \in 1..k /\ j..k = (j..k - 1) \cup {k}
    BY <1>1
  <2>2. \A j \in 1..k : j = k \/ j \in 1..k - 1
    BY <1>1
  <2>3. k \in 1..k /\ k..k = {k}
    BY <1>1
  <2>4. \A j \in 1..k - 1 : j \in Open(lines, k) <=> j \in Open(lines, k - 1)
    BY <1>3, <2>1 DEF Open
  <2>5. k \in Open(lines, k)
    BY <1>3, <2>3 DEF Open
  <2>6. Open(lines, k) \subseteq 1..k /\ Open(lines, k - 1) \subseteq 1..k - 1
    BY DEF Open
  <2> QED  BY <1>3, <2>2, <2>4, <2>5, <2>6
<1> QED  BY <1>2, <1>3

(* The sample that is being read has no second address nor latency. *)
LEMMA OpenHasOne ==
  ASSUME NEW lines, ParsableOK(lines), NEW k \in 1..Len(lines), NEW j \in Open(lines, k - 1),
         lines[k].kind \in {"VA", "LAT"}
  PROVE  lines[j].kind # lines[k].kind
<1>1. j \in 1..Len(lines) /\ j < k /\ k \in Nat /\ Len(lines) \in Nat
  BY DEF Open, ParsableOK
<1> SUFFICES ASSUME lines[j].kind = lines[k].kind  PROVE FALSE
  OBVIOUS
<1>2. PICK m \in 1..Len(lines) : j < m /\ m < k /\ lines[m].kind = "PC"
  BY <1>1 DEF ParsableOK, OneEach
<1>3. m \in j..k - 1
  BY <1>1, <1>2
<1> QED  BY <1>2, <1>3 DEF Open, Ends

LEMMA AddressesGrow ==
  ASSUME NEW lines, ParsableOK(lines), NEW k \in 1..Len(lines), NEW p
  PROVE  /\ Addresses(lines, p, k) = IF lines[k].kind = "VA" /\ lines[k].page = p
                                     THEN Addresses(lines, p, k - 1) \cup {k}
                                     ELSE Addresses(lines, p, k - 1)
         /\ k \notin Addresses(lines, p, k - 1) /\ k \notin Latencies(lines, p, k - 1)
<1>1. k \in Nat /\ 1..k = (1..k - 1) \cup {k} /\ k \notin 1..k - 1
  BY DEF ParsableOK
<1> QED  BY <1>1 DEF Addresses, Latencies

LEMMA LatenciesGrow ==
  ASSUME NEW lines, ParsableOK(lines), NEW k \in 1..Len(lines), NEW p
  PROVE  Latencies(lines, p, k) =
           Latencies(lines, p, k - 1) \cup
             {j \in Open(lines, k - 1) : /\ lines[j].kind = "LAT"
                                         /\ lines[k].kind = "VA" /\ lines[k].page = p} \cup
             {j \in {k} : /\ lines[k].kind = "LAT"
                          /\ \E i \in Open(lines, k - 1) : lines[i].kind = "VA" /\ lines[i].page = p}
<1> DEFINE A == Latencies(lines, p, k - 1)
           B == {j \in Open(lines, k - 1) : /\ lines[j].kind = "LAT"
                                            /\ lines[k].kind = "VA" /\ lines[k].page = p}
           C == {j \in {k} : /\ lines[k].kind = "LAT"
                             /\ \E i \in Open(lines, k - 1) : lines[i].kind = "VA" /\ lines[i].page = p}
<1>1. k \in Nat /\ 1..k = (1..k - 1) \cup {k} /\ k \notin 1..k - 1
  BY DEF ParsableOK
<1>2. \A j \in 1..k - 1 : lines[j].kind \in {"VA", "LAT"} =>
         /\ Near(lines, j, k) <=> j \in Open(lines, k - 1)
         /\ Near(lines, k, j) <=> j \in Open(lines, k - 1)
  BY NearIsOpen DEF Ends
<1>3. Open(lines, k - 1) \subseteq 1..k - 1
  BY DEF Open
<1>4. ASSUME NEW j \in 1..k - 1
      PROVE  j \in Latencies(lines, p, k) <=> j \in A \cup B
  <2>1. j \in Latencies(lines, p, k) <=>
          /\ lines[j].kind = "LAT"
          /\ \/ \E i \in 1..k - 1 : lines[i].kind = "VA" /\ lines[i].page = p /\ Near(lines, i, j)
             \/ lines[k].kind = "VA" /\ lines[k].page = p /\ Near(lines, k, j)
    BY <1>1 DEF Latencies
  <2>2. j \in A <=> /\ lines[j].kind = "LAT"
                    /\ \E i \in 1..k - 1 : lines[i].kind = "VA" /\ lines[i].page = p /\ Near(lines, i, j)
    BY DEF Latencies
  <2> QED  BY <1>2, <2>1, <2>2
<1>5. k \in Latencies(lines, p, k) <=> k \in C
  <2>1. k \in Latencies(lines, p, k) <=>
          /\ lines[k].kind = "LAT"
          /\ \E i \in 1..k : lines[i].kind = "VA" /\ lines[i].page = p /\ Near(lines, i, k)
    BY <1>1 DEF Latencies
  <2>2. ASSUME lines[k].kind = "LAT", NEW i \in 1..k, lines[i].kind = "VA"  PROVE i \in 1..k - 1
    BY <1>1, <2>2
  <2>3. k \in Latencies(lines, p, k) <=>
          /\ lines[k].kind = "LAT"
          /\ \E i \in 1..k - 1 : lines[i].kind = "VA" /\ lines[i].page = p /\ Near(lines, i, k)
    BY <1>1, <2>1, <2>2
  <2>4. k \in Latencies(lines, p, k) <=>
          /\ lines[k].kind = "LAT"
          /\ \E i \in Open(lines, k - 1) : lines[i].kind = "VA" /\ lines[i].page = p
    BY <1>2, <1>3, <2>3
  <2> QED  BY <2>4
<1>6. /\ Latencies(lines, p, k) \subseteq 1..k
      /\ A \subseteq 1..k - 1 /\ B \subseteq 1..k - 1 /\ C \subseteq {k}
  BY <1>3 DEF Latencies
<1> HIDE DEF A, B, C
<1>7. Latencies(lines, p, k) = A \cup B \cup C
  BY <1>1, <1>4, <1>5, <1>6
<1> QED  BY <1>7 DEF A, B, C

LEMMA NoLatency ==
  ASSUME NEW lines, ParsableOK(lines), NEW k \in 1..Len(lines), NEW p,
         lines[k].kind # "LAT", lines[k].kind # "VA" \/ lines[k].page # p
  PROVE  Latencies(lines, p, k) = Latencies(lines, p, k - 1)
<1> DEFINE B == {j \in Open(lines, k - 1) : /\ lines[j].kind = "LAT"
                                            /\ lines[k].kind = "VA" /\ lines[k].page = p}
           C == {j \in {k} : /\ lines[k].kind = "LAT"
                             /\ \E i \in Open(lines, k - 1) : lines[i].kind = "VA" /\ lines[i].page = p}
<1>1. Latencies(lines, p, k) = Latencies(lines, p, k - 1) \cup B \cup C
  BY LatenciesGrow
<1>2. B = {} /\ C = {}
  OBVIOUS
<1> HIDE DEF B, C
<1> QED  BY <1>1, <1>2

(* What the sums come to when nothing is added to the sets. *)
LEMMA ParsedQuiet ==
  ASSUME NEW lines, ParsableOK(lines), NEW k \in 1..Len(lines), NEW state, Parsed(lines, k - 1, state),
         lines[k].kind \notin {"VA", "LAT"}, NEW p \in Pages
  PROVE  /\ LastFlush(state)[p].n = Sum(Ones(lines), Addresses(lines, p, k))
         /\ LastFlush(state)[p].lat = Sum(Latency(lines), Latencies(lines, p, k))
<1>1. Addresses(lines, p, k) = Addresses(lines, p, k - 1)
  BY AddressesGrow
<1>2. Latencies(lines, p, k) = Latencies(lines, p, k - 1)
  BY NoLatency
<1> QED  BY <1>1, <1>2 DEF Parsed

LEMMA ParsedEnd ==
  ASSUME NEW lines, ParsableOK(lines), NEW k \in 1..Len(lines), NEW state, Parsed(lines, k - 1, state),
         lines[k].kind \in Ends, NEW worker
  PROVE  Parsed(lines, k, ParseLine(state, lines[k], worker))
<1> DEFINE new == ParseLine(state, lines[k], worker)
<1>1. new.sample = Empty /\ new.stats = LastFlush(state)
  BY DEF ParseLine, Ends, LastFlush
<1>2. new \in States /\ state \in States
  <2>1. LineOK(lines[k])
    BY DEF ParsableOK
  <2> QED  BY <2>1, ParseLineType DEF Parsed
<1>3. Open(lines, k) = {}
  BY OpenGrows
<1>4. new.sample.page = NoPage /\ new.sample.lat = 0
  BY <1>1 DEF Empty
<1> HIDE DEF new
<1>5. ASSUME NEW p \in Pages
      PROVE  /\ LastFlush(new)[p].n = Sum(Ones(lines), Addresses(lines, p, k))
             /\ LastFlush(new)[p].lat = Sum(Latency(lines), Latencies(lines, p, k))
  <2>1. p # NoPage
    BY PagesAreNat DEF NoPage
  <2>2. LastFlush(new)[p].n = LastFlush(state)[p].n /\ LastFlush(new)[p].lat = LastFlush(state)[p].lat
    BY <1>1, <1>2, <1>4, <2>1, FlushIs
  <2>3. lines[k].kind \notin {"VA", "LAT"}
    BY DEF Ends
  <2> QED  BY <2>2, <2>3, ParsedQuiet
<1>6. Parsed(lines, k, new)
  BY <1>2, <1>3, <1>4, <1>5 DEF Parsed
<1> QED  BY <1>6 DEF new

LEMMA ParsedOther ==
  ASSUME NEW lines, ParsableOK(lines), NEW k \in 1..Len(lines), NEW state, Parsed(lines, k - 1, state),
         lines[k].kind \in {"OP", "other"}, NEW worker
  PROVE  Parsed(lines, k, ParseLine(state, lines[k], worker))
<1> DEFINE new == ParseLine(state, lines[k], worker)
<1>1. new \in States /\ state \in States
  <2>1. LineOK(lines[k])
    BY DEF ParsableOK
  <2> QED  BY <2>1, ParseLineType DEF Parsed
<1>2. new.sample.page = state.sample.page /\ new.sample.lat = state.sample.lat /\ new.stats = state.stats
  BY <1>1 DEF ParseLine, States, ReadSamples
<1>3. Open(lines, k) = Open(lines, k - 1) \cup {k}
  BY OpenGrows DEF Ends
<1> HIDE DEF new
<1>4. ASSUME NEW p \in Pages
      PROVE  /\ LastFlush(new)[p].n = Sum(Ones(lines), Addresses(lines, p, k))
             /\ LastFlush(new)[p].lat = Sum(Latency(lines), Latencies(lines, p, k))
  <2>2. LastFlush(new)[p].n = LastFlush(state)[p].n /\ LastFlush(new)[p].lat = LastFlush(state)[p].lat
    BY <1>1, <1>2, FlushIs
  <2>3. lines[k].kind \notin {"VA", "LAT"}
    OBVIOUS
  <2> QED  BY <2>2, <2>3, ParsedQuiet
<1>5. /\ \A j \in Open(lines, k) : lines[j].kind = "VA" => lines[j].page = new.sample.page
      /\ \A j \in Open(lines, k) : lines[j].kind = "LAT" => lines[j].lat = new.sample.lat
      /\ new.sample.page # NoPage => \E j \in Open(lines, k) : lines[j].kind = "VA"
      /\ new.sample.lat # 0 => \E j \in Open(lines, k) : lines[j].kind = "LAT"
  BY <1>2, <1>3 DEF Parsed
<1>6. Parsed(lines, k, new)
  BY <1>1, <1>4, <1>5 DEF Parsed
<1> QED  BY <1>6 DEF new

LEMMA ParsedAddress ==
  ASSUME NEW lines, ParsableOK(lines), NEW k \in 1..Len(lines), NEW state, Parsed(lines, k - 1, state),
         lines[k].kind = "VA", NEW worker
  PROVE  Parsed(lines, k, ParseLine(state, lines[k], worker))
<1> DEFINE new == ParseLine(state, lines[k], worker)
<1>1. new \in States /\ state \in States /\ LineOK(lines[k])
  <2>1. LineOK(lines[k])
    BY DEF ParsableOK
  <2> QED  BY <2>1, ParseLineType DEF Parsed
<1>2. new.sample.page = lines[k].page /\ new.sample.lat = state.sample.lat /\ new.stats = state.stats
  BY <1>1 DEF ParseLine, States, ReadSamples
<1>3. Open(lines, k) = Open(lines, k - 1) \cup {k}
  BY OpenGrows DEF Ends
<1>4. \A j \in Open(lines, k - 1) : lines[j].kind # "VA"
  BY OpenHasOne
<1>5. state.sample.page = NoPage
  BY <1>4 DEF Parsed
<1> HIDE DEF new
<1>6. /\ \A j \in Open(lines, k) : lines[j].kind = "VA" => lines[j].page = new.sample.page
      /\ \A j \in Open(lines, k) : lines[j].kind = "LAT" => lines[j].lat = new.sample.lat
      /\ new.sample.page # NoPage => \E j \in Open(lines, k) : lines[j].kind = "VA"
      /\ new.sample.lat # 0 => \E j \in Open(lines, k) : lines[j].kind = "LAT"
  BY <1>2, <1>3, <1>4 DEF Parsed
<1>7. k - 1 \in 0..Len(lines)
  BY DEF ParsableOK
<1>8. ASSUME NEW p \in Pages
      PROVE  /\ LastFlush(new)[p].n = Sum(Ones(lines), Addresses(lines, p, k))
             /\ LastFlush(new)[p].lat = Sum(Latency(lines), Latencies(lines, p, k))
  <2> DEFINE A == Addresses(lines, p, k - 1)  L == Latencies(lines, p, k - 1)
             O == {j \in Open(lines, k - 1) : lines[j].kind = "LAT"}
  <2>1. /\ p # NoPage /\ LastFlush(state)[p].n = state.stats[p].n
        /\ LastFlush(state)[p].lat = state.stats[p].lat
    BY <1>1, <1>5, PagesAreNat, FlushIs DEF NoPage
  <2>2. state.stats[p].n = Sum(Ones(lines), A) /\ state.stats[p].lat = Sum(Latency(lines), L)
    BY <2>1 DEF Parsed
  <2>3. CASE lines[k].page # p
    <3>1. Addresses(lines, p, k) = A
      BY <2>3, AddressesGrow
    <3>2. Latencies(lines, p, k) = L
      BY <2>3, NoLatency
    <3>3. LastFlush(new)[p].n = state.stats[p].n /\ LastFlush(new)[p].lat = state.stats[p].lat
      BY <1>1, <1>2, <2>3, FlushIs
    <3> QED  BY <2>2, <3>1, <3>2, <3>3
  <2>4. CASE lines[k].page = p
    <3>0. /\ IsFiniteSet(A) /\ IsFiniteSet(L) /\ A \subseteq 1..Len(lines) /\ L \subseteq 1..Len(lines)
          /\ \A j \in 1..Len(lines) : /\ Ones(lines)[j] = 1 /\ Latency(lines)[j] = lines[j].lat
                                      /\ lines[j].lat \in Nat
      BY <1>7, SetsFinite
    <3>1. Addresses(lines, p, k) = A \cup {k} /\ k \notin A
      BY <2>4, AddressesGrow
    <3>2. Latencies(lines, p, k) = L \cup O
      <4>1. {j \in {k} : /\ lines[k].kind = "LAT"
                         /\ \E i \in Open(lines, k - 1) : lines[i].kind = "VA" /\ lines[i].page = p} = {}
        OBVIOUS
      <4>2. {j \in Open(lines, k - 1) : /\ lines[j].kind = "LAT"
                                        /\ lines[k].kind = "VA" /\ lines[k].page = p} = O
        BY <2>4
      <4> QED  BY <4>1, <4>2, LatenciesGrow
    <3>3. /\ LastFlush(new)[p].n = state.stats[p].n + 1
          /\ LastFlush(new)[p].lat = state.stats[p].lat + state.sample.lat
      BY <1>1, <1>2, <2>4, FlushIs
    <3> HIDE DEF A, L
    <3>4. Sum(Ones(lines), A \cup {k}) = Sum(Ones(lines), A) + 1
      <4>1. \A y \in A \cup {k} : Ones(lines)[y] \in Int
        BY <3>0
      <4>2. Sum(Ones(lines), A \cup {k}) = Sum(Ones(lines), A) + Ones(lines)[k]
        BY <3>0, <3>1, <4>1, SumAdd
      <4> QED  BY <3>0, <4>2
    <3>5. Sum(Latency(lines), L \cup O) = Sum(Latency(lines), L) + state.sample.lat
      <4>1. CASE O = {}
        <5>1. state.sample.lat = 0
          BY <4>1 DEF Parsed
        <5>2. L \cup O = L
          BY <4>1
        <5>3. Sum(Latency(lines), L) \in Int
          <6>1. \A y \in L : Latency(lines)[y] \in Int
            BY <3>0
          <6> QED  BY <3>0, <6>1, SumInt
        <5> HIDE DEF O
        <5>4. Sum(Latency(lines), L \cup O) = Sum(Latency(lines), L)
          BY <5>2
        <5> DEFINE x == Sum(Latency(lines), L)
        <5>5. x \in Int /\ x + state.sample.lat = x
          BY <5>1, <5>3
        <5> QED  BY <5>4, <5>5
      <4>2. CASE O # {}
        <5>1. PICK j \in O : TRUE
          BY <4>2
        <5>2. j \in Open(lines, k - 1) /\ lines[j].kind = "LAT" /\ lines[j].lat = state.sample.lat
          BY <5>1 DEF Parsed
        <5>3. j \in 1..k - 1 /\ j \in 1..Len(lines) /\ k \in Nat /\ Len(lines) \in Nat
          BY <5>2 DEF Open, ParsableOK
        <5>4. \A i \in O : i = j
          <6> TAKE i \in O
          <6>0. i \in 1..k - 1 /\ \A m \in i..k - 1 : lines[m].kind # "PC"
            BY DEF Open, Ends
          <6>1. \A m \in j..k - 1 : lines[m].kind # "PC"
            BY <5>2 DEF Open, Ends
          <6>2. i \in 1..Len(lines) /\ lines[i].kind = "LAT"
            BY <5>3, <6>0
          <6>3. ~(i < j)
            <7>1. SUFFICES ASSUME i < j  PROVE FALSE
              OBVIOUS
            <7>2. PICK m \in 1..Len(lines) : i < m /\ m < j /\ lines[m].kind = "PC"
              BY <5>2, <5>3, <6>2, <7>1 DEF ParsableOK, OneEach
            <7>3. m \in i..k - 1
              BY <5>3, <6>0, <7>2
            <7> QED  BY <6>0, <7>2, <7>3
          <6>4. ~(j < i)
            <7>1. SUFFICES ASSUME j < i  PROVE FALSE
              OBVIOUS
            <7>2. PICK m \in 1..Len(lines) : j < m /\ m < i /\ lines[m].kind = "PC"
              BY <5>2, <5>3, <6>2, <7>1 DEF ParsableOK, OneEach
            <7>3. m \in j..k - 1
              BY <5>3, <6>0, <7>2
            <7> QED  BY <6>1, <7>2, <7>3
          <6> QED  BY <5>3, <6>0, <6>3, <6>4
        <5>5. O = {j}
          BY <5>1, <5>4
        <5>6. j \notin L
          <6>1. SUFFICES ASSUME j \in L  PROVE FALSE
            OBVIOUS
          <6>2. PICK i \in 1..k - 1 : lines[i].kind = "VA" /\ Near(lines, i, j)
            BY <6>1 DEF L, Latencies
          <6>3. i \in 1..Len(lines) /\ i < k /\ i # j
            BY <5>2, <5>3, <6>2
          <6>4. PICK m \in 1..Len(lines) : i < m /\ m < k /\ lines[m].kind = "PC"
            BY <5>3, <6>2, <6>3 DEF ParsableOK, OneEach
          <6>5. m \notin j..k - 1
            BY <5>2, <6>4 DEF Open, Ends
          <6>6. i < m /\ m < j
            BY <5>3, <6>4, <6>5
          <6> QED  BY <6>2, <6>4, <6>6 DEF Near, Ends
        <5>7. \A y \in L \cup {j} : Latency(lines)[y] \in Int
          BY <3>0, <5>3
        <5>8. Sum(Latency(lines), L \cup {j}) = Sum(Latency(lines), L) + Latency(lines)[j]
          BY <3>0, <5>6, <5>7, SumAdd
        <5>9. Latency(lines)[j] = state.sample.lat
          BY <3>0, <5>2, <5>3
        <5> QED  BY <5>5, <5>8, <5>9
      <4> QED  BY <4>1, <4>2
    <3> QED  BY <2>2, <3>1, <3>2, <3>3, <3>4, <3>5 DEF A, L
  <2> QED  BY <2>3, <2>4
<1>9. Parsed(lines, k, new)
  BY <1>1, <1>6, <1>8 DEF Parsed
<1> QED  BY <1>9 DEF new

LEMMA ParsedLatency ==
  ASSUME NEW lines, ParsableOK(lines), NEW k \in 1..Len(lines), NEW state, Parsed(lines, k - 1, state),
         lines[k].kind = "LAT", NEW worker
  PROVE  Parsed(lines, k, ParseLine(state, lines[k], worker))
<1> DEFINE new == ParseLine(state, lines[k], worker)
<1>1. new \in States /\ state \in States /\ LineOK(lines[k])
  <2>1. LineOK(lines[k])
    BY DEF ParsableOK
  <2> QED  BY <2>1, ParseLineType DEF Parsed
<1>2. new.sample.page = state.sample.page /\ new.sample.lat = lines[k].lat /\ new.stats = state.stats
  BY <1>1 DEF ParseLine, States, ReadSamples
<1>3. Open(lines, k) = Open(lines, k - 1) \cup {k}
  BY OpenGrows DEF Ends
<1>4. \A j \in Open(lines, k - 1) : lines[j].kind # "LAT"
  BY OpenHasOne
<1>5. state.sample.lat = 0
  BY <1>4 DEF Parsed
<1> HIDE DEF new
<1>6. /\ \A j \in Open(lines, k) : lines[j].kind = "VA" => lines[j].page = new.sample.page
      /\ \A j \in Open(lines, k) : lines[j].kind = "LAT" => lines[j].lat = new.sample.lat
      /\ new.sample.page # NoPage => \E j \in Open(lines, k) : lines[j].kind = "VA"
      /\ new.sample.lat # 0 => \E j \in Open(lines, k) : lines[j].kind = "LAT"
  BY <1>2, <1>3, <1>4 DEF Parsed
<1>7. k - 1 \in 0..Len(lines)
  BY DEF ParsableOK
<1>8. ASSUME NEW p \in Pages
      PROVE  /\ LastFlush(new)[p].n = Sum(Ones(lines), Addresses(lines, p, k))
             /\ LastFlush(new)[p].lat = Sum(Latency(lines), Latencies(lines, p, k))
  <2> DEFINE L == Latencies(lines, p, k - 1)
  <2>0. /\ IsFiniteSet(L) /\ L \subseteq 1..Len(lines)
        /\ \A j \in 1..Len(lines) : Latency(lines)[j] = lines[j].lat /\ lines[j].lat \in Nat
    BY <1>7, SetsFinite
  <2>1. p # NoPage /\ state.stats[p].lat \in Nat
    BY <1>1, PagesAreNat DEF NoPage, States, Stats
  <2>2. LastFlush(new)[p].n = LastFlush(state)[p].n
    BY <1>1, <1>2, FlushIs
  <2>3. Addresses(lines, p, k) = Addresses(lines, p, k - 1)
    BY AddressesGrow
  <2>4. LastFlush(state)[p].lat = state.stats[p].lat /\ LastFlush(state)[p].lat = Sum(Latency(lines), L)
    BY <1>1, <1>5, <2>1, FlushIs DEF Parsed
  <2>5. {j \in Open(lines, k - 1) : /\ lines[j].kind = "LAT"
                                    /\ lines[k].kind = "VA" /\ lines[k].page = p} = {}
    OBVIOUS
  <2>6. (\E i \in Open(lines, k - 1) : lines[i].kind = "VA" /\ lines[i].page = p)
          <=> state.sample.page = p
    BY <2>1 DEF Parsed
  <2>7. CASE state.sample.page = p
    <3>1. Latencies(lines, p, k) = L \cup {k}
      <4>1. {j \in {k} : /\ lines[k].kind = "LAT"
                         /\ \E i \in Open(lines, k - 1) : lines[i].kind = "VA" /\ lines[i].page = p} = {k}
        BY <2>6, <2>7
      <4> HIDE DEF L
      <4> QED  BY <2>5, <4>1, LatenciesGrow DEF L
    <3>2. k \notin L
      BY AddressesGrow
    <3> HIDE DEF L
    <3>3. \A y \in L \cup {k} : Latency(lines)[y] \in Int
      BY <2>0
    <3>4. Sum(Latency(lines), L \cup {k}) = Sum(Latency(lines), L) + Latency(lines)[k]
      BY <2>0, <3>2, <3>3, SumAdd
    <3>5. LastFlush(new)[p].lat = state.stats[p].lat + lines[k].lat
      BY <1>1, <1>2, <2>7, FlushIs
    <3>6. Latency(lines)[k] = lines[k].lat
      BY <2>0
    <3> QED  BY <2>2, <2>3, <2>4, <3>1, <3>4, <3>5, <3>6 DEF Parsed
  <2>8. CASE state.sample.page # p
    <3>1. Latencies(lines, p, k) = L
      <4> DEFINE B == {j \in Open(lines, k - 1) : /\ lines[j].kind = "LAT"
                                                  /\ lines[k].kind = "VA" /\ lines[k].page = p}
                 C == {j \in {k} : /\ lines[k].kind = "LAT"
                                   /\ \E i \in Open(lines, k - 1) : lines[i].kind = "VA" /\ lines[i].page = p}
      <4>1. Latencies(lines, p, k) = L \cup B \cup C
        BY LatenciesGrow
      <4>2. B = {} /\ C = {}
        BY <2>6, <2>8
      <4> HIDE DEF B, C, L
      <4> QED  BY <4>1, <4>2
    <3>2. LastFlush(new)[p].lat = state.stats[p].lat
      BY <1>1, <1>2, <2>8, FlushIs
    <3> QED  BY <2>2, <2>3, <2>4, <3>1, <3>2 DEF Parsed
  <2> QED  BY <2>7, <2>8
<1>9. Parsed(lines, k, new)
  BY <1>1, <1>6, <1>8 DEF Parsed
<1> QED  BY <1>9 DEF new

LEMMA ParsedIs ==
  ASSUME NEW lines, ParsableOK(lines), NEW worker
  PROVE  \A p \in Pages :
           /\ LastFlush(AfterLines(lines, worker))[p].n = Sum(Ones(lines), Addresses(lines, p, Len(lines)))
           /\ LastFlush(AfterLines(lines, worker))[p].lat =
              Sum(Latency(lines), Latencies(lines, p, Len(lines)))
<1> DEFINE A == AfterEach(lines, worker)  N == Len(lines)
           Bad == {k \in 0..N : ~Parsed(lines, k, A[k])}
<1>1. N \in Nat
  BY DEF ParsableOK
<1>2. A[0] = AtStart /\ \A k \in 1..N : A[k] = ParseLine(A[k - 1], lines[k], worker)
  BY <1>1, ParseSteps
<1> HIDE DEF A
<1>3. Bad = {}
  <2>1. SUFFICES ASSUME Bad # {}  PROVE FALSE
    OBVIOUS
  <2>2. Bad \in SUBSET Nat
    BY <1>1
  <2>3. PICK k \in Bad : \A m \in Bad : k <= m
    <3> HIDE DEF Bad
    <3> QED  BY <2>1, <2>2, LeastNatural
  <2>4. k \in 0..N /\ ~Parsed(lines, k, A[k])
    BY <2>3
  <2>5. k # 0
    BY <1>2, <2>4, ParsedStart
  <2>6. k - 1 \in 0..N /\ k \in 1..N
    BY <1>1, <2>4, <2>5
  <2>7. Parsed(lines, k - 1, A[k - 1])
    <3>1. k - 1 \notin Bad
      <4> HIDE DEF Bad
      <4> QED  BY <1>1, <2>3, <2>6
    <3> QED  BY <2>6, <3>1
  <2>8. lines[k].kind \in Ends \cup {"VA", "LAT", "OP", "other"}
    BY <2>6 DEF ParsableOK, LineOK, Ends
  <2>9. Parsed(lines, k, ParseLine(A[k - 1], lines[k], worker))
    BY <2>6, <2>7, <2>8, ParsedEnd, ParsedOther, ParsedAddress, ParsedLatency
  <2> QED  BY <1>2, <2>4, <2>6, <2>9
<1>4. Parsed(lines, N, A[N])
  BY <1>1, <1>3
<1> QED  BY <1>4 DEF Parsed, AfterLines, A

-----------------------------------------------------------------------------
(* What a worker makes of a chunk. *)

Chunk(c) == c.from \in Nat /\ c.to \in Nat /\ c.from < c.to

(* The chunk has all of a line that is needed to make sense of it. *)
ReadWhole(c, g, bare_) == c.from <= 3 * (g - 1) + (IF bare_ THEN 0 ELSE 1) /\ 3 * g <= c.to

LEMMA LinesInChunk ==
  ASSUME NEW lines \in Seq(Packets), NEW c, Chunk(c), NEW bare_
  PROVE  LET read == ChunkLines(lines, c, bare_)
             first == FirstLine(c)
         IN  /\ Len(lines) \in Nat /\ Len(read) \in Nat /\ first \in Nat \ {0}
             /\ \A g \in 1..Len(lines) :
                  3 * (g - 1) < c.to /\ c.from < 3 * g => g - first + 1 \in 1..Len(read)
             /\ \A k \in 1..Len(read) :
                  LET g == first + k - 1
                  IN  /\ g \in 1..Len(lines) /\ 3 * (g - 1) < c.to /\ c.from < 3 * g
                      /\ k # 1 => c.from <= 3 * (g - 1)
                      /\ k # Len(read) => 3 * g <= c.to
<1> DEFINE read == ChunkLines(lines, c, bare_)  N == Len(lines)  first == FirstLine(c)
           last == LastLine(lines, c)  end == ChunkEnd(lines, c)  q == c.from \div 3
           z == (end - 1) \div 3
<1>1. /\ Len(read) = IF c.from < 3 * N THEN last - first + 1 ELSE 0
      /\ Len(read) \in Nat /\ (c.from < 3 * N => Len(read) # 0)
      /\ \A k \in 1..Len(read) : first + k - 1 \in 1..N
  BY ChunkLinesAre DEF Chunk
<1>2. c.from \in Nat /\ c.to \in Nat /\ c.from < c.to /\ N \in Nat
  BY DEF Chunk
<1>3. end \in Nat /\ end = IF c.to <= 3 * N THEN c.to ELSE 3 * N
  BY <1>2 DEF ChunkEnd
<1>4. first = q + 1 /\ last = z + 1
  BY DEF FirstLine, LastLine
<1> HIDE DEF read, first, last, end
<1>5. q \in Nat /\ 3 * q <= c.from /\ c.from < 3 * (q + 1)
  BY <1>2
<1>6. z \in Int /\ 3 * z <= end - 1 /\ end - 1 < 3 * (z + 1)
  BY <1>3
<1> HIDE DEF q, z
<1>7. ASSUME NEW g \in 1..N, 3 * (g - 1) < c.to, c.from < 3 * g
      PROVE  g - first + 1 \in 1..Len(read)
  <2>1. c.from < 3 * N
    BY <1>2, <1>7
  <2>2. q <= g - 1
    BY <1>2, <1>5, <1>7
  <2>3. g - 1 <= z
    BY <1>2, <1>3, <1>6, <1>7
  <2> QED  BY <1>1, <1>2, <1>4, <1>5, <1>6, <2>1, <2>2, <2>3
<1>8. ASSUME NEW k \in 1..Len(read)
      PROVE  LET g == first + k - 1
             IN  /\ g \in 1..N /\ 3 * (g - 1) < c.to /\ c.from < 3 * g
                 /\ k # 1 => c.from <= 3 * (g - 1)
                 /\ k # Len(read) => 3 * g <= c.to
  <2> DEFINE g == first + k - 1
  <2>1. g \in 1..N /\ k \in Nat /\ k >= 1 /\ k <= Len(read)
    BY <1>1
  <2>2. Len(read) = z - q + 1
    BY <1>1, <1>4, <1>5, <1>6, <2>1
  <2>3. g = q + k
    BY <1>4, <1>5, <2>1
  <2> HIDE DEF g
  <2>4. c.from < 3 * g
    BY <1>2, <1>5, <2>1, <2>3
  <2>5. 3 * (g - 1) < c.to
    BY <1>2, <1>3, <1>5, <1>6, <2>1, <2>2, <2>3
  <2>6. k # 1 => c.from <= 3 * (g - 1)
    BY <1>2, <1>5, <2>1, <2>3
  <2>7. k # Len(read) => 3 * g <= c.to
    BY <1>2, <1>3, <1>5, <1>6, <2>1, <2>2, <2>3
  <2> QED  BY <2>1, <2>4, <2>5, <2>6, <2>7 DEF g
<1>9. first \in Nat \ {0}
  BY <1>4, <1>5
<1> QED  BY <1>1, <1>2, <1>7, <1>8, <1>9 DEF read, first

LEMMA FromBounds ==
  ASSUME NEW a \in Nat, NEW g \in Nat \ {0}, a < 3 * g,
         NEW from, from = IF a <= 3 * (g - 1) THEN 0 ELSE a - 3 * (g - 1)
  PROVE  from \in {0, 1, 2} /\ (from = 0 <=> a <= 3 * (g - 1)) /\ (from <= 1 <=> a <= 3 * (g - 1) + 1)
OBVIOUS

LEMMA ToBounds ==
  ASSUME NEW b \in Nat, NEW N \in Nat, NEW g \in 1..N, 3 * (g - 1) < b,
         NEW end, end = IF b <= 3 * N THEN b ELSE 3 * N,
         NEW to, to = IF end >= 3 * g THEN 3 ELSE end - 3 * (g - 1)
  PROVE  to \in {1, 2, 3} /\ (to = 3 <=> 3 * g <= b) /\ (to = 2 => b = 3 * g - 1)
<1>1. g \in Nat /\ g <= N /\ 3 * g <= 3 * N
  OBVIOUS
<1>2. end \in Nat /\ (end >= 3 * g <=> 3 * g <= b) /\ (end < 3 * g => end = b)
  BY <1>1
<1> QED  BY <1>1, <1>2

LEMMA PieceBounds ==
  ASSUME NEW c, Chunk(c), NEW lines, Len(lines) \in Nat, NEW g \in 1..Len(lines),
         3 * (g - 1) < c.to, c.from < 3 * g
  PROVE  /\ PieceFrom(c, g) \in {0, 1, 2} /\ (PieceFrom(c, g) = 0 <=> c.from <= 3 * (g - 1))
         /\ PieceFrom(c, g) <= 1 <=> c.from <= 3 * (g - 1) + 1
         /\ PieceTo(lines, c, g) \in {1, 2, 3} /\ (PieceTo(lines, c, g) = 3 <=> 3 * g <= c.to)
         /\ PieceTo(lines, c, g) = 2 => c.to = 3 * g - 1
<1>1. c.from \in Nat /\ c.to \in Nat /\ g \in Nat \ {0}
  BY DEF Chunk
<1>2. PieceFrom(c, g) = IF c.from <= 3 * (g - 1) THEN 0 ELSE c.from - 3 * (g - 1)
  BY DEF PieceFrom
<1>3. /\ PieceFrom(c, g) \in {0, 1, 2} /\ (PieceFrom(c, g) = 0 <=> c.from <= 3 * (g - 1))
      /\ PieceFrom(c, g) <= 1 <=> c.from <= 3 * (g - 1) + 1
  <2> DEFINE a == c.from  from == PieceFrom(c, g)
  <2>1. a \in Nat /\ a < 3 * g /\ from = IF a <= 3 * (g - 1) THEN 0 ELSE a - 3 * (g - 1)
    BY <1>1, <1>2
  <2> HIDE DEF a, from
  <2>2. from \in {0, 1, 2} /\ (from = 0 <=> a <= 3 * (g - 1)) /\ (from <= 1 <=> a <= 3 * (g - 1) + 1)
    BY <1>1, <2>1, FromBounds
  <2> QED  BY <2>2 DEF a, from
<1>4. /\ PieceTo(lines, c, g) \in {1, 2, 3} /\ (PieceTo(lines, c, g) = 3 <=> 3 * g <= c.to)
      /\ PieceTo(lines, c, g) = 2 => c.to = 3 * g - 1
  <2> DEFINE b == c.to  N == Len(lines)  end == ChunkEnd(lines, c)  to == PieceTo(lines, c, g)
  <2>1. /\ b \in Nat /\ N \in Nat /\ g \in 1..N /\ 3 * (g - 1) < b
        /\ end = IF b <= 3 * N THEN b ELSE 3 * N
        /\ to = IF end >= 3 * g THEN 3 ELSE end - 3 * (g - 1)
    BY <1>1 DEF ChunkEnd, PieceTo
  <2> HIDE DEF b, N, end, to
  <2>2. to \in {1, 2, 3} /\ (to = 3 <=> 3 * g <= b) /\ (to = 2 => b = 3 * g - 1)
    BY <2>1, ToBounds
  <2> QED  BY <2>2 DEF b, to
<1> QED  BY <1>3, <1>4

LEMMA PiecesAre ==
  ASSUME NEW lines \in Seq(Packets), NEW c, Chunk(c), NEW bare_,
         NEW k \in 1..Len(ChunkLines(lines, c, bare_)), NEW g, g = FirstLine(c) + k - 1
  PROVE  LET l == ChunkLines(lines, c, bare_)[k]
         IN  /\ LineOK(l) /\ l.kind \in {lines[g].kind, "other"} /\ l.lat = lines[g].lat
             /\ k # 1 /\ k # Len(ChunkLines(lines, c, bare_)) => l = lines[g]
             /\ l.kind = "LAT" <=> lines[g].kind = "LAT" /\ ReadWhole(c, g, bare_)
             /\ l.kind = "VA" /\ l.page # Junk <=> lines[g].kind = "VA" /\ ReadWhole(c, g, bare_)
             /\ l.kind = "VA" /\ l.page # Junk => l.page = lines[g].page
             /\ l.kind = "VA" /\ l.page = Junk => c.to = 3 * g - 1
<1> DEFINE l == ChunkLines(lines, c, bare_)[k]  from == PieceFrom(c, g)  to == PieceTo(lines, c, g)
           L == lines[g]
<1>1. /\ g \in 1..Len(lines) /\ l = Piece(lines[g], from, to, bare_) /\ LineOK(l)
  BY ChunkLinesAre DEF Chunk
<1>2. /\ Len(lines) \in Nat /\ 3 * (g - 1) < c.to /\ c.from < 3 * g
      /\ k # 1 => c.from <= 3 * (g - 1)
      /\ k # Len(ChunkLines(lines, c, bare_)) => 3 * g <= c.to
  BY LinesInChunk
<1>3. c.from \in Nat /\ c.to \in Nat
  BY DEF Chunk
<1>e. /\ from \in {0, 1, 2} /\ (from = 0 <=> c.from <= 3 * (g - 1))
      /\ (from <= 1 <=> c.from <= 3 * (g - 1) + 1)
      /\ to \in {1, 2, 3} /\ (to = 3 <=> 3 * g <= c.to) /\ (to = 2 => c.to = 3 * g - 1)
  BY <1>1, <1>2, PieceBounds
<1> HIDE DEF from, to
<1>4. /\ from \in {0, 1, 2} /\ (from = 0 <=> c.from <= 3 * (g - 1))
      /\ (from <= 1 <=> c.from <= 3 * (g - 1) + 1)
  BY <1>e
<1>5. to \in {1, 2, 3} /\ (to = 3 <=> 3 * g <= c.to) /\ (to = 2 => c.to = 3 * g - 1)
  BY <1>e
<1>6. L \in Packets
  BY <1>1
<1>7. ReadWhole(c, g, bare_) <=> (from = 0 \/ (from = 1 /\ ~bare_)) /\ to = 3
  <2>1. c.from <= 3 * (g - 1) + 0 <=> from = 0
    <3>1. 3 * (g - 1) + 0 = 3 * (g - 1)
      BY <1>1
    <3> QED  BY <1>4, <3>1
  <2>2. CASE bare_
    <3>1. ReadWhole(c, g, bare_) <=> c.from <= 3 * (g - 1) + 0 /\ 3 * g <= c.to
      BY <2>2 DEF ReadWhole
    <3> QED  BY <1>5, <2>1, <2>2, <3>1
  <2>3. CASE ~bare_
    <3>1. ReadWhole(c, g, bare_) <=> c.from <= 3 * (g - 1) + 1 /\ 3 * g <= c.to
      BY <2>3 DEF ReadWhole
    <3>2. from <= 1 <=> from = 0 \/ from = 1
      BY <1>4
    <3> QED  BY <1>4, <1>5, <2>3, <3>1, <3>2
  <2> QED  BY <2>2, <2>3
<1>8. L.page # Junk /\ L.kind # "other"
  BY <1>6, PacketsAreLines
<1>9. /\ [L EXCEPT !.kind = "other"].kind = "other" /\ [L EXCEPT !.kind = "other"].lat = L.lat
      /\ [L EXCEPT !.page = Junk].kind = L.kind /\ [L EXCEPT !.page = Junk].lat = L.lat
      /\ [L EXCEPT !.page = Junk].page = Junk
  BY <1>6 DEF Packets
<1> DEFINE other == [L EXCEPT !.kind = "other"]  junk == [L EXCEPT !.page = Junk]
           named == from = 0 \/ (from = 1 /\ ~bare_)
<1>10. \/ l = L /\ named /\ to = 3
       \/ l = L /\ named /\ to = 2 /\ L.kind \in {"PC", "TS"}
       \/ l = junk /\ named /\ to = 2 /\ L.kind = "VA"
       \/ l = other /\ ~(named /\ to = 3)
  BY <1>1, <1>5 DEF Piece, LineUnits
<1> HIDE DEF l, other, junk, named, L
<1>11. ReadWhole(c, g, bare_) <=> named /\ to = 3
  BY <1>7 DEF named
<1>12. to = 2 => c.to = 3 * g - 1
  BY <1>5
<1>13. /\ other.kind = "other" /\ other.lat = L.lat
       /\ junk.kind = L.kind /\ junk.lat = L.lat /\ junk.page = Junk
  BY <1>9 DEF other, junk
<1>14. /\ l.kind \in {L.kind, "other"} /\ l.lat = L.lat
       /\ l.kind = "LAT" <=> L.kind = "LAT" /\ ReadWhole(c, g, bare_)
       /\ l.kind = "VA" /\ l.page # Junk <=> L.kind = "VA" /\ ReadWhole(c, g, bare_)
       /\ l.kind = "VA" /\ l.page # Junk => l.page = L.page
       /\ l.kind = "VA" /\ l.page = Junk => c.to = 3 * g - 1
  BY <1>8, <1>10, <1>11, <1>12, <1>13
<1>15. k # 1 /\ k # Len(ChunkLines(lines, c, bare_)) => l = L
  <2>1. k # 1 /\ k # Len(ChunkLines(lines, c, bare_)) => named /\ to = 3
    BY <1>2, <1>4, <1>5 DEF named
  <2> QED  BY <1>10, <2>1
<1> QED  BY <1>1, <1>14, <1>15 DEF l, L

LEMMA SumReindex ==
  ASSUME NEW S, IsFiniteSet(S), NEW f, NEW e, NEW h,
         \A x \in S : f[x] \in Int /\ e[h[x]] = f[x],
         \A x, y \in S : h[x] = h[y] => x = y
  PROVE  Sum(f, S) = Sum(e, {h[x] : x \in S})
<1> DEFINE img(s) == {h[x] : x \in s}
           C == {s \in SUBSET S : Sum(f, s) # Sum(e, img(s))}
<1>1. SUFFICES ASSUME C # {}  PROVE FALSE
  OBVIOUS
<1>2. \A u \in SUBSET S : IsFiniteSet(u) /\ Cardinality(u) \in Nat
  BY FS_Subset, FS_CardinalityType
<1>3. PICK u \in C : \A v \in C : Cardinality(u) <= Cardinality(v)
  BY <1>1, <1>2, SmallestSet
<1>4. u # {}
  <2>1. u = {} => Sum(f, u) = 0 /\ img(u) = {}
    BY SumEmpty
  <2>2. Sum(e, {}) = 0
    BY SumEmpty
  <2> HIDE DEF img
  <2> QED  BY <1>3, <2>1, <2>2
<1>5. PICK x \in u : TRUE
  BY <1>4
<1> DEFINE v == u \ {x}
<1>6. Cardinality(v) = Cardinality(u) - 1 /\ v \in SUBSET S /\ x \in S /\ u \in SUBSET S
  BY <1>2, <1>3, <1>5, FS_RemoveElement
<1>7. Sum(f, v) = Sum(e, img(v))
  <2>1. v \notin C
    BY <1>2, <1>3, <1>6
  <2> QED  BY <1>6, <2>1
<1>8. Sum(f, u) = f[x] + Sum(f, v)
  BY <1>2, <1>5, <1>6, SumRemove
<1>9. img(u) = img(v) \cup {h[x]} /\ h[x] \notin img(v)
  BY <1>5, <1>6
<1>10. IsFiniteSet(img(v)) /\ \A y \in img(v) \cup {h[x]} : e[y] \in Int
  <2>1. IsFiniteSet(v)
    BY <1>2, <1>6
  <2>2. IsFiniteSet(img(v))
    BY <2>1, FiniteImage
  <2> QED  BY <1>6, <2>2
<1> HIDE DEF v
<1>11. Sum(e, img(v) \cup {h[x]}) = Sum(e, img(v)) + e[h[x]]
  <2> DEFINE w == img(v)  z == h[x]
  <2>0. IsFiniteSet(w) /\ z \notin w /\ \A y \in w \cup {z} : e[y] \in Int
    BY <1>9, <1>10
  <2> HIDE DEF w, z
  <2>1. Sum(e, w \cup {z}) = Sum(e, w) + e[z]
    BY <2>0, SumAdd
  <2> QED  BY <2>1 DEF w, z
<1>12. Sum(f, v) \in Int /\ f[x] \in Int /\ e[h[x]] = f[x]
  <2>1. IsFiniteSet(v) /\ \A y \in v : f[y] \in Int
    BY <1>2, <1>6
  <2> QED  BY <1>6, <2>1, SumInt
<1>13. Sum(e, img(u)) = Sum(f, v) + f[x]
  <2> HIDE DEF img
  <2> QED  BY <1>7, <1>9, <1>11, <1>12
<1>14. Sum(f, u) # Sum(e, img(u))
  BY <1>3
<1> HIDE DEF img
<1> QED  BY <1>8, <1>12, <1>13, <1>14

MyAddresses(lines, c, bare_, p) ==
  {g \in Addresses(lines, p, Len(lines)) : ReadWhole(c, g, bare_)}
MyLatencies(lines, c, bare_, p) ==
  {g \in 1..Len(lines) :
     /\ lines[g].kind = "LAT" /\ ReadWhole(c, g, bare_)
     /\ \E i \in 1..Len(lines) : /\ lines[i].kind = "VA" /\ lines[i].page = p
                                 /\ ReadWhole(c, i, bare_) /\ Near(lines, i, g)}

LEMMA WholeIsInside ==
  ASSUME NEW lines \in Seq(Packets), NEW c, Chunk(c), NEW bare_, NEW g \in 1..Len(lines),
         ReadWhole(c, g, bare_)
  PROVE  /\ g - FirstLine(c) + 1 \in 1..Len(ChunkLines(lines, c, bare_))
         /\ g = FirstLine(c) + (g - FirstLine(c) + 1) - 1
<1>1. c.from \in Nat /\ c.to \in Nat /\ g \in Nat \ {0} /\ FirstLine(c) \in Nat
  BY LinesInChunk DEF Chunk
<1>2. c.from <= 3 * (g - 1) + 1 /\ 3 * g <= c.to
  BY <1>1 DEF ReadWhole
<1>3. 3 * (g - 1) < c.to /\ c.from < 3 * g
  BY <1>1, <1>2
<1>4. g - FirstLine(c) + 1 \in 1..Len(ChunkLines(lines, c, bare_))
  BY <1>3, LinesInChunk
<1> QED  BY <1>1, <1>4

LEMMA ChunkNear ==
  ASSUME NEW lines \in Seq(Packets), NEW c, Chunk(c), NEW bare_,
         NEW i \in 1..Len(ChunkLines(lines, c, bare_)), NEW j \in 1..Len(ChunkLines(lines, c, bare_)),
         NEW gi, gi = FirstLine(c) + i - 1, NEW gj, gj = FirstLine(c) + j - 1
  PROVE  Near(ChunkLines(lines, c, bare_), i, j) <=> Near(lines, gi, gj)
<1> DEFINE read == ChunkLines(lines, c, bare_)  first == FirstLine(c)  n == Len(read)  N == Len(lines)
<1>1. /\ N \in Nat /\ n \in Nat /\ first \in Nat \ {0}
      /\ \A k \in 1..n : first + k - 1 \in 1..N
  BY LinesInChunk
<1>2. ASSUME NEW m \in 1..n, m # 1, m # n  PROVE read[m] = lines[first + m - 1]
  BY <1>2, PiecesAre
<1> HIDE DEF read, first, n, N
<1>3. i \in 1..n /\ j \in 1..n /\ gi = first + i - 1 /\ gj = first + j - 1
  BY DEF n, read, first
<1>4. ASSUME Near(read, i, j), NEW m \in 1..N, (gi < m /\ m < gj) \/ (gj < m /\ m < gi)
      PROVE  lines[m].kind \notin Ends
  <2> DEFINE k == m - first + 1
  <2>1. k \in 1..n /\ ((i < k /\ k < j) \/ (j < k /\ k < i)) /\ first + k - 1 = m /\ k # 1 /\ k # n
    BY <1>1, <1>3, <1>4
  <2> HIDE DEF k
  <2>2. read[k] = lines[m]
    BY <1>2, <2>1
  <2> QED  BY <1>4, <2>1, <2>2 DEF Near, n
<1>5. ASSUME Near(lines, gi, gj), NEW m \in 1..n, (i < m /\ m < j) \/ (j < m /\ m < i)
      PROVE  read[m].kind \notin Ends
  <2> DEFINE g == first + m - 1
  <2>0. g \in 1..N
    BY <1>1
  <2>1. g \in 1..N /\ ((gi < g /\ g < gj) \/ (gj < g /\ g < gi)) /\ m # 1 /\ m # n
    <3>1. i \in Nat /\ j \in Nat /\ m \in Nat /\ 1 <= i /\ 1 <= j /\ i <= n /\ j <= n
      BY <1>1, <1>3
    <3>2. m # 1 /\ m # n
      BY <1>1, <1>5, <3>1
    <3>3. (gi < g /\ g < gj) \/ (gj < g /\ g < gi)
      BY <1>1, <1>3, <1>5, <3>1
    <3> QED  BY <2>0, <3>2, <3>3
  <2>2. read[m] = lines[g]
    BY <1>2, <2>1
  <2> HIDE DEF g
  <2> QED  BY <1>5, <2>1, <2>2 DEF Near, N
<1>6. Near(read, i, j) <=> Near(lines, gi, gj)
  BY <1>4, <1>5 DEF Near, n, N
<1> QED  BY <1>6 DEF read

LEMMA ChunkIsParsable ==
  ASSUME NEW lines, LinesOK(lines), NEW c, Chunk(c), NEW bare_
  PROVE  ParsableOK(ChunkLines(lines, c, bare_))
<1> DEFINE read == ChunkLines(lines, c, bare_)  first == FirstLine(c)  n == Len(read)  N == Len(lines)
<1>0. lines \in Seq(Packets) /\ OneEach(lines)
  BY DEF LinesOK
<1>1. /\ N \in Nat /\ n \in Nat /\ first \in Nat \ {0}
      /\ \A k \in 1..n : first + k - 1 \in 1..N
  BY <1>0, LinesInChunk
<1>2. ASSUME NEW k \in 1..n
      PROVE  /\ LineOK(read[k]) /\ read[k].kind \in {lines[first + k - 1].kind, "other"}
             /\ k # 1 /\ k # n => read[k] = lines[first + k - 1]
  BY <1>0, PiecesAre
<1> HIDE DEF read, first, n, N
<1>3. ASSUME NEW j \in 1..n, NEW k \in 1..n, j < k,
             read[j].kind = read[k].kind, read[k].kind \in {"VA", "LAT"}
      PROVE  \E m \in 1..n : j < m /\ m < k /\ read[m].kind = "PC"
  <2> DEFINE a == first + j - 1  b == first + k - 1
  <2>1. a \in 1..N /\ b \in 1..N /\ a < b
    BY <1>1, <1>3
  <2>2. lines[a].kind = lines[b].kind /\ lines[b].kind \in {"VA", "LAT"}
    BY <1>2, <1>3
  <2> HIDE DEF a, b
  <2>3. PICK m \in 1..N : a < m /\ m < b /\ lines[m].kind = "PC"
    BY <1>0, <2>1, <2>2 DEF OneEach, N
  <2> DEFINE i == m - first + 1
  <2>4. i \in 1..n /\ j < i /\ i < k /\ i # 1 /\ i # n /\ first + i - 1 = m
    BY <1>1, <2>3 DEF a, b
  <2> HIDE DEF i
  <2>5. read[i].kind = "PC"
    BY <1>2, <2>3, <2>4
  <2> QED  BY <2>4, <2>5
<1>4. OneEach(read)
  BY <1>3 DEF OneEach, n
<1> QED  BY <1>1, <1>2, <1>4 DEF ParsableOK, read, n

LEMMA ChunkSums ==
  ASSUME NEW lines, LinesOK(lines), NEW c, Chunk(c), NEW bare_, NEW p \in UserPages
  PROVE  LET s == LastFlush(AfterLines(ChunkLines(lines, c, bare_), TRUE))
         IN  /\ s[p].n = Sum(Ones(lines), MyAddresses(lines, c, bare_, p))
             /\ s[p].lat = Sum(Latency(lines), MyLatencies(lines, c, bare_, p))
<1> DEFINE read == ChunkLines(lines, c, bare_)  first == FirstLine(c)  n == Len(read)  N == Len(lines)
           h == [k \in 1..n |-> first + k - 1]
           A == Addresses(read, p, n)  L == Latencies(read, p, n)
<1>0. lines \in Seq(Packets) /\ p \in Pages /\ p # Junk
  BY PipelineAssumption DEF LinesOK, Pages
<1>1. /\ N \in Nat /\ n \in Nat /\ first \in Nat \ {0} /\ ParsableOK(read)
      /\ \A k \in 1..n : first + k - 1 \in 1..N
  BY <1>0, LinesInChunk, ChunkIsParsable
<1>2. ASSUME NEW k \in 1..n
      PROVE  /\ h[k] = first + k - 1 /\ h[k] \in 1..N /\ read[k].lat = lines[h[k]].lat
             /\ read[k].kind = "LAT" <=> lines[h[k]].kind = "LAT" /\ ReadWhole(c, h[k], bare_)
             /\ read[k].kind = "VA" /\ read[k].page = p <=>
                  lines[h[k]].kind = "VA" /\ lines[h[k]].page = p /\ ReadWhole(c, h[k], bare_)
  <2>1. h[k] = first + k - 1 /\ h[k] \in 1..N
    BY <1>1
  <2> HIDE DEF h
  <2>2. /\ read[k].lat = lines[h[k]].lat
        /\ read[k].kind = "LAT" <=> lines[h[k]].kind = "LAT" /\ ReadWhole(c, h[k], bare_)
        /\ read[k].kind = "VA" /\ read[k].page # Junk <=> lines[h[k]].kind = "VA" /\ ReadWhole(c, h[k], bare_)
        /\ read[k].kind = "VA" /\ read[k].page # Junk => read[k].page = lines[h[k]].page
    BY <1>0, <2>1, PiecesAre
  <2> HIDE DEF read
  <2> QED  BY <1>0, <2>1, <2>2
<1>3. \A i, j \in 1..n : Near(read, i, j) <=> Near(lines, h[i], h[j])
  <2> TAKE i \in 1..n, j \in 1..n
  <2>1. h[i] = first + i - 1 /\ h[j] = first + j - 1
    BY <1>2
  <2> HIDE DEF h
  <2> QED  BY <1>0, <2>1, ChunkNear
<1>4. ASSUME NEW g \in 1..N, ReadWhole(c, g, bare_)  PROVE \E k \in 1..n : h[k] = g
  <2>1. g - first + 1 \in 1..n /\ g = first + (g - first + 1) - 1
    BY <1>0, <1>4, WholeIsInside
  <2>2. h[g - first + 1] = g
    BY <1>2, <2>1
  <2> QED  BY <2>1, <2>2
<1>5. \A j, k \in 1..n : h[j] = h[k] => j = k
  BY <1>1
<1>6. /\ IsFiniteSet(A) /\ IsFiniteSet(L) /\ A \subseteq 1..n /\ L \subseteq 1..n
      /\ \A j \in 1..n : Ones(read)[j] = 1 /\ Latency(read)[j] = read[j].lat /\ read[j].lat \in Nat
  <2>1. n \in 0..n
    BY <1>1
  <2> QED  BY <1>1, <2>1, SetsFinite
<1>7. \A g \in 1..N : Ones(lines)[g] = 1 /\ Latency(lines)[g] = lines[g].lat
  BY DEF Ones, Latency
<1>8. LastFlush(AfterLines(read, TRUE))[p].n = Sum(Ones(read), A)
      /\ LastFlush(AfterLines(read, TRUE))[p].lat = Sum(Latency(read), L)
  BY <1>0, <1>1, ParsedIs
<1> HIDE DEF h, read, n, N, first
<1>9. {h[k] : k \in A} = MyAddresses(lines, c, bare_, p)
  <2>1. A = {k \in 1..n : read[k].kind = "VA" /\ read[k].page = p}
    BY DEF Addresses
  <2>2. MyAddresses(lines, c, bare_, p) =
          {g \in 1..N : lines[g].kind = "VA" /\ lines[g].page = p /\ ReadWhole(c, g, bare_)}
    BY DEF MyAddresses, Addresses, N
  <2> QED  BY <1>2, <1>4, <2>1, <2>2
<1>10. {h[k] : k \in L} = MyLatencies(lines, c, bare_, p)
  <2>1. L = {k \in 1..n : /\ read[k].kind = "LAT"
                          /\ \E i \in 1..n : read[i].kind = "VA" /\ read[i].page = p /\ Near(read, i, k)}
    BY DEF Latencies
  <2>2. MyLatencies(lines, c, bare_, p) =
          {g \in 1..N :
             /\ lines[g].kind = "LAT" /\ ReadWhole(c, g, bare_)
             /\ \E i \in 1..N : /\ lines[i].kind = "VA" /\ lines[i].page = p
                                /\ ReadWhole(c, i, bare_) /\ Near(lines, i, g)}
    BY DEF MyLatencies, N
  <2>3. ASSUME NEW k \in L  PROVE h[k] \in MyLatencies(lines, c, bare_, p)
    <3>1. k \in 1..n /\ read[k].kind = "LAT"
      BY <2>1
    <3>2. PICK i \in 1..n : read[i].kind = "VA" /\ read[i].page = p /\ Near(read, i, k)
      BY <2>1
    <3>3. /\ h[k] \in 1..N /\ lines[h[k]].kind = "LAT" /\ ReadWhole(c, h[k], bare_)
          /\ h[i] \in 1..N /\ lines[h[i]].kind = "VA" /\ lines[h[i]].page = p /\ ReadWhole(c, h[i], bare_)
          /\ Near(lines, h[i], h[k])
      BY <1>2, <1>3, <3>1, <3>2
    <3> QED  BY <2>2, <3>3
  <2>4. ASSUME NEW g \in MyLatencies(lines, c, bare_, p)  PROVE \E k \in L : h[k] = g
    <3>1. g \in 1..N /\ lines[g].kind = "LAT" /\ ReadWhole(c, g, bare_)
      BY <2>2
    <3>2. PICK f \in 1..N : /\ lines[f].kind = "VA" /\ lines[f].page = p
                            /\ ReadWhole(c, f, bare_) /\ Near(lines, f, g)
      BY <2>2
    <3>3. PICK k \in 1..n : h[k] = g
      BY <1>4, <3>1
    <3>4. PICK i \in 1..n : h[i] = f
      BY <1>4, <3>2
    <3>5. read[k].kind = "LAT" /\ read[i].kind = "VA" /\ read[i].page = p /\ Near(read, i, k)
      BY <1>2, <1>3, <3>1, <3>2, <3>3, <3>4
    <3> QED  BY <2>1, <3>3, <3>5
  <2> HIDE DEF L
  <2> QED  BY <2>3, <2>4
<1> HIDE DEF A, L
<1>11. Sum(Ones(read), A) = Sum(Ones(lines), {h[k] : k \in A})
  <2>1. \A x \in A : Ones(read)[x] \in Int /\ Ones(lines)[h[x]] = Ones(read)[x]
    BY <1>2, <1>6, <1>7
  <2>2. \A x, y \in A : h[x] = h[y] => x = y
    BY <1>5, <1>6
  <2>3. IsFiniteSet(A)
    BY <1>6
  <2> DEFINE f == Ones(read)  e == Ones(lines)
  <2> HIDE DEF f, e
  <2>4. Sum(f, A) = Sum(e, {h[k] : k \in A})
    BY <2>1, <2>2, <2>3, SumReindex DEF f, e
  <2> QED  BY <2>4 DEF f, e
<1>12. Sum(Latency(read), L) = Sum(Latency(lines), {h[k] : k \in L})
  <2>1. \A x \in L : Latency(read)[x] \in Int /\ Latency(lines)[h[x]] = Latency(read)[x]
    BY <1>2, <1>6, <1>7
  <2>2. \A x, y \in L : h[x] = h[y] => x = y
    BY <1>5, <1>6
  <2>3. IsFiniteSet(L)
    BY <1>6
  <2> DEFINE f == Latency(read)  e == Latency(lines)
  <2> HIDE DEF f, e
  <2>4. Sum(f, L) = Sum(e, {h[k] : k \in L})
    BY <2>1, <2>2, <2>3, SumReindex DEF f, e
  <2> QED  BY <2>4 DEF f, e
<1> QED  BY <1>8, <1>9, <1>10, <1>11, <1>12 DEF read

(* A worker invents a page only when its chunk ends in an address. *)
CutAt(lines, c, g) == c.to = 3 * g - 1

LEMMA ChunkJunk ==
  ASSUME NEW lines, LinesOK(lines), NEW c, Chunk(c), NEW bare_
  PROVE  LET s == LastFlush(AfterLines(ChunkLines(lines, c, bare_), TRUE))
         IN  /\ s[Junk].n \in {0, 1}
             /\ (\A g \in 1..Len(lines) : ~CutAt(lines, c, g)) => s[Junk].n = 0 /\ s[Junk].lat = 0
<1> DEFINE read == ChunkLines(lines, c, bare_)  first == FirstLine(c)  n == Len(read)
           A == Addresses(read, Junk, n)  L == Latencies(read, Junk, n)
<1>0. lines \in Seq(Packets) /\ Junk \in Pages /\ c.to \in Nat
  BY DEF LinesOK, Pages, Chunk
<1>1. /\ n \in Nat /\ first \in Nat \ {0} /\ ParsableOK(read)
      /\ \A k \in 1..n : first + k - 1 \in 1..Len(lines)
  BY <1>0, LinesInChunk, ChunkIsParsable
<1>2. \A k \in A : k \in 1..n /\ CutAt(lines, c, first + k - 1)
  <2> TAKE k \in A
  <2>1. k \in 1..n /\ read[k].kind = "VA" /\ read[k].page = Junk
    BY DEF Addresses
  <2>2. c.to = 3 * (first + k - 1) - 1
    <3> DEFINE g == first + k - 1
    <3>1. read[k].kind = "VA" /\ read[k].page = Junk => c.to = 3 * g - 1
      BY <1>0, <2>1, PiecesAre
    <3> QED  BY <2>1, <3>1
  <2> QED  BY <2>1, <2>2 DEF CutAt
<1>3. LastFlush(AfterLines(read, TRUE))[Junk].n = Sum(Ones(read), A)
      /\ LastFlush(AfterLines(read, TRUE))[Junk].lat = Sum(Latency(read), L)
  BY <1>0, <1>1, ParsedIs
<1>4. A = {} => L = {}
  BY DEF Addresses, Latencies
<1>5. \A k \in 1..n : Ones(read)[k] = 1
  BY DEF Ones
<1> HIDE DEF A, L, read, n, first
<1>6. \A j, k \in A : j = k
  BY <1>0, <1>1, <1>2 DEF CutAt
<1>7. CASE A = {}
  <2>1. Sum(Ones(read), A) = 0 /\ Sum(Latency(read), L) = 0
    BY <1>4, <1>7, SumEmpty
  <2> QED  BY <1>3, <2>1 DEF read
<1>8. CASE A # {}
  <2>1. PICK k \in A : TRUE
    BY <1>8
  <2>2. A = {k} /\ k \in 1..n
    BY <1>2, <1>6, <2>1
  <2>3. IsFiniteSet({k}) /\ \A x \in {k} : Ones(read)[x] = 1
    BY <1>5, <2>2, FS_Singleton
  <2>4. Sum(Ones(read), {k}) = Cardinality({k}) /\ Cardinality({k}) = 1
    BY <2>3, SumConstant, FS_Singleton
  <2>5. first + k - 1 \in 1..Len(lines) /\ CutAt(lines, c, first + k - 1)
    BY <1>1, <1>2, <2>2
  <2> QED  BY <1>3, <2>2, <2>4, <2>5 DEF read
<1> QED  BY <1>7, <1>8

LEMMA PacketsParse ==
  ASSUME NEW lines, LinesOK(lines)
  PROVE  ParsableOK(lines)
BY PacketsAreLines DEF LinesOK, ParsableOK

LEMMA WholeJunk ==
  ASSUME NEW lines, LinesOK(lines)
  PROVE  parse_stream(lines)[Junk].n = 0 /\ parse_stream(lines)[Junk].lat = 0
<1>1. Addresses(lines, Junk, Len(lines)) = {} /\ Latencies(lines, Junk, Len(lines)) = {}
  <2>1. \A k \in 1..Len(lines) : lines[k].page # Junk
    BY PacketsAreLines DEF LinesOK
  <2> QED  BY <2>1 DEF Addresses, Latencies
<1>2. Junk \in Pages /\ ParsableOK(lines)
  BY PacketsParse DEF Pages
<1>3. /\ parse_stream(lines)[Junk].n = Sum(Ones(lines), {})
      /\ parse_stream(lines)[Junk].lat = Sum(Latency(lines), {})
  BY <1>1, <1>2, ParsedIs DEF parse_stream
<1> QED  BY <1>3, SumEmpty

(* Sums over parts that have nothing in common. *)
LEMMA SumOfSums ==
  ASSUME NEW I, IsFiniteSet(I), NEW M, NEW f, NEW g,
         \A i \in I : IsFiniteSet(M[i]) /\ g[i] = Sum(f, M[i]) /\ \A x \in M[i] : f[x] \in Nat,
         \A i, j \in I : i # j => M[i] \cap M[j] = {}
  PROVE  /\ IsFiniteSet(UNION {M[i] : i \in I})
         /\ Sum(g, I) = Sum(f, UNION {M[i] : i \in I})
<1> DEFINE U(J) == UNION {M[i] : i \in J}
           C == {J \in SUBSET I : ~(IsFiniteSet(U(J)) /\ Sum(g, J) = Sum(f, U(J)))}
<1>1. SUFFICES ASSUME C # {}  PROVE FALSE
  OBVIOUS
<1>2. \A J \in SUBSET I : IsFiniteSet(J) /\ Cardinality(J) \in Nat
  BY FS_Subset, FS_CardinalityType
<1>3. PICK J \in C : \A K \in C : Cardinality(J) <= Cardinality(K)
  BY <1>1, <1>2, SmallestSet
<1>4. J # {}
  <2>1. U({}) = {} /\ Sum(g, {}) = 0 /\ Sum(f, {}) = 0 /\ IsFiniteSet({})
    BY SumEmpty, FS_EmptySet
  <2> HIDE DEF U
  <2> QED  BY <1>3, <2>1
<1>5. PICK x \in J : TRUE
  BY <1>4
<1> DEFINE K == J \ {x}
<1>6. Cardinality(K) = Cardinality(J) - 1 /\ K \in SUBSET I /\ x \in I /\ J \in SUBSET I
  BY <1>2, <1>3, <1>5, FS_RemoveElement
<1>7. IsFiniteSet(U(K)) /\ Sum(g, K) = Sum(f, U(K))
  <2>1. K \notin C
    BY <1>2, <1>3, <1>6
  <2> QED  BY <1>6, <2>1
<1>8. U(J) = U(K) \cup M[x] /\ U(K) \cap M[x] = {}
  BY <1>5, <1>6
<1>9. \A y \in U(J) : f[y] \in Nat
  BY <1>6
<1>10. IsFiniteSet(M[x]) /\ g[x] = Sum(f, M[x])
  BY <1>6
<1>11. \A i \in J : g[i] \in Int
  <2>1. \A i \in J : IsFiniteSet(M[i]) /\ g[i] = Sum(f, M[i]) /\ \A y \in M[i] : f[y] \in Int
    BY <1>6
  <2> QED  BY <2>1, SumInt
<1>12. Sum(g, J) = g[x] + Sum(g, K)
  BY <1>2, <1>5, <1>6, <1>11, SumRemove
<1>a. ~(IsFiniteSet(U(J)) /\ Sum(g, J) = Sum(f, U(J)))
  BY <1>3
<1> HIDE DEF U, K
<1>13. IsFiniteSet(U(J))
  <2> DEFINE S == U(K)  T == M[x]
  <2>1. IsFiniteSet(S)
    BY <1>7
  <2>2. IsFiniteSet(T)
    BY <1>10
  <2> HIDE DEF S, T
  <2>3. IsFiniteSet(S \cup T)
    BY <2>1, <2>2, FS_Union
  <2> QED  BY <1>8, <2>3 DEF S, T
<1>14. Sum(f, U(J)) = Sum(f, M[x]) + Sum(f, U(K))
  <2> DEFINE S == U(J)  T == M[x]
  <2>1. T \in SUBSET S /\ S \ T = U(K) /\ \A y \in S : f[y] \in Int
    BY <1>8, <1>9
  <2> HIDE DEF S, T
  <2>2. Sum(f, S) = Sum(f, T) + Sum(f, S \ T)
    BY <1>13, <2>1, SumSplit DEF S
  <2> QED  BY <2>1, <2>2 DEF S, T
<1> QED  BY <1>7, <1>10, <1>12, <1>13, <1>14, <1>a

-----------------------------------------------------------------------------
(* Chunks one behind the other, from the start of the file to its end.     *)

Splits(lines, C) ==
  /\ Len(lines) \in Nat /\ Len(C) \in Nat \ {0}
  /\ \A i \in 1..Len(C) : Chunk(C[i]) /\ (i # 1 => C[i].from = C[i - 1].to)
  /\ \A i, j \in 1..Len(C) : i < j => C[i].to < C[j].to
  /\ C[1].from = 0 /\ C[Len(C)].to >= 3 * Len(lines)

LEMMA ChunksSplit ==
  ASSUME NEW lines, Len(lines) \in Nat, NEW w \in Nat \ {0}, NEW bare_, Len(chunks(lines, w, bare_)) # 0
  PROVE  Splits(lines, chunks(lines, w, bare_))
<1> DEFINE C == chunks(lines, w, bare_)
<1>1. /\ Len(C) \in Nat /\ Len(C) # 0
      /\ \A i \in 1..Len(C) : /\ C[i].from \in Nat /\ C[i].to \in Nat /\ C[i].from < C[i].to
                              /\ i # 1 => C[i].from = C[i - 1].to
      /\ \A i, j \in 1..Len(C) : i < j => C[i].to < C[j].to
      /\ IF Len(C) = 0 THEN Size(lines) = 0
         ELSE C[1].from = 0 /\ C[Len(C)].to >= Size(lines)
  BY ChunksAre
<1> HIDE DEF C
<1>2. Splits(lines, C)
  BY <1>1 DEF Splits, Chunk, Size, LineUnits
<1> QED  BY <1>2 DEF C

LEMMA LaterChunk ==
  ASSUME NEW lines, NEW C, Splits(lines, C), NEW i \in 1..Len(C), NEW j \in 1..Len(C), i < j
  PROVE  C[i].to <= C[j].from /\ C[i].to < C[j].to
<1>1. j - 1 \in 1..Len(C) /\ j # 1 /\ (i = j - 1 \/ i < j - 1)
  BY DEF Splits
<1>2. C[j].from = C[j - 1].to /\ C[i].to \in Nat /\ C[j - 1].to \in Nat
  BY <1>1 DEF Splits, Chunk
<1>3. i < j - 1 => C[i].to < C[j - 1].to
  BY <1>1 DEF Splits
<1>4. C[i].to <= C[j].from
  BY <1>1, <1>2, <1>3
<1> QED  BY <1>4 DEF Splits

(* Some worker has the line whole. *)
Reads(C, bare_, g) == \E i \in 1..Len(C) : ReadWhole(C[i], g, bare_)

LEMMA ReaderIsIn ==
  ASSUME NEW c, Chunk(c), NEW g \in Nat \ {0}, NEW bare_, ReadWhole(c, g, bare_)
  PROVE  c.from \in Nat /\ c.to \in Nat /\ c.from <= 3 * (g - 1) + 1 /\ 3 * g <= c.to
BY DEF Chunk, ReadWhole

LEMMA OneReader ==
  ASSUME NEW lines, NEW C, Splits(lines, C), NEW bare_, NEW g \in 1..Len(lines),
         NEW i \in 1..Len(C), NEW j \in 1..Len(C),
         ReadWhole(C[i], g, bare_), ReadWhole(C[j], g, bare_)
  PROVE  i = j
<1>1. g \in Nat \ {0} /\ i \in Int /\ j \in Int /\ Chunk(C[i]) /\ Chunk(C[j])
  BY DEF Splits
<1>2. /\ C[i].from \in Nat /\ C[i].to \in Nat /\ C[i].from <= 3 * (g - 1) + 1 /\ 3 * g <= C[i].to
      /\ C[j].from \in Nat /\ C[j].to \in Nat /\ C[j].from <= 3 * (g - 1) + 1 /\ 3 * g <= C[j].to
  BY <1>1, ReaderIsIn
<1>3. ~(i < j)
  <2>1. i < j => C[i].to <= C[j].from
    BY LaterChunk
  <2> QED  BY <1>1, <1>2, <2>1
<1>4. ~(j < i)
  <2>1. j < i => C[j].to <= C[i].from
    BY LaterChunk
  <2> QED  BY <1>1, <1>2, <2>1
<1> QED  BY <1>1, <1>3, <1>4

LEMMA Owner ==
  ASSUME NEW lines, NEW C, Splits(lines, C), NEW g \in 1..Len(lines)
  PROVE  \E i \in 1..Len(C) : C[i].from < 3 * g /\ 3 * g <= C[i].to
<1> DEFINE T == {i \in 1..Len(C) : 3 * g <= C[i].to}
<1>1. Len(C) \in Nat \ {0} /\ g \in Nat \ {0} /\ g <= Len(lines) /\ Len(lines) \in Nat
      /\ \A i \in 1..Len(C) : C[i].from \in Nat /\ C[i].to \in Nat
  BY DEF Splits, Chunk
<1>2. Len(C) \in T
  <2>1. C[Len(C)].to >= 3 * Len(lines) /\ C[Len(C)].to \in Nat
    BY <1>1 DEF Splits
  <2> QED  BY <1>1, <2>1
<1>3. T \in SUBSET Nat /\ T # {}
  BY <1>2
<1>4. PICK i \in T : \A j \in T : i <= j
  BY <1>3, LeastNatural
<1>5. i \in 1..Len(C) /\ 3 * g <= C[i].to /\ i \in Nat
  BY <1>1, <1>4
<1>6. CASE i = 1
  <2>1. C[i].from = 0
    BY <1>6 DEF Splits
  <2> QED  BY <1>1, <1>5, <2>1
<1>7. CASE i # 1
  <2>1. i - 1 \in 1..Len(C) /\ ~(i <= i - 1)
    BY <1>1, <1>5, <1>7
  <2>2. i - 1 \notin T
    BY <1>4, <2>1
  <2>3. C[i].from = C[i - 1].to
    BY <1>5, <1>7 DEF Splits
  <2>4. C[i - 1].to < 3 * g
    BY <1>1, <2>1, <2>2
  <2> QED  BY <1>5, <2>3, <2>4
<1> QED  BY <1>6, <1>7

(* The cuts of the file: see Cuts. *)
Cutting(lines, C) ==
  {C[i].to : i \in 1..Len(C)} \
    ({q \in Int : q >= 3 * Len(lines)} \cup
     {3 * (k - 1) : k \in {j \in 1..Len(lines) : lines[j].kind = "PC"}})

LEMMA CuttingFinite ==
  ASSUME NEW lines, NEW C, Splits(lines, C)
  PROVE  IsFiniteSet(Cutting(lines, C)) /\ Cutting(lines, C) \subseteq Nat
<1> DEFINE f == [i \in 1..Len(C) |-> C[i].to]  S == {f[i] : i \in 1..Len(C)}
<1>1. IsFiniteSet(1..Len(C))
  BY FS_Interval DEF Splits
<1>2. IsFiniteSet(S)
  <2> HIDE DEF f
  <2> QED  BY <1>1, FiniteImage
<1>3. Cutting(lines, C) \in SUBSET S /\ \A x \in S : x \in Nat
  BY DEF Cutting, Splits, Chunk
<1> HIDE DEF S
<1> QED  BY <1>2, <1>3, FS_Subset

LEMMA InCutting ==
  ASSUME NEW lines, NEW C, Splits(lines, C), NEW i \in 1..Len(C), NEW g \in 1..Len(lines),
         3 * (g - 1) < C[i].to, C[i].to < 3 * g
  PROVE  C[i].to \in Cutting(lines, C)
<1>1. C[i].to \in Nat /\ g \in Nat \ {0} /\ g <= Len(lines) /\ Len(lines) \in Nat
  BY DEF Splits, Chunk
<1>2. ~(C[i].to >= 3 * Len(lines))
  BY <1>1
<1>3. ASSUME NEW k \in 1..Len(lines)  PROVE C[i].to # 3 * (k - 1)
  BY <1>1
<1> QED  BY <1>2, <1>3 DEF Cutting

(* A line that nobody has whole is cut, or has its start cut off. *)
LEMMA LostIsCut ==
  ASSUME NEW lines, NEW C, Splits(lines, C), NEW bare_, NEW g \in 1..Len(lines), ~Reads(C, bare_, g)
  PROVE  \E q \in Cutting(lines, C) : 3 * (g - 1) < q /\ q < 3 * g
<1>1. PICK i \in 1..Len(C) : C[i].from < 3 * g /\ 3 * g <= C[i].to
  BY Owner
<1>2. C[i].from \in Nat /\ g \in Nat \ {0} /\ Len(C) \in Nat
  BY DEF Splits, Chunk
<1>3. ~(C[i].from <= 3 * (g - 1) + (IF bare_ THEN 0 ELSE 1))
  BY <1>1 DEF Reads, ReadWhole
<1>4. 3 * (g - 1) < C[i].from
  BY <1>2, <1>3
<1>5. i # 1
  <2>1. i = 1 => C[i].from = 0
    BY DEF Splits
  <2> QED  BY <1>2, <1>4, <2>1
<1>6. i - 1 \in 1..Len(C) /\ C[i].from = C[i - 1].to
  BY <1>2, <1>5 DEF Splits
<1>7. C[i - 1].to \in Cutting(lines, C)
  BY <1>1, <1>4, <1>6, InCutting
<1> QED  BY <1>1, <1>4, <1>6, <1>7

LEMMA NoMoreLostThanCut ==
  ASSUME NEW lines, NEW C, Splits(lines, C), NEW bare_,
         NEW L \in SUBSET (1..Len(lines)), \A g \in L : ~Reads(C, bare_, g)
  PROVE  IsFiniteSet(L) /\ Cardinality(L) <= Cardinality(Cutting(lines, C))
<1> DEFINE T == Cutting(lines, C)
           h == [g \in L |-> CHOOSE q \in T : 3 * (g - 1) < q /\ q < 3 * g]
<1>1. IsFiniteSet(T) /\ T \subseteq Nat
  BY CuttingFinite
<1>2. \A g \in L : \E q \in T : 3 * (g - 1) < q /\ q < 3 * g
  BY LostIsCut
<1>3. \A g \in L : g \in Nat /\ h[g] \in T /\ 3 * (g - 1) < h[g] /\ h[g] < 3 * g
  <2> HIDE DEF T
  <2> QED  BY <1>2 DEF Splits
<1> HIDE DEF T
<1>4. h \in [L -> T]
  BY <1>3
<1> HIDE DEF h
<1>5. \A f, g \in L : h[f] = h[g] => f = g
  <2> TAKE f \in L, g \in L
  <2> HAVE h[f] = h[g]
  <2>1. h[f] \in Nat /\ f \in Nat /\ g \in Nat
    BY <1>1, <1>3
  <2>2. 3 * (f - 1) < h[f] /\ h[f] < 3 * f /\ 3 * (g - 1) < h[f] /\ h[f] < 3 * g
    BY <1>3
  <2> QED  BY <2>1, <2>2
<1>6. h \in Injection(L, T)
  BY <1>4, <1>5 DEF Injection, IsInjective
<1> QED  BY <1>1, <1>6, FS_Injection DEF T

LEMMA SumZero ==
  ASSUME NEW S, IsFiniteSet(S), NEW f, \A x \in S : f[x] = 0
  PROVE  Sum(f, S) = 0
<1> DEFINE C == {s \in SUBSET S : Sum(f, s) # 0}
<1>1. SUFFICES ASSUME C # {}  PROVE FALSE
  OBVIOUS
<1>2. \A u \in SUBSET S : IsFiniteSet(u) /\ Cardinality(u) \in Nat
  BY FS_Subset, FS_CardinalityType
<1>3. PICK u \in C : \A v \in C : Cardinality(u) <= Cardinality(v)
  BY <1>1, <1>2, SmallestSet
<1>4. u # {} /\ Pick(u) \in u
  BY <1>3, SumEmpty DEF Pick
<1>5. Cardinality(u \ {Pick(u)}) = Cardinality(u) - 1
  BY <1>2, <1>4, FS_RemoveElement
<1>6. u \ {Pick(u)} \notin C
  BY <1>2, <1>3, <1>5
<1>7. Sum(f, u) = f[Pick(u)] + Sum(f, u \ {Pick(u)})
  BY <1>2, <1>4, SumPick
<1> QED  BY <1>3, <1>4, <1>6, <1>7

Missing(lines, C, bare_, p) == {g \in Addresses(lines, p, Len(lines)) : ~Reads(C, bare_, g)}
Timed(lines, C, bare_, p) == UNION {MyLatencies(lines, C[i], bare_, p) : i \in 1..Len(C)}

(* The results of the workers. *)
Worked(lines, C, bare_, q) ==
  DOMAIN q = 1..Len(C) /\ \A i \in 1..Len(C) : q[i] = _parse_chunk_worker(lines, C[i], bare_)

LEMMA ReadersApart ==
  ASSUME NEW lines, NEW C, Splits(lines, C), NEW bare_, NEW p,
         NEW i \in 1..Len(C), NEW j \in 1..Len(C), i # j
  PROVE  /\ MyAddresses(lines, C[i], bare_, p) \cap MyAddresses(lines, C[j], bare_, p) = {}
         /\ MyLatencies(lines, C[i], bare_, p) \cap MyLatencies(lines, C[j], bare_, p) = {}
<1>1. \A g \in 1..Len(lines) : ~(ReadWhole(C[i], g, bare_) /\ ReadWhole(C[j], g, bare_))
  BY OneReader
<1>2. \A g \in MyAddresses(lines, C[i], bare_, p) : g \in 1..Len(lines) /\ ReadWhole(C[i], g, bare_)
  BY DEF MyAddresses, Addresses
<1>3. \A g \in MyAddresses(lines, C[j], bare_, p) : ReadWhole(C[j], g, bare_)
  BY DEF MyAddresses, Addresses
<1>4. \A g \in MyLatencies(lines, C[i], bare_, p) : g \in 1..Len(lines) /\ ReadWhole(C[i], g, bare_)
  BY DEF MyLatencies
<1>5. \A g \in MyLatencies(lines, C[j], bare_, p) : ReadWhole(C[j], g, bare_)
  BY DEF MyLatencies
<1> QED  BY <1>1, <1>2, <1>3, <1>4, <1>5

LEMMA MergedSums ==
  ASSUME NEW lines, LinesOK(lines), NEW C, Splits(lines, C), NEW bare_,
         NEW q, Worked(lines, C, bare_, q), NEW p \in UserPages
  PROVE  /\ merged(q)[p].n =
              Sum(Ones(lines), Addresses(lines, p, Len(lines)) \ Missing(lines, C, bare_, p))
         /\ merged(q)[p].lat = Sum(Latency(lines), Timed(lines, C, bare_, p))
<1> DEFINE I == 1..Len(C)  N == Len(lines)
           M == [i \in I |-> MyAddresses(lines, C[i], bare_, p)]
           L == [i \in I |-> MyLatencies(lines, C[i], bare_, p)]
           a == [i \in I |-> q[i][p].n]
           b == [i \in I |-> q[i][p].lat]
           e == Ones(lines)
           f == Latency(lines)
<1>0. p \in Pages /\ N \in Nat /\ DOMAIN q = I
  BY DEF Pages, Splits, Worked
<1>1. IsFiniteSet(I)
  BY FS_Interval DEF Splits
<1>2. merged(q)[p].n = Sum(a, I) /\ merged(q)[p].lat = Sum(b, I)
  BY <1>0 DEF merged
<1>3. ASSUME NEW i \in I  PROVE a[i] = Sum(e, M[i]) /\ b[i] = Sum(f, L[i])
  <2>1. Chunk(C[i]) /\ q[i] = _parse_chunk_worker(lines, C[i], bare_)
    BY DEF Splits, Worked
  <2>2. /\ q[i][p].n = Sum(Ones(lines), MyAddresses(lines, C[i], bare_, p))
        /\ q[i][p].lat = Sum(Latency(lines), MyLatencies(lines, C[i], bare_, p))
    <3> DEFINE c == C[i]  s == LastFlush(AfterLines(ChunkLines(lines, c, bare_), TRUE))
    <3>1. q[i] = s /\ Chunk(c)
      BY <2>1 DEF _parse_chunk_worker
    <3> HIDE DEF c
    <3>2. /\ s[p].n = Sum(Ones(lines), MyAddresses(lines, c, bare_, p))
          /\ s[p].lat = Sum(Latency(lines), MyLatencies(lines, c, bare_, p))
      BY <3>1, ChunkSums
    <3> HIDE DEF s
    <3> QED  BY <3>1, <3>2 DEF c
  <2> QED  BY <2>2
<1>4. ASSUME NEW i \in I
      PROVE  /\ IsFiniteSet(M[i]) /\ M[i] \subseteq 1..N
             /\ IsFiniteSet(L[i]) /\ L[i] \subseteq 1..N
  <2>1. IsFiniteSet(1..N)
    BY <1>0, FS_Interval
  <2>2. M[i] \in SUBSET (1..N) /\ L[i] \in SUBSET (1..N)
    BY DEF MyAddresses, MyLatencies, Addresses
  <2> HIDE DEF M, L
  <2> QED  BY <2>1, <2>2, FS_Subset
<1>5. \A g \in 1..N : e[g] \in Nat /\ f[g] \in Nat
  BY PacketsAreLines DEF LinesOK, LineOK, Ones, Latency
<1>6. \A i, j \in I : i # j => M[i] \cap M[j] = {} /\ L[i] \cap L[j] = {}
  BY ReadersApart
<1>7. UNION {M[i] : i \in I} = Addresses(lines, p, N) \ Missing(lines, C, bare_, p)
  BY DEF MyAddresses, Missing, Reads
<1>8. UNION {L[i] : i \in I} = Timed(lines, C, bare_, p)
  BY DEF Timed
<1> HIDE DEF I, M, L, a, b, e, f
<1>9. Sum(a, I) = Sum(e, UNION {M[i] : i \in I})
  <2>1. \A i \in I : IsFiniteSet(M[i]) /\ a[i] = Sum(e, M[i]) /\ \A x \in M[i] : e[x] \in Nat
    BY <1>3, <1>4, <1>5
  <2> QED  BY <1>1, <1>6, <2>1, SumOfSums
<1>10. Sum(b, I) = Sum(f, UNION {L[i] : i \in I})
  <2>1. \A i \in I : IsFiniteSet(L[i]) /\ b[i] = Sum(f, L[i]) /\ \A x \in L[i] : f[x] \in Nat
    BY <1>3, <1>4, <1>5
  <2> QED  BY <1>1, <1>6, <2>1, SumOfSums
<1> QED  BY <1>2, <1>7, <1>8, <1>9, <1>10 DEF e, f

(* Of a page the merged result lacks the accesses that nobody read. *)
LEMMA MergedLacks ==
  ASSUME NEW lines, LinesOK(lines), NEW C, Splits(lines, C), NEW bare_,
         NEW q, Worked(lines, C, bare_, q), NEW p \in UserPages
  PROVE  /\ parse_stream(lines)[p].n - merged(q)[p].n = Cardinality(Missing(lines, C, bare_, p))
         /\ merged(q)[p].lat <= parse_stream(lines)[p].lat
         /\ Timed(lines, C, bare_, p) = Latencies(lines, p, Len(lines)) =>
              merged(q)[p].lat = parse_stream(lines)[p].lat
<1> DEFINE N == Len(lines)  A == Addresses(lines, p, N)  L == Latencies(lines, p, N)
           D == Missing(lines, C, bare_, p)  T == Timed(lines, C, bare_, p)
           e == Ones(lines)  f == Latency(lines)
<1>0. p \in Pages /\ N \in Nat /\ ParsableOK(lines)
  BY PacketsParse DEF Pages, Splits
<1>1. parse_stream(lines)[p].n = Sum(e, A) /\ parse_stream(lines)[p].lat = Sum(f, L)
  BY <1>0, ParsedIs DEF parse_stream
<1>2. merged(q)[p].n = Sum(e, A \ D) /\ merged(q)[p].lat = Sum(f, T)
  BY MergedSums
<1>3. /\ IsFiniteSet(A) /\ IsFiniteSet(L)
      /\ \A j \in A : e[j] = 1
      /\ \A j \in L : f[j] \in Nat
  <2>1. N \in 0..N
    BY <1>0
  <2>2. /\ IsFiniteSet(A) /\ IsFiniteSet(L) /\ A \subseteq 1..N /\ L \subseteq 1..N
        /\ \A j \in 1..N : e[j] = 1 /\ f[j] = lines[j].lat /\ lines[j].lat \in Nat
    BY <1>0, <2>1, SetsFinite
  <2> HIDE DEF A, L, e, f
  <2> QED  BY <2>2
<1>4. D \in SUBSET A
  BY DEF Missing
<1>5. T \in SUBSET L
  BY DEF Timed, MyLatencies, Latencies
<1> HIDE DEF A, L, D, T, e, f
<1>6. Sum(e, A) = Sum(e, D) + Sum(e, A \ D)
  <2>1. \A x \in A : e[x] \in Int
    BY <1>3
  <2> QED  BY <1>3, <1>4, <2>1, SumSplit
<1>7. Sum(e, D) = Cardinality(D) /\ Cardinality(D) \in Nat /\ Sum(e, A \ D) \in Nat
  <2>1. IsFiniteSet(D) /\ IsFiniteSet(A \ D)
    BY <1>3, <1>4, FS_Subset
  <2>2. \A x \in D : e[x] = 1
    BY <1>3, <1>4
  <2>3. \A x \in A \ D : e[x] \in Nat
    BY <1>3
  <2> QED  BY <2>1, <2>2, <2>3, SumConstant, SumNat, FS_CardinalityType
<1>8. Sum(f, T) <= Sum(f, L)
  BY <1>3, <1>5, SumMonotone
<1> QED  BY <1>1, <1>2, <1>6, <1>7, <1>8 DEF D, T, L

LEMMA NothingMissing ==
  ASSUME NEW lines, LinesOK(lines), NEW C, Splits(lines, C), NEW bare_,
         NEW lost, \A p \in UserPages : lost[p] = Cardinality(Missing(lines, C, bare_, p))
  PROVE  Sum(lost, UserPages) <= Cardinality(Cutting(lines, C))
<1> DEFINE N == Len(lines)
           M == [p \in UserPages |-> Missing(lines, C, bare_, p)]
           e == Ones(lines)
           U == UNION {M[p] : p \in UserPages}
<1>1. IsFiniteSet(UserPages) /\ IsFiniteSet(1..N) /\ \A g \in 1..N : e[g] = 1
  BY PipelineAssumption, FS_Interval DEF Splits, Ones
<1>2. \A p \in UserPages : /\ M[p] \in SUBSET (1..N)
                           /\ \A g \in M[p] : ~Reads(C, bare_, g) /\ lines[g].page = p
  BY DEF Missing, Addresses
<1>3. \A p \in UserPages : lost[p] = Cardinality(M[p])
  OBVIOUS
<1> HIDE DEF M, e, N
<1>4. \A p \in UserPages : IsFiniteSet(M[p])
  BY <1>1, <1>2, FS_Subset
<1>5. \A p \in UserPages : \A x \in M[p] : e[x] = 1
  BY <1>1, <1>2
<1>6. \A p \in UserPages : lost[p] = Sum(e, M[p])
  BY <1>3, <1>4, <1>5, SumConstant
<1>7. \A p, r \in UserPages : p # r => M[p] \cap M[r] = {}
  BY <1>2
<1>8. Sum(lost, UserPages) = Sum(e, U)
  <2>1. \A p \in UserPages : IsFiniteSet(M[p]) /\ lost[p] = Sum(e, M[p]) /\ \A x \in M[p] : e[x] \in Nat
    BY <1>4, <1>5, <1>6
  <2> DEFINE I == UserPages
  <2>2. IsFiniteSet(I) /\ \A p, r \in I : p # r => M[p] \cap M[r] = {}
    BY <1>1, <1>7
  <2>3. \A p \in I : IsFiniteSet(M[p]) /\ lost[p] = Sum(e, M[p]) /\ \A x \in M[p] : e[x] \in Nat
    BY <2>1
  <2> HIDE DEF I
  <2>4. Sum(lost, I) = Sum(e, UNION {M[p] : p \in I})
    BY <2>2, <2>3, SumOfSums
  <2> QED  BY <2>4 DEF I
<1>9. U \in SUBSET (1..N) /\ \A g \in U : ~Reads(C, bare_, g) /\ e[g] = 1
  BY <1>2, <1>5
<1> HIDE DEF U
<1>10. Sum(e, U) = Cardinality(U)
  <2>1. IsFiniteSet(U)
    BY <1>1, <1>9, FS_Subset
  <2> QED  BY <1>9, <2>1, SumConstant
<1>11. Cardinality(U) <= Cardinality(Cutting(lines, C))
  BY <1>9, NoMoreLostThanCut DEF N
<1> QED  BY <1>8, <1>10, <1>11

(* Each page that was invented is the doing of a cut of its own. *)
LEMMA InventedAreCut ==
  ASSUME NEW lines, LinesOK(lines), NEW C, Splits(lines, C), NEW bare_,
         NEW q, Worked(lines, C, bare_, q)
  PROVE  /\ merged(q)[Junk].n <= Cardinality(Cutting(lines, C))
         /\ Cutting(lines, C) = {} => merged(q)[Junk].lat = 0
<1> DEFINE I == 1..Len(C)  T == Cutting(lines, C)
           a == [i \in I |-> q[i][Junk].n]
           b == [i \in I |-> q[i][Junk].lat]
           J == {i \in I : a[i] = 1}
           h == [i \in J |-> C[i].to]
<1>0. Junk \in Pages /\ DOMAIN q = I
  BY DEF Pages, Worked
<1>1. IsFiniteSet(I) /\ IsFiniteSet(T)
  <2>1. Len(C) \in Int /\ 1 \in Int
    BY DEF Splits
  <2>2. IsFiniteSet(I)
    BY <2>1, FS_Interval
  <2> QED  BY <2>2, CuttingFinite
<1>2. merged(q)[Junk].n = Sum(a, I) /\ merged(q)[Junk].lat = Sum(b, I)
  BY <1>0 DEF merged
<1>3. ASSUME NEW i \in I
      PROVE  a[i] \in {0, 1} /\ (C[i].to \notin T => a[i] = 0 /\ b[i] = 0)
  <2> DEFINE c == C[i]  s == LastFlush(AfterLines(ChunkLines(lines, c, bare_), TRUE))
  <2>1. q[i] = s /\ Chunk(c)
    BY DEF _parse_chunk_worker, Splits, Worked
  <2>2. \A g \in 1..Len(lines) : C[i].to = 3 * g - 1 => C[i].to \in T
    <3> TAKE g \in 1..Len(lines)
    <3> HAVE C[i].to = 3 * g - 1
    <3>1. 3 * (g - 1) < C[i].to /\ C[i].to < 3 * g
      OBVIOUS
    <3> QED  BY <3>1, InCutting
  <2>3. C[i].to \notin T => \A g \in 1..Len(lines) : ~CutAt(lines, c, g)
    BY <2>2 DEF CutAt
  <2> HIDE DEF c, T
  <2>4. /\ s[Junk].n \in {0, 1}
        /\ (\A g \in 1..Len(lines) : ~CutAt(lines, c, g)) => s[Junk].n = 0 /\ s[Junk].lat = 0
    BY <2>1, ChunkJunk
  <2> HIDE DEF s
  <2>5. a[i] = s[Junk].n /\ b[i] = s[Junk].lat
    BY <2>1
  <2> QED  BY <2>3, <2>4, <2>5
<1>4. \A i, j \in I : C[i].to = C[j].to => i = j
  <2>1. \A i, j \in I : i < j => C[i].to < C[j].to
    BY DEF Splits
  <2>2. \A i \in I : i \in Int /\ C[i].to \in Int
    BY DEF Splits, Chunk
  <2> HIDE DEF I
  <2> QED  BY <2>1, <2>2
<1>5. h \in Injection(J, T)
  <2>1. \A i \in J : i \in I /\ C[i].to \in T /\ h[i] = C[i].to
    BY <1>3
  <2> HIDE DEF T, I, a
  <2>2. h \in [J -> T]
    BY <2>1
  <2>3. \A i, j \in J : h[i] = h[j] => i = j
    BY <1>4, <2>1
  <2> HIDE DEF h, J
  <2> QED  BY <2>2, <2>3 DEF Injection, IsInjective
<1>6. /\ J \in SUBSET I /\ (\A i \in J : a[i] = 1)
      /\ (\A i \in I \ J : a[i] = 0) /\ (\A i \in I : a[i] \in Int)
  BY <1>3
<1>7. T = {} => \A i \in I : b[i] = 0
  BY <1>3
<1> HIDE DEF I, T, a, b, J, h
<1>8. Cardinality(J) <= Cardinality(T)
  BY <1>1, <1>5, FS_Injection
<1>9. Sum(a, I) = Sum(a, J) + Sum(a, I \ J)
  BY <1>1, <1>6, SumSplit
<1>10. Sum(a, J) = Cardinality(J) /\ Sum(a, I \ J) = 0 /\ Cardinality(J) \in Nat
  <2>1. IsFiniteSet(J) /\ IsFiniteSet(I \ J)
    BY <1>1, <1>6, FS_Subset
  <2> QED  BY <1>6, <2>1, SumConstant, SumZero, FS_CardinalityType
<1>11. T = {} => Sum(b, I) = 0
  BY <1>1, <1>7, SumZero
<1> QED  BY <1>2, <1>8, <1>9, <1>10, <1>11 DEF T

Uncut(lines, C) == Cutting(lines, C) = {}

StartBetween(lines, a, z) == \E k \in 1..Len(lines) : a < k /\ k <= z /\ lines[k].kind = "PC"

(* Without cuts a reader ends where a sample begins. *)
LEMMA ReaderChanges ==
  ASSUME NEW lines, NEW C, Splits(lines, C), NEW bare_, Uncut(lines, C),
         NEW i \in 1..Len(C), NEW j \in 1..Len(C), i < j,
         NEW a \in 1..Len(lines), NEW z \in 1..Len(lines),
         ReadWhole(C[i], a, bare_), ReadWhole(C[j], z, bare_)
  PROVE  StartBetween(lines, a, z)
<1>1. /\ a \in Nat \ {0} /\ z \in Nat \ {0} /\ z <= Len(lines) /\ Len(lines) \in Nat
      /\ Chunk(C[i]) /\ Chunk(C[j])
  BY DEF Splits
<1>2. 3 * a <= C[i].to /\ C[i].to \in Nat
  BY <1>1, ReaderIsIn
<1>3. C[j].from <= 3 * (z - 1) + 1 /\ C[j].from \in Nat
  BY <1>1, ReaderIsIn
<1>4. C[i].to <= C[j].from
  BY LaterChunk
<1>5. C[i].to <= 3 * (z - 1) + 1 /\ ~(C[i].to >= 3 * Len(lines))
  BY <1>1, <1>2, <1>3, <1>4
<1>6. \E k \in 1..Len(lines) : lines[k].kind = "PC" /\ C[i].to = 3 * (k - 1)
  <2>1. C[i].to \notin Cutting(lines, C)
    BY DEF Uncut
  <2> QED  BY <1>5, <2>1 DEF Cutting
<1>7. PICK k \in 1..Len(lines) : lines[k].kind = "PC" /\ C[i].to = 3 * (k - 1)
  BY <1>6
<1>8. a < k /\ k <= z
  <2>1. k \in Nat /\ 3 * a <= 3 * (k - 1) /\ 3 * (k - 1) <= 3 * (z - 1) + 1
    BY <1>2, <1>5, <1>7
  <2> QED  BY <1>1, <2>1
<1> QED  BY <1>7, <1>8 DEF StartBetween

LEMMA NoCutKeepsLatencies ==
  ASSUME NEW lines, LinesOK(lines), NEW C, Splits(lines, C), NEW bare_, Uncut(lines, C),
         NEW p
  PROVE  Timed(lines, C, bare_, p) = Latencies(lines, p, Len(lines))

<1> DEFINE N == Len(lines)  L == Latencies(lines, p, N)
<1>1. ASSUME NEW g \in L  PROVE g \in Timed(lines, C, bare_, p)
  <2>1. g \in 1..N /\ lines[g].kind = "LAT"
    BY DEF Latencies
  <2>2. PICK f \in 1..N : lines[f].kind = "VA" /\ lines[f].page = p /\ Near(lines, f, g)
    BY DEF Latencies
  <2>3. Reads(C, bare_, g) /\ Reads(C, bare_, f)
    BY <2>1, LostIsCut DEF Uncut
  <2>4. PICK i \in 1..Len(C) : ReadWhole(C[i], g, bare_)
    BY <2>3 DEF Reads
  <2>5. PICK j \in 1..Len(C) : ReadWhole(C[j], f, bare_)
    BY <2>3 DEF Reads
  <2>6. \A k \in 1..N : lines[k].kind = "PC" => ~(f < k /\ k < g) /\ ~(g < k /\ k < f) /\ k # f /\ k # g
    BY <2>1, <2>2 DEF Near, Ends
  <2>a. g \in 1..Len(lines) /\ f \in 1..Len(lines) /\ i \in 1..Len(C) /\ j \in 1..Len(C)
    BY <2>1
  <2>7. ~(i < j)
    <3> SUFFICES ASSUME i < j  PROVE FALSE
      OBVIOUS
    <3> HIDE DEF L
    <3>0. StartBetween(lines, g, f)
      BY <2>4, <2>5, <2>a, ReaderChanges
    <3>1. PICK k \in 1..N : g < k /\ k <= f /\ lines[k].kind = "PC"
      BY <3>0 DEF StartBetween
    <3> QED  BY <2>1, <2>2, <2>6, <3>1
  <2>8. ~(j < i)
    <3> SUFFICES ASSUME j < i  PROVE FALSE
      OBVIOUS
    <3> HIDE DEF L
    <3>0. StartBetween(lines, f, g)
      BY <2>4, <2>5, <2>a, ReaderChanges
    <3>1. PICK k \in 1..N : f < k /\ k <= g /\ lines[k].kind = "PC"
      BY <3>0 DEF StartBetween
    <3> QED  BY <2>1, <2>6, <3>1
  <2>9. i = j
    BY <2>7, <2>8 DEF Splits
  <2>10. g \in MyLatencies(lines, C[i], bare_, p)
    BY <2>1, <2>2, <2>4, <2>5, <2>9 DEF MyLatencies
  <2> QED  BY <2>10 DEF Timed
<1>2. Timed(lines, C, bare_, p) \subseteq L
  BY DEF Timed, MyLatencies, Latencies
<1> QED  BY <1>1, <1>2

LEMMA ChunksSurvive ==
  ASSUME InputInv, PoolRan, DOMAIN parts = DOMAIN Chunks, stats = merged(parts)
  PROVE  LET whole == parse_stream(Lines)
             lost == [p \in UserPages |-> whole[p].n - stats[p].n]
             cuts == Cardinality(Cuts)
         IN  /\ \A p \in UserPages : lost[p] >= 0 /\ stats[p].lat <= whole[p].lat
             /\ Sum(lost, UserPages) <= cuts /\ stats[Junk].n <= cuts
             /\ cuts = 0 => \A p \in Pages : stats[p].lat = whole[p].lat
<1> DEFINE lines == Lines  C == Chunks  T == Cutting(lines, C)
           whole == parse_stream(lines)
           lost == [p \in UserPages |-> whole[p].n - stats[p].n]
<1>1. workers \in Nat \ {0} /\ DOMAIN C = 1..Len(C) /\ Len(C) \in Nat /\ Len(C) >= 2
  BY ChunksNow DEF PoolRan
<1>2. LinesOK(lines) /\ Len(lines) \in Nat /\ lines \in Seq(Packets)
  BY LinesNow
<1>3. Splits(lines, C)
  BY <1>1, <1>2, ChunksSplit DEF Chunks
<1>4. Worked(lines, C, bare, parts)
  BY <1>1 DEF Worked, PoolRan
<1>5. Cuts = T
  <2>1. DOMAIN lines = 1..Len(lines)
    BY <1>2
  <2> QED  BY <1>1, <2>1 DEF Cuts, Cutting, Size, LineUnits
<1> HIDE DEF lines, C, T, whole
<1>6. \A p \in UserPages :
        /\ lost[p] = Cardinality(Missing(lines, C, bare, p))
        /\ stats[p].lat <= whole[p].lat
        /\ Timed(lines, C, bare, p) = Latencies(lines, p, Len(lines)) => stats[p].lat = whole[p].lat
  BY <1>2, <1>3, <1>4, MergedLacks DEF whole
<1> HIDE DEF lost
<1>7. \A p \in UserPages : lost[p] >= 0
  <2> TAKE p \in UserPages
  <2>1. Missing(lines, C, bare, p) \in SUBSET (1..Len(lines))
        /\ \A g \in Missing(lines, C, bare, p) : ~Reads(C, bare, g)
    BY DEF Missing, Addresses
  <2>2. IsFiniteSet(Missing(lines, C, bare, p))
    BY <1>3, <2>1, NoMoreLostThanCut
  <2>3. Cardinality(Missing(lines, C, bare, p)) \in Nat
    BY <2>2, FS_CardinalityType
  <2> QED  BY <1>6, <2>3
<1>8. Sum(lost, UserPages) <= Cardinality(T)
  BY <1>2, <1>3, <1>6, NothingMissing DEF T
<1>9. stats[Junk].n <= Cardinality(T) /\ (T = {} => stats[Junk].lat = 0)
  BY <1>2, <1>3, <1>4, InventedAreCut DEF T
<1>10. ASSUME Cardinality(T) = 0, NEW p \in Pages  PROVE stats[p].lat = whole[p].lat
  <2>1. IsFiniteSet(T)
    BY <1>3, CuttingFinite DEF T
  <2>2. T = {}
    BY <1>10, <2>1, FS_EmptySet
  <2>3. CASE p = Junk
    BY <1>2, <1>9, <2>2, <2>3, WholeJunk DEF whole
  <2>4. CASE p \in UserPages
    <3>1. Timed(lines, C, bare, p) = Latencies(lines, p, Len(lines))
      BY <1>2, <1>3, <2>2, NoCutKeepsLatencies DEF T, Uncut
    <3> QED  BY <1>6, <2>4, <3>1
  <2> QED  BY <2>3, <2>4 DEF Pages
<1> QED  BY <1>5, <1>6, <1>7, <1>8, <1>9, <1>10 DEF lines, whole, lost

LEMMA CountsHold ==
  ASSUME PipelineInv
  PROVE  CountsSurviveChunks
<1> SUFFICES ASSUME stage = "parsed"  PROVE CountsSurviveChunks
  BY DEF CountsSurviveChunks
<1>1. InputInv /\ PartsInv
  BY DEF PipelineInv
<1>2. CASE parts = <<>> /\ stats = parse_stream(Lines)
  <2> DEFINE whole == parse_stream(Lines)  lost == [p \in UserPages |-> whole[p].n - stats[p].n]
  <2>1. stats \in Stats /\ LinesOK(Lines)
    BY <1>1, LinesNow DEF InputInv
  <2>2. \A p \in UserPages : p \in Pages /\ lost[p] = 0 /\ stats[p].lat <= whole[p].lat
    <3> TAKE p \in UserPages
    <3>1. p \in Pages /\ stats[p].n \in Nat /\ stats[p].lat \in Nat
      BY <2>1 DEF Pages, Stats
    <3> QED  BY <1>2, <3>1
  <2>3. Sum(lost, UserPages) = 0
    <3> HIDE DEF lost
    <3> QED  BY <2>2, PipelineAssumption, SumZero
  <2>4. stats[Junk].n = 0
    BY <1>2, <2>1, WholeJunk
  <2> HIDE DEF lost
  <2>5. \A p \in UserPages : lost[p] >= 0 /\ stats[p].lat <= whole[p].lat
    BY <2>2
  <2>6. Sum(lost, UserPages) <= 0 /\ stats[Junk].n <= 0 /\ \A p \in Pages : stats[p].lat = whole[p].lat
    BY <1>2, <2>3, <2>4
  <2> QED  BY <1>2, <2>5, <2>6 DEF CountsSurviveChunks, lost
<1>3. CASE PoolRan /\ DOMAIN parts = DOMAIN Chunks /\ stats = merged(parts)
  <2>1. parts # <<>>
    <3>1. DOMAIN Chunks = 1..Len(Chunks) /\ Len(Chunks) \in Nat /\ Len(Chunks) >= 2
      BY <1>1, <1>3, ChunksNow DEF PoolRan
    <3>2. 1 \in DOMAIN parts /\ DOMAIN <<>> = {}
      BY <1>3, <3>1
    <3> QED  BY <3>2
  <2> QED  BY <1>1, <1>3, <2>1, ChunksSurvive DEF CountsSurviveChunks
<1> QED  BY <1>1, <1>2, <1>3 DEF PartsInv

(* However the file is split - in the midst of samples, of lines and of    *)
(* numbers - and in whatever order the workers finish, none of them counts *)
(* what another one counted, and each cut costs one access at most.        *)
THEOREM NoAccessTwice == PipelineSpec => []CountsSurviveChunks
BY PipelineInvHolds, CountsHold, PTL
=============================================================================
