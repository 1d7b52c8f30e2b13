----------------------------- MODULE IntercInit -----------------------------
(***************************************************************************)
(* The constructor of interc/ldlib.c (kumf_init) in every process of a     *)
(* session that preloads the library, and the daemon it asks: how a        *)
(* process decides its mode from its environment, from the daemon's answer *)
(* or from a timeout, and what its children inherit.                       *)
(*                                                                         *)
(* The part of the daemon modelled is its message loop and the handlers    *)
(* of LOOKUP, REG and DEREG (kumf_daemon), and the profile command, which  *)
(* writes the files that LOOKUP looks for.  Messages are datagrams on UNIX *)
(* sockets, sent without waiting and without a look at the result: kept in *)
(* order, lost when the path has no reader and when the reader's queue is  *)
(* full.                                                                   *)
(***************************************************************************)
EXTENDS Integers, FiniteSets, SequencesExt

CONSTANTS
  Pids,
  Exes,             \* executables
  Profiled,         \* those profiled before
  RuleProfiles,     \* those of them whose configuration has routing rules
  UserEnvs,         \* environments users start programs with
  UserConf,         \* a rule file of the user's
  Unset,            \* KUMF_CONF is not set
  LocalRules,       \* kumf.conf in the working directory has rules
  NumaAvailable, CrossSocket,
  NodesNamed,       \* the daemon found NUMA nodes, fewer than 64 characters of them
  MaxQueue,         \* datagrams the daemon's socket holds (net.unix.max_dgram_qlen)
  MaxStarts,        \* bound: programs started
  MaxExecs          \* bound: calls of exec that keep the pid

ASSUME InitAssumption ==
  /\ RuleProfiles \subseteq Profiled /\ Profiled \subseteq Exes
  /\ UserConf \notin Exes /\ Unset \notin Exes \cup {UserConf}
  /\ {LocalRules, NumaAvailable, CrossSocket, NodesNamed} \subseteq BOOLEAN
  /\ {MaxQueue, MaxStarts, MaxExecs} \subseteq Nat

VARIABLES
  proc,         \* the process at each pid
  open,         \* pids whose path /tmp/kumf_lookup_<pid> is bound
  inbox,        \* datagrams at each path
  daemon_up,    \* the daemon runs and its socket exists
  queue,        \* datagrams at the daemon's socket
  registered,   \* the daemon's registered_procs
  lookup,       \* executables with a lookup_<hash>.conf
  ruled,        \* those whose configuration has a line that is no comment
  profiler,     \* the profile command
  starts, execs,
  known,        \* history: executables that ever had a lookup_<hash>.conf
  killed,       \* history: pids of killed processes
  stray,        \* history: pids for which a request outlived its asker
  dropped       \* history: pids whose DEREG found the daemon's queue full

session == <<starts, execs>>
profile == <<lookup, ruled, profiler, known>>
history == <<killed, stray, dropped>>
daemon == <<daemon_up, queue, registered>>
paths == <<open, inbox>>
vars == <<proc, paths, daemon, profile, session, history>>

Confs == Exes \cup {UserConf, Unset}
Envs == [affinity : {"unset", "off", "batch", "per-thread", "auto"},
         nodes : {"unset", "valid", "invalid"}, conf : Confs, daemon : BOOLEAN]
Modes == {"PASSIVE", "BATCH", "PER_THREAD", "ROUTING"}

ASSUME EnvsAssumption == UserEnvs \subseteq Envs

Explicit(env) == env.affinity # "unset" \/ env.nodes # "unset" \/ env.conf # Unset

NoProcess == [pc |-> "none"]

(* A new image: the library's variables have their initial values.         *)
(* start is the environment it found.                                      *)
Image(x, e) ==
  [pc |-> "init", exe |-> x, start |-> e, env |-> e,
   mode |-> "BATCH", layer2 |-> FALSE, bound |-> "none", conn |-> FALSE]

Processes ==
  [pc : {"init", "access", "bind", "send", "poll", "rules", "affinity",
         "connect", "main"},
   exe : Exes, start : Envs, env : Envs, mode : Modes,
   layer2 : BOOLEAN, bound : {"none", "all", "node"}, conn : BOOLEAN]

NoProfiler == [pc |-> "none", exe |-> Unset]
Profilers == [pc : {"save", "link", "done"}, exe : Exes] \cup {NoProfiler}

Alive == {p \in Pids : proc[p] # NoProcess}
Answers == {[conf |-> c] : c \in known \cup {Unset}}

Init ==
  /\ proc = [p \in Pids |-> NoProcess]
  /\ open = {}
  /\ inbox = [p \in Pids |-> <<>>]
  /\ daemon_up \in BOOLEAN
  /\ queue = <<>>
  /\ registered = {}
  /\ lookup = Profiled /\ ruled = RuleProfiles /\ known = Profiled
  /\ profiler = NoProfiler
  /\ starts = 0 /\ execs = 0
  /\ killed = {} /\ stray = {} /\ dropped = {}

Message(kind, p, x) == [kind |-> kind, pid |-> p, exe |-> x]

TypeOK ==
  /\ proc \in [Pids -> Processes \cup {NoProcess}]
  /\ open \subseteq Pids
  /\ inbox \in [Pids -> Seq(Answers)]
  /\ daemon_up \in BOOLEAN
  /\ queue \in Seq([kind : {"REG", "DEREG", "LOOKUP"}, pid : Pids, exe : Exes])
  /\ registered \subseteq Pids
  /\ lookup \cup ruled \subseteq known /\ known \subseteq Exes
  /\ profiler \in Profilers
  /\ starts \in 0..MaxStarts /\ execs \in 0..MaxExecs
  /\ killed \subseteq Pids /\ stray \subseteq Pids /\ dropped \subseteq Pids

(* A step of p's from a place, which makes of it the process new. *)
Step(p, from, new) ==
  /\ proc[p].pc = from
  /\ proc' = [proc EXCEPT ![p] = new]

(* The socket is closed, what it had not read is lost. *)
Close(p) ==
  /\ open' = open \ {p}
  /\ inbox' = [inbox EXCEPT ![p] = <<>>]

(* sendto with MSG_DONTWAIT: a full queue is EAGAIN, which nobody sees.    *)
Full == Len(queue) >= MaxQueue
Send(m) == queue' = IF daemon_up /\ ~Full THEN Append(queue, m) ELSE queue

-----------------------------------------------------------------------------
(* Programs are started, fork, exec and end. *)

StartProgram(p, x, e) ==
  /\ proc[p] = NoProcess
  /\ starts < MaxStarts
  /\ starts' = starts + 1
  /\ proc' = [proc EXCEPT ![p] = Image(x, e)]
  /\ UNCHANGED <<profile, paths, daemon, execs, history>>

(* fork and exec: the child has the parent's environment as it is now. *)
SpawnChild(p, c, x) ==
  /\ proc[p].pc = "main" /\ proc[c] = NoProcess
  /\ starts < MaxStarts
  /\ starts' = starts + 1
  /\ proc' = [proc EXCEPT ![c] = Image(x, proc[p].env)]
  /\ UNCHANGED <<profile, paths, daemon, execs, history>>

(* exec alone: same pid, and no destructor runs. *)
Exec(p, x) ==
  /\ proc[p].pc = "main"
  /\ execs < MaxExecs
  /\ execs' = execs + 1
  /\ proc' = [proc EXCEPT ![p] = Image(x, proc[p].env)]
  /\ UNCHANGED <<profile, paths, daemon, starts, history>>

(* Mutant: kumf_fini does not call disconnect_daemon. *)
Exit_Silent(p) ==
  /\ proc[p].pc = "main"
  /\ proc' = [proc EXCEPT ![p] = NoProcess]
  /\ UNCHANGED <<profile, paths, daemon, session, history>>

(* kumf_fini; the model has one socket path, the default one. *)
Exit(p) ==
  /\ proc[p].pc = "main"
  /\ proc' = [proc EXCEPT ![p] = NoProcess]
  /\ IF proc[p].conn THEN Send(Message("DEREG", p, proc[p].exe)) ELSE UNCHANGED queue
  /\ dropped' = IF proc[p].conn /\ daemon_up /\ Full THEN dropped \cup {p} ELSE dropped
  /\ UNCHANGED <<profile, paths, daemon_up, registered, session, killed, stray>>

(* A request of p is at the daemon, and nobody will wait for the answer. *)
Asked(p) == \E i \in DOMAIN queue : queue[i].kind = "LOOKUP" /\ queue[i].pid = p
StrayAfter(p) == IF Asked(p) THEN stray \cup {p} ELSE stray

Kill(p) ==
  /\ proc[p] # NoProcess
  /\ proc' = [proc EXCEPT ![p] = NoProcess]
  /\ Close(p)
  /\ killed' = killed \cup {p}
  /\ stray' = StrayAfter(p)
  /\ UNCHANGED <<profile, daemon, session, dropped>>

-----------------------------------------------------------------------------
(* kumf_init and query_daemon_for_config *)

(* Mutant: the daemon is asked even if the user configured the process. *)
CheckEnv_AlwaysAsk(p) ==
  /\ Step(p, "init", [proc[p] EXCEPT !.pc = "access"])
  /\ UNCHANGED <<profile, paths, daemon, session, history>>

CheckEnv(p) ==
  /\ Step(p, "init",
          [proc[p] EXCEPT !.pc = IF Explicit(proc[p].env) THEN "rules" ELSE "access"])
  /\ UNCHANGED <<profile, paths, daemon, session, history>>

Passive(p) == [proc[p] EXCEPT !.mode = "PASSIVE", !.pc = "main"]

(* access(KUMF_SOCK_PATH).  A socket file a dead daemon left behind is the  *)
(* case of a daemon that stops right after this test.                      *)
Access(p) ==
  /\ Step(p, "access", IF daemon_up THEN [proc[p] EXCEPT !.pc = "bind"] ELSE Passive(p))
  /\ UNCHANGED <<profile, paths, daemon, session, history>>

(* The client path is unlinked and bound, unless it belongs to someone     *)
(* else.                                                                   *)
BindClient(p) ==
  /\ \/ /\ Step(p, "bind", [proc[p] EXCEPT !.pc = "send"])
        /\ open' = open \cup {p}
     \/ /\ Step(p, "bind", Passive(p))
        /\ UNCHANGED open
  /\ UNCHANGED inbox
  /\ UNCHANGED <<profile, daemon, session, history>>

SendLookup(p) ==
  /\ Step(p, "send", [proc[p] EXCEPT !.pc = "poll"])
  /\ Send(Message("LOOKUP", p, proc[p].exe))
  /\ UNCHANGED <<profile, paths, daemon_up, registered, session, history>>

(* setenv of what CONFIG says, of its nodes only if there are some and     *)
(* they fit.                                                               *)
Configured(env, conf) ==
  [env EXCEPT !.nodes = IF NodesNamed THEN "valid" ELSE @, !.conf = conf]

(* Mutant: the environment is set before NOCONFIG is told from CONFIG. *)
Receive_SetenvFirst(p) ==
  /\ proc[p].pc = "poll" /\ inbox[p] # <<>>
  /\ LET conf == Head(inbox[p]).conf
         env == Configured(proc[p].env, conf)
     IN  Step(p, "poll", IF conf = Unset THEN [Passive(p) EXCEPT !.env = env]
                         ELSE [proc[p] EXCEPT !.pc = "rules", !.env = env])
  /\ Close(p)
  /\ UNCHANGED <<profile, daemon, session, history>>

(* CONFIG sets KUMF_NODES and KUMF_CONF in the environment of the process; *)
(* NOCONFIG makes it passive.  That an answer may have no second ':' is    *)
(* left out: this daemon sends none.                                       *)
Receive(p) ==
  /\ proc[p].pc = "poll" /\ inbox[p] # <<>>
  /\ LET conf == Head(inbox[p]).conf
         env == Configured(proc[p].env, conf)
     IN  Step(p, "poll", IF conf = Unset THEN Passive(p)
                         ELSE [proc[p] EXCEPT !.pc = "rules", !.env = env])
  /\ Close(p)
  /\ UNCHANGED <<profile, daemon, session, history>>

(* Mutant: the poll waits without limit. *)
PollTimeout_Never(p) == FALSE

(* The answer may still be under way when the poll gives up. *)
PollTimeout(p) ==
  /\ inbox[p] = <<>>
  /\ Step(p, "poll", Passive(p))
  /\ Close(p)
  /\ stray' = StrayAfter(p)
  /\ UNCHANGED <<profile, daemon, session, killed, dropped>>

(* load_rules reads kumf.conf when KUMF_CONF is not set. *)
HasRules(conf) ==
  CASE conf = Unset -> LocalRules
    [] conf = UserConf -> TRUE
    [] OTHER -> conf \in lookup \cap ruled

LoadRules(p) ==
  /\ Step(p, "rules",
          [proc[p] EXCEPT !.pc = "affinity", !.layer2 = HasRules(proc[p].env.conf)])
  /\ UNCHANGED <<profile, paths, daemon, session, history>>

SelectMode(env, layer2) ==
  CASE env.affinity = "batch" -> "BATCH"
    [] env.affinity = "per-thread" -> "PER_THREAD"
    [] env.affinity \in {"unset", "auto"} /\ layer2 -> "ROUTING"
    [] env.affinity \in {"unset", "auto"} /\ ~layer2 /\ CrossSocket -> "PER_THREAD"
    [] OTHER -> "BATCH"

(* Without NUMA, without a valid node, or switched off, the mode stays     *)
(* BATCH and nothing is bound.                                             *)
InitAffinity(p) ==
  LET env == proc[p].env
      mode == SelectMode(env, proc[p].layer2)
      unbound == [proc[p] EXCEPT !.pc = "connect"]
  IN  /\ Step(p, "affinity",
              IF ~NumaAvailable \/ env.nodes = "invalid" \/ env.affinity = "off" THEN unbound
              ELSE [unbound EXCEPT !.mode = mode,
                                   !.bound = IF mode = "BATCH" THEN "all" ELSE "node"])
      /\ UNCHANGED <<profile, paths, daemon, session, history>>

ConnectDaemon(p) ==
  LET connects == proc[p].env.daemon /\ daemon_up
  IN  /\ Step(p, "connect", [proc[p] EXCEPT !.pc = "main", !.conn = connects])
      /\ IF connects THEN Send(Message("REG", p, proc[p].exe)) ELSE UNCHANGED queue
      /\ UNCHANGED <<profile, paths, daemon_up, registered, session, history>>

-----------------------------------------------------------------------------
(* The daemon: one datagram at a time, the answer to the sender's path,    *)
(* whoever has bound it by then.                                           *)

(* Mutant: the answer is the configuration of some profiled program. *)
Answer_AnyProfile(m) == [conf |-> CHOOSE c \in known : TRUE]

Answer(m) == [conf |-> IF m.exe \in lookup THEN m.exe ELSE Unset]

Serve ==
  LET m == Head(queue) IN
  /\ daemon_up /\ queue # <<>>
  /\ queue' = Tail(queue)
  /\ registered' = CASE m.kind = "REG"   -> registered \cup {m.pid}
                     [] m.kind = "DEREG" -> registered \ {m.pid}
                     [] OTHER            -> registered
  /\ inbox' = IF m.kind = "LOOKUP" /\ m.pid \in open
              THEN [inbox EXCEPT ![m.pid] = Append(@, Answer(m))] ELSE inbox
  /\ UNCHANGED <<profile, proc, open, daemon_up, session, history>>

(* The daemon's memory is all it knows of processes. *)
DaemonStop ==
  /\ daemon_up
  /\ daemon_up' = FALSE
  /\ queue' = <<>>
  /\ registered' = {}
  /\ UNCHANGED <<profile, proc, paths, session, history>>

DaemonStart ==
  /\ ~daemon_up
  /\ daemon_up' = TRUE
  /\ UNCHANGED <<profile, proc, paths, queue, registered, session, history>>

-----------------------------------------------------------------------------
(* The profile command of kumf_daemon, once in a session.  It may stop     *)
(* anywhere, since nothing makes it go on.  What it measures are programs  *)
(* like any other.                                                         *)

(* perf has no SPE data, or they cannot be dumped: a configuration without *)
(* rules is written, over the one in use if the same command was profiled  *)
(* before.                                                                 *)
WriteBaseline(x) ==
  /\ profiler = NoProfiler
  /\ profiler' = [pc |-> "save", exe |-> x]
  /\ ruled' \in {ruled, ruled \ {x}}
  /\ UNCHANGED <<proc, paths, daemon, lookup, known, session, history>>

(* There are data.  spe_page_pac.py exits with an error, for want of pages *)
(* or in its report (it counts under keys its table does not have), and    *)
(* the command ends with "Profile saved", having saved nothing.            *)
Analyse(x) ==
  /\ profiler = NoProfiler
  /\ profiler' = [pc |-> "done", exe |-> x]
  /\ UNCHANGED <<proc, paths, daemon, lookup, ruled, known, session, history>>

UnlinkLookup ==
  /\ profiler.pc = "save"
  /\ profiler' = [profiler EXCEPT !.pc = "link"]
  /\ lookup' = lookup \ {profiler.exe}
  /\ UNCHANGED <<proc, paths, daemon, ruled, known, session, history>>

LinkLookup ==
  /\ profiler.pc = "link"
  /\ profiler' = [profiler EXCEPT !.pc = "done"]
  /\ lookup' = lookup \cup {profiler.exe}
  /\ ruled' = ruled \ {profiler.exe}
  /\ known' = known \cup {profiler.exe}
  /\ UNCHANGED <<proc, paths, daemon, session, history>>

-----------------------------------------------------------------------------
KumfInit(p) ==
  \/ CheckEnv(p) \/ Access(p) \/ BindClient(p) \/ SendLookup(p) \/ Receive(p)
  \/ PollTimeout(p) \/ LoadRules(p) \/ InitAffinity(p) \/ ConnectDaemon(p)

Next ==
  \/ \E p \in Pids :
       \/ \E x \in Exes, e \in UserEnvs : StartProgram(p, x, e)
       \/ \E c \in Pids, x \in Exes : SpawnChild(p, c, x)
       \/ \E x \in Exes : Exec(p, x)
       \/ KumfInit(p) \/ Exit(p) \/ Kill(p)
  \/ Serve \/ DaemonStop \/ DaemonStart
  \/ \E x \in Exes : WriteBaseline(x) \/ Analyse(x)
  \/ UnlinkLookup \/ LinkLookup

(* Processes run, and the poll ends after 50 ms whatever the daemon does;  *)
(* nothing is assumed of the daemon.                                       *)
Spec == Init /\ [][Next]_vars /\ \A p \in Pids : WF_vars(KumfInit(p))

-----------------------------------------------------------------------------
Started == {p \in Alive : proc[p].pc = "main"}

(* A process that found no KUMF variable runs either passive or with the   *)
(* configuration profiled for its own executable, whatever processes had   *)
(* its pid before and however the daemon came and went - unless the daemon *)
(* still had a request of an earlier asker with this pid to answer.        *)
OwnConfig(p) ==
  \/ proc[p].mode = "PASSIVE"
  \/ proc[p].env.conf = proc[p].exe /\ proc[p].exe \in known

OwnConfigOrPassive ==
  \A p \in Started \ stray : ~Explicit(proc[p].start) => OwnConfig(p)

(* A passive process has no rule loaded, is bound to nothing and is not    *)
(* registered with the daemon, and it passes on the environment it got.    *)
PassiveInert ==
  \A p \in Started : proc[p].mode = "PASSIVE" =>
    /\ ~proc[p].layer2 /\ proc[p].bound = "none" /\ ~proc[p].conn
    /\ proc[p].env = proc[p].start

(* "Priority: explicit env vars > daemon auto-config": a configured        *)
(* process is never passive, keeps its variables, and a mode the user      *)
(* names is the mode it runs in.                                           *)
ExplicitEnvWins ==
  \A p \in Started : Explicit(proc[p].start) =>
    /\ proc[p].mode # "PASSIVE" /\ proc[p].env = proc[p].start
    /\ NumaAvailable /\ proc[p].env.nodes # "invalid" =>
         /\ proc[p].env.affinity = "batch" => proc[p].mode = "BATCH"
         /\ proc[p].env.affinity = "per-thread" => proc[p].mode = "PER_THREAD"
         /\ proc[p].env.affinity = "off" => proc[p].bound = "none"

(* The daemon counts as registered only pids that are in use, or whose     *)
(* DEREG is on its way, or whose process was killed or sent its DEREG when *)
(* the daemon's queue was full.                                            *)
RegistryCurrent ==
  \A p \in registered :
    \/ proc[p] # NoProcess \/ p \in killed \/ p \in dropped
    \/ \E i \in DOMAIN queue : queue[i].kind = "DEREG" /\ queue[i].pid = p

(* Every process reaches its main function, whether or not the daemon      *)
(* answers, stops or is replaced in the meantime.                          *)
ReachesMain == \A p \in Pids : (proc[p] # NoProcess) ~> (proc[p].pc \in {"main", "none"})
=============================================================================
