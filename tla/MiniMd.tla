------------------------------- MODULE MiniMd -------------------------------
(***************************************************************************)
(* The workload mini_md_v2.c: molecular dynamics in OpenMP loops.  A step  *)
(* is half a kick and a drift, the forces of pairs, the forces of bonds    *)
(* and half a kick; each is a parallel loop with a barrier at its end.     *)
(*                                                                         *)
(* A force is the bag of the contributions added to it since it was set to *)
(* zero; of its three coordinates, which are added to one after the other  *)
(* in the same way, there is one.  Where particles are matters only for    *)
(* how far apart they are, which is chosen anew for every computation of   *)
(* forces.                                                                 *)
(***************************************************************************)
EXTENDS Integers, Bags, BagsExt, FiniteSetsExt

CONSTANTS
  Particles,        \* what the user may ask for: numbers of particles,
  MaxThreads,       \* threads (1..MaxThreads)
  N_steps,          \* and steps
  MinParticles,     \* fewer are refused (100)
  Chunk,            \* iterations a thread takes at a time (64)
  Geometries(_)     \* distances in which n particles may be

ASSUME MdAssumption ==
  /\ Particles \subseteq Nat /\ MinParticles \in Nat \ {0, 1} /\ N_steps \in Nat
  /\ MaxThreads \in Nat \ {0} /\ Chunk \in Nat \ {0}

VARIABLES
  N_particles, N_threads,
  region, step,     \* the loop that runs; step 0 is the warm-up
  distance,         \* of pairs: "near" (within the cutoff), "far" or "same"
  forces,
  kicks,            \* how often half a kick was added to each velocity
  next,             \* first iteration that no thread has taken
  todo,             \* iterations that each thread has to run
  pc, js, fi, read  \* in iteration i of a thread: particles j ahead, sum, forces[i]

size == <<N_particles, N_threads>>
loop == <<region, step, distance>>
local == <<pc, js, fi, read>>
vars == <<size, loop, forces, kicks, next, todo, local>>

Team == 1..N_threads
Ids(n) == 0..n - 1
Pairs(n) == {p \in Ids(n) \X Ids(n) : p[1] < p[2]}
Bonds == 0..2 * N_particles - 1

(* Contributions: a pair's and a bond's. *)
Pair(i, j) == <<"pair", i, j>>
Ends(b) == <<b % N_particles, ((b % N_particles) + 1) % N_particles>>
BondOn(b, i) == <<"bond", b, i>>

Apart(i, j) == distance[<<Min({i, j}), Max({i, j})>>]

Init ==
  /\ N_particles \in Particles /\ N_threads \in 1..MaxThreads
  /\ region = "start" /\ step = 0 /\ distance = <<>>
  /\ forces = [i \in Ids(N_particles) |-> EmptyBag]
  /\ kicks = [i \in Ids(N_particles) |-> 0]
  /\ next = 0
  /\ todo = [t \in Team |-> {}]
  /\ pc = [t \in Team |-> "take"] /\ js = todo
  /\ fi = [t \in Team |-> EmptyBag] /\ read = fi

-----------------------------------------------------------------------------
(* Loops and barriers *)

(* schedule(static): equal blocks, the first ones with one more. *)
StaticBlock(t, n) ==
  LET q == n \div N_threads  r == n % N_threads
      first == (t - 1) * q + Min({t - 1, r})
  IN  first..first + q - 1 + IF t <= r THEN 1 ELSE 0

StaticLoop(r, n) ==
  /\ region' = r
  /\ todo' = [t \in Team |-> StaticBlock(t, n)]
  /\ UNCHANGED <<distance, forces, next>>

(* Mutant: no memset. *)
compute_nonbonded_forces_Kept ==
  /\ region' = "nonbonded"
  /\ distance' \in Geometries(N_particles)
  /\ next' = 0
  /\ UNCHANGED <<forces, todo>>

(* memset, then the loop that threads take chunks of. *)
compute_nonbonded_forces ==
  /\ region' = "nonbonded"
  /\ forces' = [i \in Ids(N_particles) |-> EmptyBag]
  /\ distance' \in Geometries(N_particles)
  /\ next' = 0
  /\ UNCHANGED todo

NextStep ==
  IF step < N_steps
  THEN step' = step + 1 /\ StaticLoop("integrate", N_particles)
  ELSE UNCHANGED step /\ StaticLoop("energy", N_particles)

Finished(t) == todo[t] = {} /\ (region = "nonbonded" => next >= N_particles)

(* The barrier at the end of a loop. *)
Arrived == \A t \in Team : Finished(t)

Join ==
  /\ Arrived
  /\ \/ region = "nonbonded" /\ UNCHANGED step /\ StaticLoop("bonds", 2 * N_particles)
     \/ region = "bonds" /\ step = 0 /\ NextStep
     \/ region = "bonds" /\ step > 0 /\ UNCHANGED step /\ StaticLoop("kick", N_particles)
     \/ region = "integrate" /\ UNCHANGED step /\ compute_nonbonded_forces
     \/ region = "kick" /\ NextStep
     \/ region = "energy" /\ UNCHANGED step /\ StaticLoop("end", 0)
  /\ UNCHANGED <<size, kicks, local>>

main ==
  /\ region = "start"
  /\ \/ N_particles < MinParticles /\ StaticLoop("end", 0)
     \/ N_particles >= MinParticles /\ compute_nonbonded_forces
  /\ UNCHANGED <<size, step, kicks, local>>

-----------------------------------------------------------------------------
(* compute_nonbonded_forces: the iterations *)

(* Mutant: a last chunk that is not full is never taken. *)
TakeChunk_Full(t) ==
  /\ region = "nonbonded" /\ todo[t] = {} /\ next + Chunk <= N_particles
  /\ todo' = [todo EXCEPT ![t] = next..next + Chunk - 1]
  /\ next' = next + Chunk
  /\ UNCHANGED <<size, loop, forces, kicks, local>>

TakeChunk(t) ==
  /\ region = "nonbonded" /\ todo[t] = {} /\ next < N_particles
  /\ todo' = [todo EXCEPT ![t] = next..Min({next + Chunk, N_particles}) - 1]
  /\ next' = next + Chunk
  /\ UNCHANGED <<size, loop, forces, kicks, local>>

Current(t) == Min(todo[t])

Goto(t, from, to) == pc[t] = from /\ pc' = [pc EXCEPT ![t] = to]

BeginIteration(t) ==
  /\ region = "nonbonded" /\ todo[t] # {}
  /\ Goto(t, "take", "pairs")
  /\ js' = [js EXCEPT ![t] = {j \in Ids(N_particles) :
                                j > Current(t) /\ Apart(Current(t), j) = "near"}]
  /\ fi' = [fi EXCEPT ![t] = EmptyBag]
  /\ UNCHANGED <<size, loop, forces, kicks, next, todo, read>>

(* The force on j is changed at once, atomically, the one on i when all    *)
(* pairs are done.                                                         *)
AddPair(t) ==
  LET i == Current(t)  j == Min(js[t])
  IN  /\ Goto(t, "pairs", "pairs") /\ js[t] # {}
      /\ fi' = [fi EXCEPT ![t] = BagAdd(@, Pair(i, j))]
      /\ forces' = [forces EXCEPT ![j] = BagAdd(@, Pair(i, j))]
      /\ js' = [js EXCEPT ![t] = @ \ {j}]
      /\ UNCHANGED <<size, loop, kicks, next, todo, read>>

ReadForce(t) ==
  /\ Goto(t, "pairs", "write") /\ js[t] = {}
  /\ read' = [read EXCEPT ![t] = forces[Current(t)]]
  /\ UNCHANGED <<size, loop, forces, kicks, next, todo, js, fi>>

(* Mutant: forces[i] = fi. *)
Written_Alone(t) == fi[t]
Written(t) == read[t] (+) fi[t]

WriteForce(t) ==
  /\ Goto(t, "write", "take")
  /\ forces' = [forces EXCEPT ![Current(t)] = Written(t)]
  /\ todo' = [todo EXCEPT ![t] = @ \ {Current(t)}]
  /\ UNCHANGED <<size, loop, kicks, next, js, fi, read>>

-----------------------------------------------------------------------------
(* The other loops *)

(* Particles in the same place are left alone; both changes are atomic.    *)
AddBond(t) ==
  LET b == Current(t)  i == Ends(b)[1]  j == Ends(b)[2]
  IN  /\ region = "bonds" /\ todo[t] # {}
      /\ forces' = IF Apart(i, j) = "same" THEN forces
                   ELSE [forces EXCEPT ![i] = BagAdd(@, BondOn(b, i)),
                                       ![j] = BagAdd(@, BondOn(b, j))]
      /\ todo' = [todo EXCEPT ![t] = @ \ {b}]
      /\ UNCHANGED <<size, loop, kicks, next, local>>

(* Half a kick; in integrate the drift follows. *)
Kick(t) ==
  /\ region \in {"integrate", "kick"} /\ todo[t] # {}
  /\ kicks' = [kicks EXCEPT ![Current(t)] = @ + 1]
  /\ todo' = [todo EXCEPT ![t] = @ \ {Current(t)}]
  /\ UNCHANGED <<size, loop, forces, next, local>>

(* The sum of each thread is its own until the barrier. *)
AddEnergy(t) ==
  /\ region = "energy" /\ todo[t] # {}
  /\ todo' = [todo EXCEPT ![t] = @ \ {Current(t)}]
  /\ UNCHANGED <<size, loop, forces, kicks, next, local>>

-----------------------------------------------------------------------------
Work(t) ==
  \/ TakeChunk(t) \/ BeginIteration(t) \/ AddPair(t) \/ ReadForce(t) \/ WriteForce(t)
  \/ AddBond(t) \/ Kick(t) \/ AddEnergy(t)

Next == main \/ Join \/ \E t \in Team : Work(t)

(* The threads of the team are scheduled, and nothing keeps them waiting   *)
(* but the barriers.                                                       *)
Fairness == WF_vars(main) /\ WF_vars(Join) /\ \A t \in 1..MaxThreads : WF_vars(t \in Team /\ Work(t))

Spec == Init /\ [][Next]_vars /\ Fairness

-----------------------------------------------------------------------------
PairsOn(i) == {Pair(p[1], p[2]) : p \in {q \in Pairs(N_particles) :
                                           i \in {q[1], q[2]} /\ distance[q] = "near"}}
BondsOn(i) == {BondOn(b, i) : b \in {c \in Bonds : /\ i \in {Ends(c)[1], Ends(c)[2]}
                                                   /\ Apart(Ends(c)[1], Ends(c)[2]) # "same"}}
Exact(i) == SetToBag(PairsOn(i) \cup BondsOn(i))
Lost(i) == BagToSet(Exact(i)) \ BagToSet(forces[i])

ChunkOf(i) == i \div Chunk
KickOf(i) == kicks'[i] # kicks[i]

(* A velocity is changed by the force that belongs to the present places   *)
(* of all particles: nothing is left of earlier ones, nothing was added    *)
(* twice, and what a particle's own iteration and the bonds contribute is  *)
(* there.  Only what another iteration added while forces[i] was between   *)
(* being read and being written can be missing.                            *)
KickedByWholeForces ==
  [][\A i \in Ids(N_particles) : KickOf(i) =>
       /\ forces[i] \sqsubseteq Exact(i)
       /\ Lost(i) \subseteq {Pair(j, i) : j \in Ids(i)}]_vars

(* One thread computes every force exactly, and more of them lose nothing  *)
(* between the particles of one chunk.                                     *)
LostOnlyAcrossChunks ==
  [][\A i \in Ids(N_particles) : KickOf(i) =>
       \A c \in Lost(i) : N_threads > 1 /\ ChunkOf(c[2]) # ChunkOf(c[3])]_vars

(* The program ends, and by then every particle has been kicked twice in   *)
(* each step, however the iterations were shared out.                      *)
SimulationEnds ==
  <>(region = "end" /\ (N_particles >= MinParticles =>
                          \A i \in Ids(N_particles) : kicks[i] = 2 * N_steps))
=============================================================================
