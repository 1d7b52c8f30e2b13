---------------------------- MODULE MiniMdProofs ----------------------------
(***************************************************************************)
(* What the loops of MiniMd leave in the forces, for any number of         *)
(* particles, threads, steps and iterations in a chunk.                    *)
(***************************************************************************)
EXTENDS MiniMd, TLAPS

WellFounded == INSTANCE WellFoundedInduction


-----------------------------------------------------------------------------
(* Bags with one of everything *)

(* Nothing is twice in a bag. *)
Single(B) == B = SetToBag(BagToSet(B))

LEMMA SingleBags ==
  ASSUME NEW S
  PROVE  Single(SetToBag(S)) /\ BagToSet(SetToBag(S)) = S
BY DEF Single, SetToBag, BagToSet

LEMMA SingleEmpty == Single(EmptyBag) /\ BagToSet(EmptyBag) = {}
BY SingleBags DEF EmptyBag

LEMMA SingleAdd ==
  ASSUME NEW B, Single(B), NEW e, e \notin BagToSet(B)
  PROVE  Single(BagAdd(B, e)) /\ BagToSet(BagAdd(B, e)) = BagToSet(B) \cup {e}
BY DEF Single, SetToBag, BagToSet, BagAdd

LEMMA SingleJoin ==
  ASSUME NEW A, Single(A), NEW B, Single(B), BagToSet(A) \cap BagToSet(B) = {}
  PROVE  Single(A (+) B) /\ BagToSet(A (+) B) = BagToSet(A) \cup BagToSet(B)
BY DEF Single, SetToBag, BagToSet, (+)

LEMMA SingleWithin ==
  ASSUME NEW A, Single(A), NEW S, BagToSet(A) \subseteq S
  PROVE  A \sqsubseteq SetToBag(S)
BY DEF Single, SetToBag, BagToSet, \sqsubseteq

-----------------------------------------------------------------------------
(* Least elements *)

LEMMA LeastNatural ==
  ASSUME NEW T \in SUBSET Nat, T # {}
  PROVE  \E m \in T : \A n \in T : m <= n
<1>1. \E m \in T : \A n \in T : <<n, m>> \notin WellFounded!OpToRel(<, Nat)
  BY WellFounded!NatLessThanWellFounded, WellFounded!WFMin
<1>2. \A m, n \in Nat : <<n, m>> \in WellFounded!OpToRel(<, Nat) <=> n < m
  BY DEF WellFounded!OpToRel
<1>3. \E m \in T : \A n \in T : ~(n < m)
  BY <1>1, <1>2, Zenon
<1> QED  BY <1>3

LEMMA LeastIsMin ==
  ASSUME NEW S \in SUBSET Nat, S # {}
  PROVE  Min(S) \in S /\ \A k \in S : Min(S) <= k
BY LeastNatural DEF Min

LEMMA MinMaxOfTwo ==
  ASSUME NEW a \in Nat, NEW b \in Nat
  PROVE  /\ Min({a, b}) = IF a <= b THEN a ELSE b
         /\ Max({a, b}) = IF a <= b THEN b ELSE a
BY DEF Min, Max

-----------------------------------------------------------------------------
(* Blocks of a static loop *)

BlockFirst(t, n) == (t - 1) * (n \div N_threads) + Min({t - 1, n % N_threads})

LEMMA Division ==
  ASSUME NEW n \in Nat, NEW T \in Nat \ {0}
  PROVE  /\ n \div T \in Nat /\ n % T \in 0..T-1
         /\ n = (T * (n \div T)) + (n % T)
OBVIOUS

LEMMA TimesMonotone ==
  ASSUME NEW a \in Nat, NEW b \in Nat, NEW c \in Nat, a <= b
  PROVE  a * c \in Nat /\ b * c \in Nat /\ a * c <= b * c
OBVIOUS

(* A block ends where the next one begins. *)
LEMMA BlockBounds ==
  ASSUME N_threads \in Nat \ {0}, NEW n \in Nat
  PROVE  /\ \A t \in 1..N_threads + 1 : BlockFirst(t, n) \in Nat
         /\ \A t \in Team : StaticBlock(t, n) = BlockFirst(t, n)..BlockFirst(t + 1, n) - 1
         /\ BlockFirst(1, n) = 0 /\ BlockFirst(N_threads + 1, n) = n
         /\ \A t, u \in 1..N_threads + 1 : t <= u => BlockFirst(t, n) <= BlockFirst(u, n)
<1> DEFINE T == N_threads
           q == n \div T
           r == n % T
           before(k) == IF k <= r THEN k ELSE r
<1>1. T \in Nat \ {0} /\ q \in Nat /\ r \in 0..T-1 /\ n = (T * q) + r
  BY Division
<1>2. \A t \in 1..T+1 : BlockFirst(t, n) = (t - 1) * q + before(t - 1)
  <2> TAKE t \in 1..T+1
  <2>1. t - 1 \in Nat /\ r \in Nat
    BY <1>1
  <2>2. Min({t - 1, r}) = before(t - 1)
    BY <2>1, MinMaxOfTwo
  <2> QED  BY <2>2 DEF BlockFirst
<1>3. \A t \in Team : StaticBlock(t, n) = BlockFirst(t, n)..BlockFirst(t, n) + q - 1 + IF t <= r THEN 1 ELSE 0
  BY DEF StaticBlock, BlockFirst
<1> HIDE DEF T, q, r
<1>4. \A t \in 1..T+1 : BlockFirst(t, n) \in Nat
  <2> TAKE t \in 1..T+1
  <2>1. (t - 1) * q \in Nat
    BY <1>1, TimesMonotone
  <2> QED  BY <1>1, <1>2, <2>1
<1>5. \A t \in 1..T : BlockFirst(t + 1, n) = BlockFirst(t, n) + q + IF t <= r THEN 1 ELSE 0
  <2> TAKE t \in 1..T
  <2>1. t \in 1..T+1 /\ t + 1 \in 1..T+1 /\ (t + 1) - 1 = t
    BY <1>1
  <2>2. t * q = (t - 1) * q + q
    BY <1>1
  <2>3. (t - 1) * q \in Nat
    BY <1>1, TimesMonotone
  <2>4. BlockFirst(t + 1, n) = t * q + before(t)
    BY <1>2, <2>1, Zenon
  <2> QED  BY <1>1, <1>2, <2>1, <2>2, <2>3, <2>4
<1>6. BlockFirst(1, n) = 0
  BY <1>1, <1>2
<1>7. BlockFirst(T + 1, n) = n
  <2>1. (T + 1) - 1 = T /\ T + 1 \in 1..T+1
    BY <1>1
  <2>2. BlockFirst(T + 1, n) = T * q + before(T)
    BY <1>2, <2>1, Zenon
  <2> QED  BY <1>1, <2>2
<1>8. ASSUME NEW t \in 1..T+1, NEW u \in 1..T+1, t <= u
      PROVE  BlockFirst(t, n) <= BlockFirst(u, n)
  <2>1. t - 1 \in Nat /\ u - 1 \in Nat /\ t - 1 <= u - 1
    BY <1>1, <1>8
  <2>2. (t - 1) * q \in Nat /\ (u - 1) * q \in Nat /\ (t - 1) * q <= (u - 1) * q
    BY <1>1, <2>1, TimesMonotone
  <2> QED  BY <1>1, <1>2, <2>1, <2>2
<1>9. \A t \in 1..T : BlockFirst(t, n) \in Nat /\ BlockFirst(t + 1, n) \in Nat
  BY <1>1, <1>4
<1>10. ASSUME NEW t \in Team
       PROVE  StaticBlock(t, n) = BlockFirst(t, n)..BlockFirst(t + 1, n) - 1
  <2>1. t \in 1..T
    BY DEF Team, T
  <2>2. BlockFirst(t, n) + q - 1 + (IF t <= r THEN 1 ELSE 0) = BlockFirst(t + 1, n) - 1
    BY <1>1, <1>5, <1>9, <2>1
  <2> QED  BY <1>3, <2>2
<1> QED  BY <1>4, <1>6, <1>7, <1>8, <1>10 DEF T

(* Each iteration is in one block, and in no other. *)
LEMMA BlocksPartition ==
  ASSUME N_threads \in Nat \ {0}, NEW n \in Nat
  PROVE  /\ \A t \in Team : StaticBlock(t, n) \subseteq 0..n-1
         /\ \A t, u \in Team : t # u => StaticBlock(t, n) \cap StaticBlock(u, n) = {}
         /\ \A x \in 0..n-1 : \E t \in Team : x \in StaticBlock(t, n)
<1> DEFINE T == N_threads
           F(t) == BlockFirst(t, n)
<1>1. /\ T \in Nat \ {0} /\ Team = 1..T
      /\ \A t \in 1..T+1 : F(t) \in Nat
      /\ \A t \in 1..T : StaticBlock(t, n) = F(t)..F(t+1)-1
      /\ F(1) = 0 /\ F(T+1) = n
      /\ \A t, u \in 1..T+1 : t <= u => F(t) <= F(u)
  BY BlockBounds DEF Team
<1> HIDE DEF T, F
<1>2. \A t \in 1..T : t \in 1..T+1 /\ t + 1 \in 1..T+1 /\ T + 1 \in 1..T+1 /\ t + 1 <= T + 1
  BY <1>1
<1>3. \A t \in 1..T : F(t) \in Nat /\ F(t+1) \in Nat /\ F(t+1) <= n
  BY <1>1, <1>2
<1>4. ASSUME NEW t \in 1..T, NEW u \in 1..T, t < u
      PROVE  StaticBlock(t, n) \cap StaticBlock(u, n) = {}
  <2>1. F(t+1) <= F(u)
    BY <1>1, <1>2, <1>4
  <2> SUFFICES ASSUME NEW x \in StaticBlock(t, n), x \in StaticBlock(u, n)
               PROVE  FALSE
    OBVIOUS
  <2>2. x \in F(t)..F(t+1)-1 /\ x \in F(u)..F(u+1)-1
    BY <1>1
  <2> QED  BY <1>3, <2>1, <2>2
<1>5. ASSUME NEW x \in 0..n-1
      PROVE  \E t \in 1..T : x \in StaticBlock(t, n)
  <2> DEFINE S == {t \in 1..T : x < F(t+1)}
  <2>1. T \in S /\ S \in SUBSET Nat
    BY <1>1
  <2>2. PICK m \in S : \A k \in S : m <= k
    BY <2>1, LeastNatural
  <2>3. F(m) <= x
    <3>1. CASE m = 1
      BY <1>1, <3>1
    <3>2. CASE m # 1
      <4>0. m \in 1..T
        BY <2>2
      <4>1. m - 1 \in 1..T /\ ~(m <= m - 1) /\ (m - 1) + 1 = m
        BY <1>1, <3>2, <4>0
      <4>3. m - 1 \notin S
        BY <2>2, <4>1
      <4>2. ~(x < F(m))
        BY <4>1, <4>3
      <4> QED  BY <1>3, <2>2, <4>2
    <3> QED  BY <3>1, <3>2
  <2> QED  BY <1>1, <1>3, <2>2, <2>3
<1>6. \A t, u \in 1..T : t # u => t < u \/ u < t
  BY <1>1
<1>7. \A t, u \in Team : t # u => StaticBlock(t, n) \cap StaticBlock(u, n) = {}
  BY <1>1, <1>4, <1>6
<1>8. \A t \in Team : StaticBlock(t, n) \subseteq 0..n-1
  BY <1>1, <1>3
<1> QED  BY <1>1, <1>5, <1>7, <1>8

-----------------------------------------------------------------------------
(* The inductive invariant *)

Near(a, b) == a < b /\ distance[<<a, b>>] = "near"

(* Contributions that the force on i has. *)
Got(i) == BagToSet(forces[i])

(* What no two threads can have in hand at a time. *)
OneHand(a, b) == N_threads = 1 \/ ChunkOf(a) = ChunkOf(b)

Busy(t) == pc[t] # "take"
Done(i) == i < next /\ \A t \in Team : i \notin todo[t]

(* Pair(a, b) has been added to the force on b. *)
Passed(a, b) ==
  \/ Done(a)
  \/ \E t \in Team : Busy(t) /\ a = Current(t) /\ b \notin js[t]

TypeInv ==
  /\ N_particles \in Nat /\ N_threads \in Nat \ {0}
  /\ region \in {"start", "nonbonded", "bonds", "integrate", "kick", "energy", "end"}
  /\ region \notin {"start", "end"} => N_particles >= MinParticles
  /\ next \in Nat
  /\ todo \in [Team -> SUBSET Nat]
  /\ pc \in [Team -> {"take", "pairs", "write"}]
  /\ js \in [Team -> SUBSET Ids(N_particles)]
  /\ DOMAIN fi = Team /\ DOMAIN read = Team /\ DOMAIN forces = Ids(N_particles)

(* Only this loop has more than one step in an iteration. *)
PlaceInv == \A t \in Team : Busy(t) => region = "nonbonded" /\ todo[t] # {}

(* No iteration is given to two threads. *)
ShareInv == \A t, u \in Team : t # u => todo[t] \cap todo[u] = {}

(* Chunks are taken whole and worked off in order. *)
ChunkInv ==
  /\ \E k \in Nat : next = k * Chunk
  /\ \A t \in Team : \A i \in todo[t] : i \in Ids(N_particles) /\ i < next
  /\ \A t \in Team : \A i \in todo[t] : \A j \in Ids(N_particles) :
       i < j /\ j < next /\ OneHand(i, j) => j \in todo[t]

(* The sum of an iteration: the pairs it has been through. *)
SumInv(t) ==
  LET i == Current(t)
  IN  /\ Single(fi[t])
      /\ \A j \in js[t] : Near(i, j)
      /\ \A c \in BagToSet(fi[t]) :
           \E j \in Ids(N_particles) : Near(i, j) /\ j \notin js[t] /\ c = Pair(i, j)
      /\ \A j \in Ids(N_particles) : Near(i, j) /\ j \notin js[t] => Pair(i, j) \in BagToSet(fi[t])
      /\ pc[t] = "write" => js[t] = {}

(* What an iteration has read is still there, and has what it must have.   *)
ReadInv(t) ==
  LET i == Current(t)
  IN  /\ Single(read[t]) /\ BagToSet(read[t]) \subseteq Got(i)
      /\ \A a \in Ids(N_particles) : Near(a, i) /\ OneHand(a, i) => Pair(a, i) \in BagToSet(read[t])

(* The force on i has the pairs of its own iteration if that is done, and  *)
(* of those that were added to it at least the ones of its own chunk.      *)
PairInv(i) ==
  /\ Single(forces[i]) /\ Got(i) \subseteq PairsOn(i)
  /\ \A b \in Ids(N_particles) : Near(i, b) => (Pair(i, b) \in Got(i) <=> Done(i))
  /\ \A a \in Ids(N_particles) : Near(a, i) =>
       /\ Pair(a, i) \in Got(i) => Passed(a, i)
       /\ OneHand(a, i) /\ Passed(a, i) => Pair(a, i) \in Got(i)

NonbondedInv ==
  /\ ChunkInv
  /\ \A t \in Team : Busy(t) => SumInv(t) /\ (pc[t] = "write" => ReadInv(t))
  /\ \A i \in Ids(N_particles) : PairInv(i)

(* All pairs are there, but for those that a write has run over. *)
PairsThere(i) ==
  /\ \A b \in Ids(N_particles) : Near(i, b) => Pair(i, b) \in Got(i)
  /\ \A a \in Ids(N_particles) : Near(a, i) /\ OneHand(a, i) => Pair(a, i) \in Got(i)

Due(b) == \E t \in Team : b \in todo[t]

BondInv(i) ==
  /\ Single(forces[i]) /\ Got(i) \subseteq PairsOn(i) \cup BondsOn(i)
  /\ PairsThere(i)
  /\ \A b \in Bonds : BondOn(b, i) \in BondsOn(i) => (BondOn(b, i) \in Got(i) <=> ~Due(b))

BondsInv ==
  /\ \A t \in Team : todo[t] \subseteq Bonds
  /\ \A i \in Ids(N_particles) : BondInv(i)

WholeForce(i) ==
  /\ Single(forces[i]) /\ Got(i) \subseteq PairsOn(i) \cup BondsOn(i)
  /\ PairsThere(i)
  /\ BondsOn(i) \subseteq Got(i)

ForceInv ==
  /\ region = "start" => \A t \in Team : todo[t] = {}
  /\ region = "nonbonded" => NonbondedInv
  /\ region = "bonds" => BondsInv
  /\ region \in {"integrate", "kick"} => \A i \in Ids(N_particles) : WholeForce(i)

Inv == TypeInv /\ PlaceInv /\ ShareInv /\ ForceInv

-----------------------------------------------------------------------------
(* What the operators give *)

LEMMA CurrentIs ==
  ASSUME TypeInv, NEW t \in Team, todo[t] # {}
  PROVE  /\ Current(t) \in todo[t] /\ Current(t) \in Nat
         /\ \A k \in todo[t] : k \in Nat /\ Current(t) <= k
<1>1. todo[t] \in SUBSET Nat
  BY DEF TypeInv
<1> QED  BY <1>1, LeastIsMin DEF Current

LEMMA ApartIs ==
  ASSUME NEW a \in Nat, NEW b \in Nat, a < b
  PROVE  Apart(a, b) = distance[<<a, b>>]
BY MinMaxOfTwo DEF Apart

LEMMA PairsDiffer ==
  ASSUME NEW a, NEW b, NEW c, NEW d, Pair(a, b) = Pair(c, d)
  PROVE  a = c /\ b = d
BY DEF Pair

LEMMA PairsOnIs ==
  ASSUME NEW i, NEW c
  PROVE  c \in PairsOn(i) <=>
           \E a, b \in Ids(N_particles) : Near(a, b) /\ (i = a \/ i = b) /\ c = Pair(a, b)
<1>1. ASSUME c \in PairsOn(i)
      PROVE  \E a, b \in Ids(N_particles) : Near(a, b) /\ (i = a \/ i = b) /\ c = Pair(a, b)
  <2>1. PICK p \in Pairs(N_particles) : /\ i \in {p[1], p[2]} /\ distance[p] = "near"
                                        /\ c = Pair(p[1], p[2])
    BY <1>1 DEF PairsOn
  <2>2. /\ p[1] \in Ids(N_particles) /\ p[2] \in Ids(N_particles) /\ p[1] < p[2]
        /\ p = <<p[1], p[2]>>
    BY DEF Pairs
  <2>3. Near(p[1], p[2])
    BY <2>1, <2>2 DEF Near
  <2> QED  BY <2>1, <2>2, <2>3
<1>2. ASSUME NEW a \in Ids(N_particles), NEW b \in Ids(N_particles),
             Near(a, b), i = a \/ i = b, c = Pair(a, b)
      PROVE  c \in PairsOn(i)
  <2>1. <<a, b>> \in Pairs(N_particles)
    BY <1>2 DEF Near, Pairs
  <2> QED  BY <1>2, <2>1 DEF Near, PairsOn
<1> QED  BY <1>1, <1>2

LEMMA ChunkBound ==
  ASSUME NEW k \in Nat, NEW i \in Nat
  PROVE  i < k * Chunk <=> ChunkOf(i) < k
<1> DEFINE q == i \div Chunk
           r == i % Chunk
<1>1. Chunk \in Nat \ {0}
  BY MdAssumption
<1>2. q \in Nat /\ r \in 0..Chunk-1 /\ i = (Chunk * q) + r
  BY <1>1, Division
<1> HIDE DEF q, r
<1>3. CASE q < k
  <2>1. q + 1 <= k
    BY <1>2, <1>3
  <2>2. (q + 1) * Chunk <= k * Chunk /\ (q + 1) * Chunk \in Nat /\ k * Chunk \in Nat
    BY <1>1, <1>2, <2>1, TimesMonotone
  <2>3. (q + 1) * Chunk = (Chunk * q) + Chunk /\ Chunk * q \in Nat
    BY <1>1, <1>2
  <2>4. i < k * Chunk
    BY <1>1, <1>2, <2>2, <2>3
  <2> QED  BY <1>3, <2>4 DEF ChunkOf, q
<1>4. CASE ~(q < k)
  <2>1. k <= q
    BY <1>2, <1>4
  <2>2. k * Chunk <= q * Chunk /\ q * Chunk \in Nat /\ k * Chunk \in Nat
    BY <1>1, <1>2, <2>1, TimesMonotone
  <2>3. q * Chunk = Chunk * q
    BY <1>1, <1>2
  <2>4. ~(i < k * Chunk)
    BY <1>1, <1>2, <2>2, <2>3
  <2> QED  BY <1>4, <2>4 DEF ChunkOf, q
<1> QED  BY <1>3, <1>4

(* The chunks that are taken are whole. *)
LEMMA TakenWhole ==
  ASSUME ChunkInv, NEW i \in Nat, NEW j \in Nat, ChunkOf(i) = ChunkOf(j), i < next
  PROVE  j < next
BY ChunkBound DEF ChunkInv

(* An iteration that runs has all smaller ones of the same hand behind it. *)
LEMMA BehindIsDone ==
  ASSUME TypeInv, ShareInv, ChunkInv, NEW t \in Team, todo[t] # {},
         NEW a \in Ids(N_particles), a < Current(t), OneHand(a, Current(t))
  PROVE  Done(a)
<1> DEFINE i == Current(t)
<1>1. i \in todo[t] /\ i \in Ids(N_particles) /\ i < next /\ \A k \in todo[t] : i <= k
  BY CurrentIs DEF ChunkInv
<1> HIDE DEF i
<1>2. a \in Nat /\ i \in Nat /\ next \in Nat /\ a < i
  BY <1>1 DEF Ids, TypeInv, i
<1>3. a < next
  BY <1>1, <1>2
<1>4. ASSUME NEW u \in Team, a \in todo[u]  PROVE FALSE
  <2>1. OneHand(a, i)
    BY DEF i
  <2>2. i \in todo[u]
    BY <1>1, <1>2, <1>4, <2>1 DEF ChunkInv
  <2>3. u = t
    BY <1>1, <2>2 DEF ShareInv
  <2>4. i <= a
    BY <1>1, <1>4, <2>3
  <2> QED  BY <1>2, <2>4
<1> QED  BY <1>3, <1>4 DEF Done

-----------------------------------------------------------------------------
(* Types, places and shares *)

LEMMA InitInv == Init => Inv
<1> SUFFICES ASSUME Init  PROVE Inv
  OBVIOUS
<1>1. N_particles \in Nat /\ N_threads \in Nat \ {0} /\ Team = 1..N_threads
  BY MdAssumption DEF Init, Team
<1>2. TypeInv
  BY <1>1 DEF Init, TypeInv
<1>3. PlaceInv /\ ShareInv
  BY DEF Init, PlaceInv, ShareInv, Busy
<1>4. ForceInv
  BY DEF Init, ForceInv
<1> QED  BY <1>2, <1>3, <1>4 DEF Inv

(* A loop begins: nobody has started, and the iterations are shared out.   *)
LEMMA LoopBegins ==
  ASSUME TypeInv, NEW n \in Nat, NEW r, StaticLoop(r, n), UNCHANGED <<size, local>>
  PROVE  /\ todo' \in [Team -> SUBSET Nat] /\ ShareInv'
         /\ \A t \in Team : todo'[t] \subseteq 0..n-1
         /\ \A x \in 0..n-1 : \E t \in Team : x \in todo'[t]
<1>1. /\ N_threads \in Nat \ {0} /\ Team' = Team
      /\ \A t \in Team : todo'[t] = StaticBlock(t, n)
      /\ todo' = [t \in Team |-> StaticBlock(t, n)]
  BY DEF TypeInv, StaticLoop, size, Team
<1>2. /\ \A t \in Team : StaticBlock(t, n) \subseteq 0..n-1
      /\ \A t, u \in Team : t # u => StaticBlock(t, n) \cap StaticBlock(u, n) = {}
      /\ \A x \in 0..n-1 : \E t \in Team : x \in StaticBlock(t, n)
  BY <1>1, BlocksPartition
<1>3. \A t \in Team : StaticBlock(t, n) \subseteq Nat
  BY <1>2
<1>4. ShareInv'
  BY <1>1, <1>2 DEF ShareInv
<1> QED  BY <1>1, <1>2, <1>3, <1>4

(* Where everybody has arrived, nobody is in an iteration. *)
LEMMA ArrivedIdle ==
  ASSUME TypeInv, PlaceInv, Arrived
  PROVE  \A t \in Team : todo[t] = {} /\ ~Busy(t)
BY DEF PlaceInv, Arrived, Finished

LEMMA JoinShare ==
  ASSUME TypeInv, PlaceInv, ShareInv, Join
  PROVE  TypeInv' /\ PlaceInv' /\ ShareInv'
<1>1. \A t \in Team : todo[t] = {} /\ ~Busy(t)
  BY ArrivedIdle DEF Join
<1>2. /\ UNCHANGED <<size, kicks, local>> /\ Team' = Team
      /\ N_particles' = N_particles /\ N_threads' = N_threads
  BY DEF Join, size, Team
<1>3. N_particles \in Nat /\ 2 * N_particles \in Nat /\ 0 \in Nat
  BY DEF TypeInv
<1>4. PlaceInv'
  BY <1>1, <1>2 DEF PlaceInv, Busy, local
<1>5. ASSUME NEW r \in {"bonds", "integrate", "kick", "energy", "end"}, NEW n \in Nat,
             StaticLoop(r, n), region \notin {"start", "end"}
      PROVE  TypeInv' /\ ShareInv'
  <2>1. todo' \in [Team -> SUBSET Nat] /\ ShareInv'
    BY <1>2, <1>5, LoopBegins
  <2> QED  BY <1>2, <1>5, <2>1 DEF TypeInv, StaticLoop, local, Ids
<1>6. CASE region = "integrate" /\ compute_nonbonded_forces
  <2>1. TypeInv'
    BY <1>2, <1>6 DEF TypeInv, compute_nonbonded_forces, local, Ids
  <2>2. ShareInv'
    BY <1>2, <1>6 DEF ShareInv, compute_nonbonded_forces
  <2> QED  BY <1>4, <2>1, <2>2
<1>7. CASE region = "nonbonded" /\ StaticLoop("bonds", 2 * N_particles)
  BY <1>3, <1>4, <1>5, <1>7
<1>8. CASE region \in {"bonds", "kick"} /\ NextStep
  <2>1. StaticLoop("integrate", N_particles) \/ StaticLoop("energy", N_particles)
    BY <1>8 DEF NextStep
  <2> QED  BY <1>3, <1>4, <1>5, <1>8, <2>1
<1>9. CASE region = "bonds" /\ StaticLoop("kick", N_particles)
  BY <1>3, <1>4, <1>5, <1>9
<1>10. CASE region = "energy" /\ StaticLoop("end", 0)
  BY <1>3, <1>4, <1>5, <1>10
<1> QED  BY <1>6, <1>7, <1>8, <1>9, <1>10 DEF Join

LEMMA MainShare ==
  ASSUME TypeInv, PlaceInv, ShareInv, main
  PROVE  TypeInv' /\ PlaceInv' /\ ShareInv'
<1>1. /\ UNCHANGED <<size, step, kicks, local>> /\ Team' = Team
      /\ N_particles' = N_particles /\ N_threads' = N_threads
  BY DEF main, size, Team
<1>2. \A t \in Team : ~Busy(t)
  BY DEF main, PlaceInv
<1>3. PlaceInv'
  BY <1>1, <1>2 DEF PlaceInv, Busy, local
<1>4. CASE StaticLoop("end", 0)
  <2>1. todo' \in [Team -> SUBSET Nat] /\ ShareInv'
    BY <1>1, <1>4, LoopBegins
  <2> QED  BY <1>1, <1>3, <1>4, <2>1 DEF TypeInv, StaticLoop, local, Ids
<1>5. CASE N_particles >= MinParticles /\ compute_nonbonded_forces
  <2>1. TypeInv'
    BY <1>1, <1>5 DEF TypeInv, compute_nonbonded_forces, local, Ids
  <2>2. ShareInv'
    BY <1>1, <1>5 DEF ShareInv, compute_nonbonded_forces
  <2> QED  BY <1>3, <2>1, <2>2
<1> QED  BY <1>4, <1>5 DEF main

(* What a step of a thread never changes, and what it leaves the others.   *)
LEMMA WorkFrame ==
  ASSUME TypeInv, NEW t \in Team, Work(t)
  PROVE  /\ UNCHANGED <<N_particles, N_threads, region, step, distance>> /\ Team' = Team
         /\ \A u \in Team \ {t} : /\ todo'[u] = todo[u] /\ pc'[u] = pc[u] /\ js'[u] = js[u]
                                  /\ fi'[u] = fi[u] /\ read'[u] = read[u]
<1>1. UNCHANGED <<N_particles, N_threads, region, step, distance>>
  BY DEF Work, TakeChunk, BeginIteration, AddPair, ReadForce, WriteForce, AddBond, Kick,
         AddEnergy, size, loop
<1>2. Team' = Team
  BY <1>1 DEF Team
<1>3. ASSUME NEW u \in Team \ {t}
      PROVE  todo'[u] = todo[u] /\ pc'[u] = pc[u] /\ js'[u] = js[u]
  BY <1>3 DEF Work, TakeChunk, BeginIteration, AddPair, ReadForce, WriteForce, AddBond, Kick,
              AddEnergy, Goto, local, TypeInv
<1>4. ASSUME NEW u \in Team \ {t}
      PROVE  fi'[u] = fi[u] /\ read'[u] = read[u]
  BY <1>4 DEF Work, TakeChunk, BeginIteration, AddPair, ReadForce, WriteForce, AddBond, Kick,
              AddEnergy, Goto, local, TypeInv
<1> QED  BY <1>1, <1>2, <1>3, <1>4

LEMMA TakenChunk ==
  ASSUME TypeInv, NEW t \in Team, TakeChunk(t)
  PROVE  /\ \A x : x \in todo'[t] <=> x \in Ids(N_particles) /\ next <= x /\ x < next + Chunk
         /\ next' = next + Chunk /\ next' \in Nat
         /\ todo[t] = {} /\ todo' \in [Team -> SUBSET Nat]
<1> DEFINE m == Min({next + Chunk, N_particles})
<1>1. next \in Nat /\ N_particles \in Nat /\ Chunk \in Nat /\ next + Chunk \in Nat
  BY MdAssumption DEF TypeInv
<1>2. m = IF next + Chunk <= N_particles THEN next + Chunk ELSE N_particles
  BY <1>1, MinMaxOfTwo
<1>3. todo' = [todo EXCEPT ![t] = next..m - 1] /\ todo[t] = {} /\ next' = next + Chunk
  BY DEF TakeChunk
<1> HIDE DEF m
<1>4. todo'[t] = next..m - 1 /\ next..m - 1 \subseteq Nat
  BY <1>1, <1>2, <1>3 DEF TypeInv
<1>5. \A x : x \in todo'[t] <=> x \in Ids(N_particles) /\ next <= x /\ x < next + Chunk
  BY <1>1, <1>2, <1>4 DEF Ids
<1>6. todo' \in [Team -> SUBSET Nat]
  BY <1>3, <1>4 DEF TypeInv
<1> QED  BY <1>1, <1>3, <1>5, <1>6

LEMMA WorkTodo ==
  ASSUME TypeInv, NEW t \in Team, Work(t), ~TakeChunk(t)
  PROVE  /\ todo' \in [Team -> SUBSET Nat] /\ todo'[t] \subseteq todo[t] /\ next' = next
<1>1. todo \in [Team -> SUBSET Nat]
  BY DEF TypeInv
<1>2. todo' = todo \/ \E x : todo' = [todo EXCEPT ![t] = @ \ {x}]
  BY DEF Work, BeginIteration, AddPair, ReadForce, WriteForce, AddBond, Kick, AddEnergy
<1>3. next' = next
  BY DEF Work, BeginIteration, AddPair, ReadForce, WriteForce, AddBond, Kick, AddEnergy
<1> QED  BY <1>1, <1>2, <1>3

LEMMA WorkShare ==
  ASSUME TypeInv, PlaceInv, ShareInv, ForceInv, NEW t \in Team, Work(t)
  PROVE  TypeInv' /\ PlaceInv' /\ ShareInv'
<1>0. /\ UNCHANGED <<N_particles, N_threads, region, step, distance>> /\ Team' = Team
      /\ \A u \in Team \ {t} : todo'[u] = todo[u] /\ pc'[u] = pc[u]
  BY WorkFrame
<1>1. todo' \in [Team -> SUBSET Nat] /\ next' \in Nat
  <2>1. CASE TakeChunk(t)
    BY <2>1, TakenChunk
  <2>2. CASE ~TakeChunk(t)
    BY <2>2, WorkTodo DEF TypeInv
  <2> QED  BY <2>1, <2>2
<1>2. pc' \in [Team -> {"take", "pairs", "write"}] /\ js' \in [Team -> SUBSET Ids(N_particles)]
  <2>1. pc \in [Team -> {"take", "pairs", "write"}] /\ js \in [Team -> SUBSET Ids(N_particles)]
    BY DEF TypeInv
  <2>2. pc' \in [Team -> {"take", "pairs", "write"}]
    BY <2>1 DEF Work, TakeChunk, BeginIteration, AddPair, ReadForce, WriteForce, AddBond, Kick,
                AddEnergy, Goto, local
  <2>3. CASE BeginIteration(t)
    BY <2>1, <2>2, <2>3 DEF BeginIteration
  <2>4. CASE AddPair(t)
    BY <2>1, <2>2, <2>4 DEF AddPair
  <2>5. CASE js' = js
    BY <2>1, <2>2, <2>5
  <2> QED  BY <2>3, <2>4, <2>5 DEF Work, TakeChunk, ReadForce, WriteForce, AddBond, Kick,
                                   AddEnergy, local
<1>3. DOMAIN fi' = Team /\ DOMAIN read' = Team /\ DOMAIN forces' = Ids(N_particles)
  <2>1. DOMAIN fi = Team /\ DOMAIN read = Team /\ DOMAIN forces = Ids(N_particles)
    BY DEF TypeInv
  <2>2. DOMAIN fi' = Team
    BY <2>1 DEF Work, TakeChunk, BeginIteration, AddPair, ReadForce, WriteForce, AddBond, Kick,
                AddEnergy, local
  <2>3. DOMAIN read' = Team
    BY <2>1 DEF Work, TakeChunk, BeginIteration, AddPair, ReadForce, WriteForce, AddBond, Kick,
                AddEnergy, local
  <2>4. DOMAIN forces' = Ids(N_particles)
    BY <2>1 DEF Work, TakeChunk, BeginIteration, AddPair, ReadForce, WriteForce, AddBond, Kick,
                AddEnergy
  <2> QED  BY <2>2, <2>3, <2>4
<1>4. TypeInv'
  BY <1>0, <1>1, <1>2, <1>3 DEF TypeInv, Ids
<1>5. PlaceInv'
  <2> SUFFICES ASSUME NEW u \in Team, pc'[u] # "take"
               PROVE  region' = "nonbonded" /\ todo'[u] # {}
    BY <1>0 DEF PlaceInv, Busy
  <2>1. CASE u # t
    BY <1>0, <2>1 DEF PlaceInv, Busy
  <2>2. CASE u = t
    <3>1. pc[t] \in {"take", "pairs", "write"} /\ pc \in [Team -> {"take", "pairs", "write"}]
      BY DEF TypeInv
    <3>2. CASE BeginIteration(t)
      BY <1>0, <2>2, <3>2 DEF BeginIteration
    <3>3. CASE AddPair(t) \/ ReadForce(t)
      BY <1>0, <2>2, <3>1, <3>3 DEF AddPair, ReadForce, Goto, PlaceInv, Busy
    <3>4. CASE WriteForce(t)
      BY <2>2, <3>1, <3>4 DEF WriteForce, Goto
    <3>5. CASE TakeChunk(t)
      BY <2>2, <3>5 DEF TakeChunk, PlaceInv, Busy, local
    <3>6. CASE AddBond(t) \/ Kick(t) \/ AddEnergy(t)
      BY <2>2, <3>6 DEF AddBond, Kick, AddEnergy, PlaceInv, Busy, local
    <3> QED  BY <3>2, <3>3, <3>4, <3>5, <3>6 DEF Work
  <2> QED  BY <2>1, <2>2
<1>6. ShareInv'
  <2>1. CASE TakeChunk(t)
    <3>1. ChunkInv /\ next \in Nat
      BY <2>1 DEF TakeChunk, ForceInv, NonbondedInv, TypeInv
    <3>2. ASSUME NEW u \in Team \ {t}, NEW x, x \in todo'[u], x \in todo'[t]
          PROVE  FALSE
      <4>1. x \in todo[u]
        BY <1>0, <3>2
      <4>2. x < next /\ x \in Nat
        BY <3>1, <4>1 DEF ChunkInv, Ids
      <4>3. next <= x
        BY <2>1, <3>2, TakenChunk
      <4> QED  BY <3>1, <4>2, <4>3
    <3> QED  BY <1>0, <3>2 DEF ShareInv
  <2>2. CASE ~TakeChunk(t)
    <3>1. todo'[t] \subseteq todo[t]
      BY <2>2, WorkTodo
    <3> QED  BY <1>0, <3>1 DEF ShareInv
  <2> QED  BY <2>1, <2>2
<1> QED  BY <1>4, <1>5, <1>6

-----------------------------------------------------------------------------
(* The loop of pairs *)

LEMMA GeometryStays ==
  ASSUME UNCHANGED <<N_particles, N_threads, distance>>
  PROVE  /\ Team' = Team /\ Ids(N_particles)' = Ids(N_particles) /\ Bonds' = Bonds
         /\ \A a, b : Near(a, b)' <=> Near(a, b)
         /\ \A a, b : OneHand(a, b)' <=> OneHand(a, b)
         /\ \A i : PairsOn(i)' = PairsOn(i)
         /\ \A i : BondsOn(i)' = BondsOn(i)
<1>1. Team' = Team /\ Ids(N_particles)' = Ids(N_particles) /\ Bonds' = Bonds
  BY DEF Team, Ids, Bonds
<1>2. /\ \A a, b : Near(a, b)' <=> Near(a, b)
      /\ \A a, b : OneHand(a, b)' <=> OneHand(a, b)
  BY DEF Near, OneHand, ChunkOf
<1>3. \A i : PairsOn(i)' = PairsOn(i)
  BY DEF PairsOn
<1>4. \A i : BondsOn(i)' = BondsOn(i)
  BY <1>1 DEF BondsOn, Ends, Apart
<1> QED  BY <1>1, <1>2, <1>3, <1>4

(* Whose iteration is not disturbed keeps its sum. *)
LEMMA SumStays ==
  ASSUME UNCHANGED <<N_particles, N_threads, distance>>, NEW u \in Team,
         todo'[u] = todo[u], pc'[u] = pc[u], js'[u] = js[u], fi'[u] = fi[u], SumInv(u)
  PROVE  SumInv(u)'
<1>1. Current(u)' = Current(u)
  BY DEF Current
<1>2. /\ Ids(N_particles)' = Ids(N_particles)
      /\ \A a, b : Near(a, b)' <=> Near(a, b)
  BY GeometryStays
<1> QED  BY <1>1, <1>2 DEF SumInv

LEMMA ReadStays ==
  ASSUME UNCHANGED <<N_particles, N_threads, distance>>, NEW u \in Team,
         todo'[u] = todo[u], read'[u] = read[u],
         Got(Current(u)) \subseteq BagToSet(forces'[Current(u)]), ReadInv(u)
  PROVE  ReadInv(u)'
<1>1. Current(u)' = Current(u)
  BY DEF Current
<1>2. /\ Ids(N_particles)' = Ids(N_particles)
      /\ \A a, b : Near(a, b)' <=> Near(a, b)
      /\ \A a, b : OneHand(a, b)' <=> OneHand(a, b)
  BY GeometryStays
<1>3. Got(Current(u))' = BagToSet(forces'[Current(u)])
  BY <1>1 DEF Got
<1> QED  BY <1>1, <1>2, <1>3 DEF ReadInv

LEMMA PairStays ==
  ASSUME UNCHANGED <<N_particles, N_threads, distance>>, NEW i \in Ids(N_particles),
         forces'[i] = forces[i], Done(i)' <=> Done(i),
         \A a \in Ids(N_particles) : Near(a, i) => (Passed(a, i)' <=> Passed(a, i)),
         PairInv(i)
  PROVE  PairInv(i)'
<1>1. /\ Ids(N_particles)' = Ids(N_particles)
      /\ \A a, b : Near(a, b)' <=> Near(a, b)
      /\ \A a, b : OneHand(a, b)' <=> OneHand(a, b)
      /\ PairsOn(i)' = PairsOn(i)
  BY GeometryStays
<1>2. Got(i)' = Got(i)
  BY DEF Got
<1> QED  BY <1>1, <1>2 DEF PairInv

LEMMA TakeChunkForce ==
  ASSUME Inv, NEW t \in Team, TakeChunk(t)
  PROVE  NonbondedInv'
<1>0. /\ region = "nonbonded" /\ NonbondedInv /\ TypeInv /\ ~Busy(t)
      /\ UNCHANGED <<forces, pc, js, fi, read>>
  BY DEF TakeChunk, Inv, ForceInv, PlaceInv, local
<1>1. /\ UNCHANGED <<N_particles, N_threads, distance>> /\ Team' = Team
      /\ \A u \in Team \ {t} : todo'[u] = todo[u]
  BY WorkFrame, <1>0 DEF Work
<1>2. /\ \A x : x \in todo'[t] <=> x \in Ids(N_particles) /\ next <= x /\ x < next + Chunk
      /\ next' = next + Chunk /\ next' \in Nat /\ todo[t] = {}
  BY <1>0, TakenChunk
<1>3. next \in Nat /\ Chunk \in Nat \ {0} /\ \A i \in Ids(N_particles) : i \in Nat
  BY <1>0, MdAssumption DEF TypeInv, Ids
<1>4. \A i \in Ids(N_particles) : Done(i)' <=> Done(i)
  <2> TAKE i \in Ids(N_particles)
  <2>1. Done(i)' <=> i < next' /\ \A u \in Team : i \notin todo'[u]
    BY <1>1 DEF Done
  <2>2. i < next' /\ i \notin todo'[t] <=> i < next
    BY <1>2, <1>3
  <2>3. i \notin todo[t]
    BY <1>2
  <2> QED  BY <1>1, <2>1, <2>2, <2>3 DEF Done
<1>5. \A u \in Team : Busy(u)' <=> Busy(u)
  BY <1>0 DEF Busy
<1>6. \A a, b \in Ids(N_particles) : Passed(a, b)' <=> Passed(a, b)
  <2> TAKE a, b \in Ids(N_particles)
  <2>1. \A u \in Team \ {t} : Current(u)' = Current(u)
    BY <1>1 DEF Current
  <2>2. Passed(a, b)' <=> \/ Done(a)'
                          \/ \E u \in Team : Busy(u)' /\ a = Current(u)' /\ b \notin js'[u]
    BY <1>1 DEF Passed
  <2> QED  BY <1>0, <1>4, <1>5, <2>1, <2>2 DEF Passed
<1>7. ChunkInv'
  <2>1. \E k \in Nat : next' = k * Chunk
    <3>1. PICK k \in Nat : next = k * Chunk
      BY <1>0 DEF NonbondedInv, ChunkInv
    <3>2. next' = (k + 1) * Chunk
      BY <1>2, <1>3, <3>1
    <3> QED  BY <3>2
  <2>2. ASSUME NEW u \in Team, NEW i \in todo'[u]
        PROVE  i \in Ids(N_particles) /\ i < next'
    <3>1. CASE u = t
      BY <1>2, <1>3, <2>2, <3>1
    <3>2. CASE u # t
      <4>1. i \in Ids(N_particles) /\ i < next
        BY <1>0, <1>1, <2>2, <3>2 DEF NonbondedInv, ChunkInv
      <4> QED  BY <1>2, <1>3, <4>1
    <3> QED  BY <3>1, <3>2
  <2>3. ASSUME NEW u \in Team, NEW i \in todo'[u], NEW j \in Ids(N_particles),
               i < j, j < next', OneHand(i, j)
        PROVE  j \in todo'[u]
    <3>1. CASE u = t
      BY <1>2, <1>3, <2>2, <2>3, <3>1
    <3>2. CASE u # t
      <4>1. i \in Ids(N_particles) /\ i < next /\ i \in todo[u]
        BY <1>0, <1>1, <2>3, <3>2 DEF NonbondedInv, ChunkInv
      <4>2. N_threads # 1
        BY <1>0, <3>2 DEF Team, TypeInv
      <4>3. ChunkOf(i) = ChunkOf(j)
        BY <2>3, <4>2 DEF OneHand
      <4>4. j < next
        BY <1>0, <1>3, <4>1, <4>3, TakenWhole DEF NonbondedInv
      <4>5. j \in todo[u]
        BY <1>0, <2>3, <4>1, <4>4 DEF NonbondedInv, ChunkInv
      <4> QED  BY <1>1, <3>2, <4>5
    <3> QED  BY <3>1, <3>2
  <2>4. Ids(N_particles)' = Ids(N_particles) /\ \A a, b : OneHand(a, b)' <=> OneHand(a, b)
    BY <1>1, GeometryStays
  <2> QED  BY <1>1, <2>1, <2>2, <2>3, <2>4 DEF ChunkInv
<1>8. ASSUME NEW u \in Team, Busy(u)'
      PROVE  SumInv(u)' /\ (pc'[u] = "write" => ReadInv(u)')
  <2>1. u # t /\ Busy(u)
    BY <1>0, <1>5, <1>8
  <2>2. SumInv(u) /\ (pc[u] = "write" => ReadInv(u))
    BY <1>0, <2>1 DEF NonbondedInv
  <2>3. todo'[u] = todo[u] /\ pc'[u] = pc[u] /\ js'[u] = js[u] /\ fi'[u] = fi[u]
    BY <1>0, <1>1, <2>1
  <2>4. SumInv(u)'
    BY <1>1, <2>2, <2>3, SumStays
  <2>5. read'[u] = read[u] /\ Got(Current(u)) \subseteq BagToSet(forces'[Current(u)])
    BY <1>0 DEF Got
  <2>6. ReadInv(u) => ReadInv(u)'
    BY <1>1, <2>3, <2>5, ReadStays
  <2> QED  BY <2>2, <2>3, <2>4, <2>6
<1>9. ASSUME NEW i \in Ids(N_particles)
      PROVE  PairInv(i)'
  <2>1. PairInv(i)
    BY <1>0 DEF NonbondedInv
  <2> QED  BY <1>0, <1>1, <1>4, <1>6, <2>1, PairStays
<1> QED  BY <1>1, <1>7, <1>8, <1>9, GeometryStays DEF NonbondedInv

LEMMA ChunkStays ==
  ASSUME UNCHANGED <<N_particles, N_threads, distance, next, todo>>, ChunkInv
  PROVE  ChunkInv'
<1>1. /\ Ids(N_particles)' = Ids(N_particles) /\ Team' = Team
      /\ \A a, b : OneHand(a, b)' <=> OneHand(a, b)
  BY GeometryStays
<1> QED  BY <1>1 DEF ChunkInv

(* Another thread's iteration is another one. *)
LEMMA CurrentDiffers ==
  ASSUME TypeInv, ShareInv, NEW t \in Team, NEW u \in Team \ {t}, todo[t] # {}, todo[u] # {}
  PROVE  Current(u) # Current(t) /\ Current(t) \notin todo[u]
BY CurrentIs DEF ShareInv

LEMMA BeginIterationForce ==
  ASSUME Inv, NEW t \in Team, BeginIteration(t)
  PROVE  NonbondedInv'
<1>0. /\ region = "nonbonded" /\ NonbondedInv /\ TypeInv /\ ShareInv /\ PlaceInv
      /\ pc[t] = "take" /\ todo[t] # {}
      /\ UNCHANGED <<forces, next, todo, read>>
  BY DEF BeginIteration, Inv, ForceInv, Goto
<1>1. /\ UNCHANGED <<N_particles, N_threads, distance>> /\ Team' = Team
      /\ \A u \in Team \ {t} : /\ todo'[u] = todo[u] /\ pc'[u] = pc[u] /\ js'[u] = js[u]
                               /\ fi'[u] = fi[u] /\ read'[u] = read[u]
  BY WorkFrame, <1>0 DEF Work
<1> DEFINE i == Current(t)
<1>2. i \in todo[t] /\ i \in Ids(N_particles) /\ i \in Nat
  BY <1>0, CurrentIs DEF NonbondedInv, ChunkInv
<1>3. /\ pc'[t] = "pairs" /\ fi'[t] = EmptyBag
      /\ js'[t] = {j \in Ids(N_particles) : j > i /\ Apart(i, j) = "near"}
  BY <1>0 DEF BeginIteration, Goto, TypeInv
<1> HIDE DEF i
<1>4. ASSUME NEW j \in Ids(N_particles)
      PROVE  j \in js'[t] <=> Near(i, j)
  <2>1. j \in Nat
    BY <1>0 DEF Ids, TypeInv
  <2>2. i < j => Apart(i, j) = distance[<<i, j>>]
    BY <1>2, <2>1, ApartIs
  <2> QED  BY <1>2, <1>3, <2>1, <2>2 DEF Near
<1>5. Current(t)' = i /\ \A u \in Team : Current(u)' = Current(u)
  BY <1>0 DEF Current, i
<1>6. /\ Ids(N_particles)' = Ids(N_particles)
      /\ \A a, b : Near(a, b)' <=> Near(a, b)
  BY <1>1, GeometryStays
<1>7. SumInv(t)'
  <2>1. Single(fi'[t]) /\ BagToSet(fi'[t]) = {}
    BY <1>3, SingleEmpty
  <2>2. js'[t] \subseteq Ids(N_particles)
    BY <1>3
  <2> QED  BY <1>3, <1>4, <1>5, <1>6, <2>1, <2>2 DEF SumInv
<1>8. ASSUME NEW u \in Team, Busy(u)'
      PROVE  SumInv(u)' /\ (pc'[u] = "write" => ReadInv(u)')
  <2>1. CASE u = t
    BY <1>3, <1>7, <2>1
  <2>2. CASE u # t
    <3>1. SumInv(u) /\ (pc[u] = "write" => ReadInv(u))
      BY <1>0, <1>1, <1>8, <2>2 DEF NonbondedInv, Busy
    <3>2. todo'[u] = todo[u] /\ pc'[u] = pc[u] /\ js'[u] = js[u] /\ fi'[u] = fi[u]
      BY <1>1, <2>2
    <3>3. SumInv(u)'
      BY <1>1, <3>1, <3>2, SumStays
    <3>4. read'[u] = read[u] /\ Got(Current(u)) \subseteq BagToSet(forces'[Current(u)])
      BY <1>0 DEF Got
    <3>5. ReadInv(u) => ReadInv(u)'
      BY <1>1, <3>2, <3>4, ReadStays
    <3> QED  BY <3>1, <3>2, <3>3, <3>5
  <2> QED  BY <2>1, <2>2
<1>9. \A k : Done(k)' <=> Done(k)
  BY <1>0, <1>1 DEF Done
<1>10. ASSUME NEW a \in Ids(N_particles), NEW b \in Ids(N_particles), Near(a, b)
       PROVE  Passed(a, b)' <=> Passed(a, b)
  <2>1. Passed(a, b)' <=> \/ Done(a)'
                          \/ \E u \in Team : Busy(u)' /\ a = Current(u)' /\ b \notin js'[u]
    BY <1>1 DEF Passed
  <2>2. ~(a = Current(t)' /\ b \notin js'[t])
    BY <1>4, <1>5, <1>10
  <2>3. ~Busy(t)
    BY <1>0 DEF Busy
  <2>4. \A u \in Team \ {t} : Busy(u)' <=> Busy(u)
    BY <1>1 DEF Busy
  <2> QED  BY <1>1, <1>5, <1>9, <2>1, <2>2, <2>3, <2>4 DEF Passed
<1>11. ASSUME NEW k \in Ids(N_particles)
       PROVE  PairInv(k)'
  <2>1. PairInv(k)
    BY <1>0 DEF NonbondedInv
  <2> QED  BY <1>0, <1>1, <1>9, <1>10, <2>1, PairStays
<1>12. ChunkInv'
  BY <1>0, <1>1, ChunkStays DEF NonbondedInv
<1> QED  BY <1>1, <1>6, <1>8, <1>11, <1>12 DEF NonbondedInv

LEMMA AddPairForce ==
  ASSUME Inv, NEW t \in Team, AddPair(t)
  PROVE  NonbondedInv'
<1>0. /\ TypeInv /\ ShareInv /\ PlaceInv /\ ForceInv
      /\ pc[t] = "pairs" /\ js[t] # {}
      /\ UNCHANGED <<next, todo, read>>
  BY DEF AddPair, Inv, Goto
<1>1. region = "nonbonded" /\ NonbondedInv /\ todo[t] # {} /\ Busy(t)
  BY <1>0 DEF PlaceInv, Busy, ForceInv
<1>2. /\ UNCHANGED <<N_particles, N_threads, distance>> /\ Team' = Team
      /\ \A u \in Team \ {t} : /\ todo'[u] = todo[u] /\ pc'[u] = pc[u] /\ js'[u] = js[u]
                               /\ fi'[u] = fi[u] /\ read'[u] = read[u]
  BY WorkFrame, <1>0 DEF Work
<1>a. PICK i, j : i = Current(t) /\ j = Min(js[t])
  OBVIOUS
<1>3. i \in todo[t] /\ i \in Ids(N_particles) /\ i \in Nat
  BY <1>0, <1>1, <1>a, CurrentIs DEF NonbondedInv, ChunkInv
<1>4. js[t] \subseteq Ids(N_particles) /\ Ids(N_particles) \subseteq Nat
  BY <1>0 DEF TypeInv, Ids
<1>5. j \in js[t] /\ j \in Ids(N_particles)
  BY <1>0, <1>4, <1>a, LeastIsMin
<1>6. SumInv(t)
  BY <1>1 DEF NonbondedInv
<1>7. Near(i, j)
  BY <1>5, <1>6, <1>a DEF SumInv
<1>8. /\ pc' = pc /\ fi'[t] = BagAdd(fi[t], Pair(i, j)) /\ js'[t] = js[t] \ {j}
      /\ forces'[j] = BagAdd(forces[j], Pair(i, j))
      /\ \A k \in Ids(N_particles) \ {j} : forces'[k] = forces[k]
  <2>1. /\ pc' = [pc EXCEPT ![t] = "pairs"]
        /\ fi' = [fi EXCEPT ![t] = BagAdd(@, Pair(i, j))]
        /\ forces' = [forces EXCEPT ![j] = BagAdd(@, Pair(i, j))]
        /\ js' = [js EXCEPT ![t] = @ \ {j}]
    BY <1>a DEF AddPair, Goto
  <2>2. /\ pc \in [Team -> {"take", "pairs", "write"}] /\ js \in [Team -> SUBSET Ids(N_particles)]
        /\ DOMAIN fi = Team /\ DOMAIN forces = Ids(N_particles)
    BY <1>0 DEF TypeInv
  <2>3. pc' = pc
    BY <1>0, <2>1, <2>2
  <2>4. fi'[t] = BagAdd(fi[t], Pair(i, j)) /\ js'[t] = js[t] \ {j}
    BY <2>1, <2>2
  <2>5. /\ forces'[j] = BagAdd(forces[j], Pair(i, j))
        /\ \A k \in Ids(N_particles) \ {j} : forces'[k] = forces[k]
    BY <1>5, <2>1, <2>2
  <2> QED  BY <2>3, <2>4, <2>5
<1>9. \A u \in Team : Current(u)' = Current(u) /\ (Busy(u)' <=> Busy(u))
  BY <1>0, <1>8 DEF Current, Busy
<1>10. /\ Ids(N_particles)' = Ids(N_particles)
       /\ \A a, b : Near(a, b)' <=> Near(a, b)
       /\ \A a, b : OneHand(a, b)' <=> OneHand(a, b)
       /\ \A k : PairsOn(k)' = PairsOn(k)
  BY <1>2, GeometryStays
<1>11. Current(t)' = i
  BY <1>9, <1>a
<1>12. \A u \in Team \ {t} : Busy(u) => Current(u) # i /\ i \notin todo[u]
  BY <1>0, <1>1, <1>a, CurrentDiffers DEF PlaceInv
<1>13. pc'[t] = "pairs"
  BY <1>0, <1>8
<1>14. i # j /\ i < j
  BY <1>3, <1>4, <1>5, <1>7 DEF Near
<1>15. ~Passed(i, j)
  <2>1. ~Done(i)
    BY <1>3 DEF Done
  <2>2. ASSUME NEW u \in Team, Busy(u), i = Current(u), j \notin js[u]
        PROVE  FALSE
    BY <1>5, <1>12, <2>2
  <2> QED  BY <2>1, <2>2 DEF Passed
<1>16. Pair(i, j) \notin Got(j)
  <2>1. PairInv(j)
    BY <1>1, <1>5 DEF NonbondedInv
  <2> QED  BY <1>3, <1>7, <1>15, <2>1 DEF PairInv
<1>17. SumInv(t)'
  <2>1. /\ Single(fi[t])
        /\ \A c \in BagToSet(fi[t]) :
             \E k \in Ids(N_particles) : Near(i, k) /\ k \notin js[t] /\ c = Pair(i, k)
        /\ \A k \in Ids(N_particles) : Near(i, k) /\ k \notin js[t] => Pair(i, k) \in BagToSet(fi[t])
        /\ \A k \in js[t] : Near(i, k)
    BY <1>6, <1>a DEF SumInv
  <2>2. Pair(i, j) \notin BagToSet(fi[t])
    BY <1>5, <2>1, PairsDiffer
  <2>3. Single(fi'[t]) /\ BagToSet(fi'[t]) = BagToSet(fi[t]) \cup {Pair(i, j)}
    BY <1>8, <2>1, <2>2, SingleAdd
  <2>4. /\ \A c \in BagToSet(fi'[t]) :
             \E k \in Ids(N_particles) : Near(i, k) /\ k \notin js'[t] /\ c = Pair(i, k)
        /\ \A k \in Ids(N_particles) : Near(i, k) /\ k \notin js'[t] => Pair(i, k) \in BagToSet(fi'[t])
        /\ \A k \in js'[t] : Near(i, k)
    BY <1>5, <1>7, <1>8, <2>1, <2>3
  <2> QED  BY <1>10, <1>11, <1>13, <2>3, <2>4 DEF SumInv
<1>18. Single(forces'[j]) /\ Got(j)' = Got(j) \cup {Pair(i, j)}
  <2>1. Single(forces[j])
    BY <1>1, <1>5 DEF NonbondedInv, PairInv
  <2>2. Got(j)' = BagToSet(forces'[j])
    BY DEF Got
  <2> QED  BY <1>8, <1>16, <2>1, <2>2, SingleAdd DEF Got
<1>19. ASSUME NEW u \in Team, Busy(u)'
       PROVE  SumInv(u)' /\ (pc'[u] = "write" => ReadInv(u)')
  <2>1. CASE u = t
    BY <1>13, <1>17, <2>1
  <2>2. CASE u # t
    <3>1. SumInv(u) /\ (pc[u] = "write" => ReadInv(u)) /\ Busy(u)
      BY <1>1, <1>9, <1>19 DEF NonbondedInv
    <3>2. todo'[u] = todo[u] /\ pc'[u] = pc[u] /\ js'[u] = js[u] /\ fi'[u] = fi[u]
      BY <1>2, <2>2
    <3>3. SumInv(u)'
      BY <1>2, <3>1, <3>2, SumStays
    <3>4. Current(u) \in Ids(N_particles)
      BY <1>0, <1>1, <3>1, CurrentIs DEF PlaceInv, NonbondedInv, ChunkInv
    <3>5. read'[u] = read[u] /\ Got(Current(u)) \subseteq BagToSet(forces'[Current(u)])
      <4>1. CASE Current(u) = j
        BY <1>0, <1>18, <4>1 DEF Got
      <4>2. CASE Current(u) # j
        BY <1>0, <1>8, <3>4, <4>2 DEF Got
      <4> QED  BY <4>1, <4>2
    <3>6. ReadInv(u) => ReadInv(u)'
      BY <1>2, <3>2, <3>5, ReadStays
    <3> QED  BY <3>1, <3>2, <3>3, <3>6
  <2> QED  BY <2>1, <2>2
<1>20. \A k : Done(k)' <=> Done(k)
  BY <1>0, <1>2 DEF Done
<1>21. ASSUME NEW a \in Ids(N_particles), NEW b \in Ids(N_particles)
       PROVE  Passed(a, b)' <=> Passed(a, b) \/ (a = i /\ b = j)
  <2>1. Passed(a, b)' <=> \/ Done(a)'
                          \/ \E u \in Team : Busy(u)' /\ a = Current(u)' /\ b \notin js'[u]
    BY <1>2 DEF Passed
  <2>2. Passed(a, b) <=> \/ Done(a)
                         \/ \E u \in Team : Busy(u) /\ a = Current(u) /\ b \notin js[u]
    BY DEF Passed
  <2>3. ASSUME NEW u \in Team \ {t}
        PROVE  /\ Busy(u)' /\ a = Current(u)' /\ b \notin js'[u]
                    <=> Busy(u) /\ a = Current(u) /\ b \notin js[u]
    BY <1>2, <1>9
  <2>4. Busy(t) /\ Busy(t)' /\ i = Current(t) /\ i = Current(t)'
    BY <1>1, <1>9, <1>11, <1>a
  <2>5. b \notin js'[t] <=> b \notin js[t] \/ b = j
    BY <1>8
  <2> QED  BY <1>20, <2>1, <2>2, <2>3, <2>4, <2>5
<1>22. ASSUME NEW k \in Ids(N_particles)
       PROVE  PairInv(k)'
  <2>1. PairInv(k)
    BY <1>1 DEF NonbondedInv
  <2>2. CASE k # j
    <3>1. \A a \in Ids(N_particles) : Near(a, k) => (Passed(a, k)' <=> Passed(a, k))
      BY <1>21, <2>2
    <3> QED  BY <1>2, <1>8, <1>20, <2>1, <2>2, <3>1, PairStays
  <2>3. CASE k = j
    <3>1. Pair(i, j) \in PairsOn(j)
      BY <1>3, <1>5, <1>7, PairsOnIs
    <3>2. Single(forces'[j]) /\ Got(j)' \subseteq PairsOn(j)
      BY <1>18, <2>1, <2>3, <3>1 DEF PairInv
    <3>3. \A b \in Ids(N_particles) : Near(j, b) => (Pair(j, b) \in Got(j)' <=> Done(j)')
      <4> SUFFICES ASSUME NEW b \in Ids(N_particles), Near(j, b)
                   PROVE  Pair(j, b) \in Got(j)' <=> Done(j)'
        OBVIOUS
      <4>1. Pair(j, b) # Pair(i, j)
        BY <1>14, PairsDiffer
      <4>2. Pair(j, b) \in Got(j) <=> Done(j)
        BY <2>1, <2>3 DEF PairInv
      <4> QED  BY <1>18, <1>20, <4>1, <4>2
    <3>4. ASSUME NEW a \in Ids(N_particles), Near(a, j)
          PROVE  /\ Pair(a, j) \in Got(j)' => Passed(a, j)'
                 /\ OneHand(a, j) /\ Passed(a, j)' => Pair(a, j) \in Got(j)'
      <4>1. /\ Pair(a, j) \in Got(j) => Passed(a, j)
            /\ OneHand(a, j) /\ Passed(a, j) => Pair(a, j) \in Got(j)
        BY <2>1, <2>3, <3>4 DEF PairInv
      <4>2. Pair(a, j) = Pair(i, j) => a = i
        BY PairsDiffer
      <4>3. Passed(a, j)' <=> Passed(a, j) \/ a = i
        BY <1>5, <1>21
      <4> QED  BY <1>18, <4>1, <4>2, <4>3
    <3> QED  BY <1>10, <2>3, <3>2, <3>3, <3>4 DEF PairInv
  <2> QED  BY <2>2, <2>3
<1>23. ChunkInv'
  BY <1>0, <1>1, <1>2, ChunkStays DEF NonbondedInv
<1> QED  BY <1>2, <1>10, <1>19, <1>22, <1>23 DEF NonbondedInv

LEMMA ReadForceForce ==
  ASSUME Inv, NEW t \in Team, ReadForce(t)
  PROVE  NonbondedInv'
<1>0. /\ TypeInv /\ ShareInv /\ PlaceInv /\ ForceInv
      /\ pc[t] = "pairs" /\ js[t] = {}
      /\ UNCHANGED <<forces, next, todo, js, fi>>
  BY DEF ReadForce, Inv, Goto
<1>1. region = "nonbonded" /\ NonbondedInv /\ todo[t] # {} /\ Busy(t)
  BY <1>0 DEF PlaceInv, Busy, ForceInv
<1>2. /\ UNCHANGED <<N_particles, N_threads, distance>> /\ Team' = Team
      /\ \A u \in Team \ {t} : /\ todo'[u] = todo[u] /\ pc'[u] = pc[u] /\ js'[u] = js[u]
                               /\ fi'[u] = fi[u] /\ read'[u] = read[u]
  BY WorkFrame, <1>0 DEF Work
<1>a. PICK i : i = Current(t)
  OBVIOUS
<1>3. i \in todo[t] /\ i \in Ids(N_particles)
  BY <1>0, <1>1, <1>a, CurrentIs DEF NonbondedInv, ChunkInv
<1>4. read'[t] = forces[i] /\ pc'[t] = "write"
  BY <1>0, <1>a DEF ReadForce, Goto, TypeInv
<1>5. /\ Ids(N_particles)' = Ids(N_particles)
      /\ \A a, b : Near(a, b)' <=> Near(a, b)
      /\ \A a, b : OneHand(a, b)' <=> OneHand(a, b)
  BY <1>2, GeometryStays
<1>6. \A u \in Team : Current(u)' = Current(u) /\ (Busy(u)' <=> Busy(u))
  <2> TAKE u \in Team
  <2>1. Current(u)' = Current(u)
    BY <1>0 DEF Current
  <2>2. Busy(u)' <=> Busy(u)
    BY <1>0, <1>2, <1>4 DEF Busy
  <2> QED  BY <2>1, <2>2
<1>7. PairInv(i)
  BY <1>1, <1>3 DEF NonbondedInv
<1>8. ReadInv(t)'
  <2>1. Single(read'[t]) /\ BagToSet(read'[t]) = Got(i)
    BY <1>4, <1>7 DEF PairInv, Got
  <2>2. ASSUME NEW a \in Ids(N_particles), Near(a, i), OneHand(a, i)
        PROVE  Pair(a, i) \in Got(i)
    <3>1. Done(a)
      BY <1>0, <1>1, <1>a, <2>2, BehindIsDone DEF NonbondedInv, Near
    <3> QED  BY <1>7, <2>2, <3>1 DEF PairInv, Passed
  <2>3. Current(t)' = i
    BY <1>6, <1>a
  <2>4. Got(i)' = Got(i)
    BY <1>0 DEF Got
  <2> QED  BY <1>5, <2>1, <2>2, <2>3, <2>4 DEF ReadInv
<1>9. ASSUME NEW u \in Team, Busy(u)'
      PROVE  SumInv(u)' /\ (pc'[u] = "write" => ReadInv(u)')
  <2>1. SumInv(u) /\ (pc[u] = "write" => ReadInv(u)) /\ Busy(u)
    BY <1>1, <1>6, <1>9 DEF NonbondedInv
  <2>2. CASE u = t
    <3>1. SumInv(t)'
      BY <1>0, <1>5, <1>6, <2>1, <2>2 DEF SumInv
    <3> QED  BY <1>8, <2>2, <3>1
  <2>3. CASE u # t
    <3>2. todo'[u] = todo[u] /\ pc'[u] = pc[u] /\ js'[u] = js[u] /\ fi'[u] = fi[u]
      BY <1>2, <2>3
    <3>3. SumInv(u)'
      BY <1>2, <2>1, <3>2, SumStays
    <3>4. read'[u] = read[u] /\ Got(Current(u)) \subseteq BagToSet(forces'[Current(u)])
      BY <1>0, <1>2, <2>3 DEF Got
    <3>5. ReadInv(u) => ReadInv(u)'
      BY <1>2, <3>2, <3>4, ReadStays
    <3> QED  BY <2>1, <3>2, <3>3, <3>5
  <2> QED  BY <2>2, <2>3
<1>10. \A k : Done(k)' <=> Done(k)
  BY <1>0, <1>2 DEF Done
<1>11. \A a, b : Passed(a, b)' <=> Passed(a, b)
  BY <1>0, <1>2, <1>6, <1>10 DEF Passed
<1>12. ASSUME NEW k \in Ids(N_particles)
       PROVE  PairInv(k)'
  <2>1. PairInv(k)
    BY <1>1 DEF NonbondedInv
  <2> QED  BY <1>0, <1>2, <1>10, <1>11, <2>1, PairStays
<1>13. ChunkInv'
  BY <1>0, <1>1, <1>2, ChunkStays DEF NonbondedInv
<1> QED  BY <1>2, <1>5, <1>9, <1>12, <1>13 DEF NonbondedInv

LEMMA WriteForceForce ==
  ASSUME Inv, NEW t \in Team, WriteForce(t)
  PROVE  NonbondedInv'
<1>0. /\ TypeInv /\ ShareInv /\ PlaceInv /\ ForceInv
      /\ pc[t] = "write" /\ UNCHANGED <<next, js, fi, read>>
  BY DEF WriteForce, Inv, Goto
<1>1. region = "nonbonded" /\ NonbondedInv /\ todo[t] # {} /\ Busy(t)
  BY <1>0 DEF PlaceInv, Busy, ForceInv
<1>2. /\ UNCHANGED <<N_particles, N_threads, distance>> /\ Team' = Team
      /\ \A u \in Team \ {t} : /\ todo'[u] = todo[u] /\ pc'[u] = pc[u] /\ js'[u] = js[u]
                               /\ fi'[u] = fi[u] /\ read'[u] = read[u]
  BY WorkFrame, <1>0 DEF Work
<1>a. PICK i : i = Current(t)
  OBVIOUS
<1>3. /\ i \in todo[t] /\ i \in Ids(N_particles) /\ i \in Nat /\ i < next
      /\ \A k \in todo[t] : k \in Nat /\ i <= k
  BY <1>0, <1>1, <1>a, CurrentIs DEF NonbondedInv, ChunkInv
<1>4. /\ pc'[t] = "take" /\ todo'[t] = todo[t] \ {i}
      /\ forces'[i] = read[t] (+) fi[t]
      /\ \A k \in Ids(N_particles) \ {i} : forces'[k] = forces[k]
  <2>1. pc'[t] = "take"
    BY <1>0 DEF WriteForce, Goto, TypeInv
  <2>2. todo'[t] = todo[t] \ {i}
    BY <1>0, <1>a DEF WriteForce, TypeInv
  <2>3. forces' = [forces EXCEPT ![i] = read[t] (+) fi[t]] /\ DOMAIN forces = Ids(N_particles)
    BY <1>0, <1>a DEF WriteForce, Written, TypeInv
  <2>4. /\ forces'[i] = read[t] (+) fi[t]
        /\ \A k \in Ids(N_particles) \ {i} : forces'[k] = forces[k]
    BY <1>3, <2>3
  <2> QED  BY <2>1, <2>2, <2>4
<1>5. /\ Ids(N_particles)' = Ids(N_particles) /\ Ids(N_particles) \subseteq Nat
      /\ \A a, b : Near(a, b)' <=> Near(a, b)
      /\ \A a, b : OneHand(a, b)' <=> OneHand(a, b)
      /\ \A k : PairsOn(k)' = PairsOn(k)
  BY <1>0, <1>2, GeometryStays DEF Ids, TypeInv
<1>6. \A u \in Team \ {t} : /\ Current(u)' = Current(u) /\ (Busy(u)' <=> Busy(u))
                            /\ i \notin todo[u]
                            /\ Busy(u) => Current(u) # i
  <2> TAKE u \in Team \ {t}
  <2>1. Current(u)' = Current(u) /\ (Busy(u)' <=> Busy(u))
    BY <1>2 DEF Current, Busy
  <2>2. i \notin todo[u]
    BY <1>0, <1>3 DEF ShareInv
  <2>3. Busy(u) => Current(u) \in todo[u]
    BY <1>0, CurrentIs DEF PlaceInv
  <2> QED  BY <2>1, <2>2, <2>3
<1>7. ~Busy(t)'
  BY <1>4 DEF Busy
<1>8. PairInv(i) /\ SumInv(t) /\ ReadInv(t) /\ js[t] = {}
  BY <1>0, <1>1, <1>3 DEF NonbondedInv, SumInv
<1>9. \A k : Done(k)' <=> Done(k) \/ k = i
  <2> TAKE k
  <2>1. Done(k)' <=> k < next /\ \A u \in Team : k \notin todo'[u]
    BY <1>0, <1>2 DEF Done
  <2>2. k = i => Done(k)'
    BY <1>2, <1>3, <1>4, <1>6, <2>1
  <2>3. k # i => (Done(k)' <=> Done(k))
    BY <1>2, <1>4, <2>1 DEF Done
  <2> QED  BY <2>2, <2>3
<1>10. ~Done(i)
  BY <1>3 DEF Done
<1>11. \A a, b : Passed(a, b)' <=> Passed(a, b)
  <2> TAKE a, b
  <2>1. Passed(a, b)' <=> \/ Done(a)'
                          \/ \E u \in Team : Busy(u)' /\ a = Current(u)' /\ b \notin js[u]
    BY <1>0, <1>2 DEF Passed
  <2>2. Passed(a, b) <=> \/ Done(a)
                         \/ \E u \in Team : Busy(u) /\ a = Current(u) /\ b \notin js[u]
    BY DEF Passed
  <2>3. a = i => Passed(a, b) /\ Passed(a, b)'
    BY <1>1, <1>8, <1>9, <1>a, <2>1, <2>2
  <2>4. a # i => (Passed(a, b)' <=> Passed(a, b))
    BY <1>6, <1>7, <1>9, <1>a, <2>1, <2>2
  <2> QED  BY <2>3, <2>4
<1>12. /\ Single(read[t]) /\ BagToSet(read[t]) \subseteq Got(i)
       /\ \A a \in Ids(N_particles) : Near(a, i) /\ OneHand(a, i) => Pair(a, i) \in BagToSet(read[t])
  BY <1>8, <1>a DEF ReadInv
<1>13. /\ Single(fi[t])
       /\ \A c \in BagToSet(fi[t]) : \E b \in Ids(N_particles) : Near(i, b) /\ c = Pair(i, b)
       /\ \A b \in Ids(N_particles) : Near(i, b) => Pair(i, b) \in BagToSet(fi[t])
  BY <1>8, <1>a DEF SumInv
<1>14. BagToSet(read[t]) \cap BagToSet(fi[t]) = {}
  <2> SUFFICES ASSUME NEW b \in Ids(N_particles), Near(i, b), Pair(i, b) \in BagToSet(read[t])
               PROVE  FALSE
    BY <1>13
  <2> QED  BY <1>8, <1>10, <1>12 DEF PairInv
<1>15. /\ Single(forces'[i])
       /\ Got(i)' = BagToSet(read[t]) \cup BagToSet(fi[t])
  <2>1. Got(i)' = BagToSet(forces'[i])
    BY DEF Got
  <2> QED  BY <1>4, <1>12, <1>13, <1>14, <2>1, SingleJoin
<1>16. PairInv(i)'
  <2>1. Got(i)' \subseteq PairsOn(i)
    <3>1. \A b \in Ids(N_particles) : Near(i, b) => Pair(i, b) \in PairsOn(i)
      BY <1>3, PairsOnIs
    <3>2. Got(i) \subseteq PairsOn(i)
      BY <1>8 DEF PairInv
    <3> QED  BY <1>12, <1>13, <1>15, <3>1, <3>2
  <2>2. \A b \in Ids(N_particles) : Near(i, b) => Pair(i, b) \in Got(i)'
    BY <1>13, <1>15
  <2>3. ASSUME NEW a \in Ids(N_particles), Near(a, i)
        PROVE  /\ Pair(a, i) \in Got(i)' => Passed(a, i)'
               /\ OneHand(a, i) /\ Passed(a, i)' => Pair(a, i) \in Got(i)'
    <3>1. Pair(a, i) \notin BagToSet(fi[t])
      <4> SUFFICES ASSUME NEW b \in Ids(N_particles), Near(i, b), Pair(a, i) = Pair(i, b)
                   PROVE  FALSE
        BY <1>13
      <4>1. a = i /\ i = b
        BY PairsDiffer
      <4> QED  BY <1>3, <2>3, <4>1 DEF Near
    <3>2. Pair(a, i) \in Got(i) => Passed(a, i)
      BY <1>8, <2>3 DEF PairInv
    <3> QED  BY <1>11, <1>12, <1>15, <2>3, <3>1, <3>2
  <2> QED  BY <1>5, <1>9, <1>15, <2>1, <2>2, <2>3 DEF PairInv
<1>17. ASSUME NEW k \in Ids(N_particles)
       PROVE  PairInv(k)'
  <2>1. CASE k = i
    BY <1>16, <2>1
  <2>2. CASE k # i
    <3>1. PairInv(k)
      BY <1>1 DEF NonbondedInv
    <3>2. forces'[k] = forces[k] /\ (Done(k)' <=> Done(k))
      BY <1>4, <1>9, <2>2
    <3> QED  BY <1>2, <1>11, <3>1, <3>2, PairStays
  <2> QED  BY <2>1, <2>2
<1>18. ASSUME NEW u \in Team, Busy(u)'
       PROVE  SumInv(u)' /\ (pc'[u] = "write" => ReadInv(u)')
  <2>1. u # t
    BY <1>7, <1>18
  <2>2. SumInv(u) /\ (pc[u] = "write" => ReadInv(u)) /\ Busy(u)
    BY <1>1, <1>6, <1>18, <2>1 DEF NonbondedInv
  <2>3. todo'[u] = todo[u] /\ pc'[u] = pc[u] /\ js'[u] = js[u] /\ fi'[u] = fi[u]
    BY <1>2, <2>1
  <2>4. SumInv(u)'
    BY <1>2, <2>2, <2>3, SumStays
  <2>5. Current(u) \in Ids(N_particles) /\ Current(u) # i
    BY <1>0, <1>1, <1>6, <2>1, <2>2, CurrentIs DEF PlaceInv, NonbondedInv, ChunkInv
  <2>6. read'[u] = read[u] /\ Got(Current(u)) \subseteq BagToSet(forces'[Current(u)])
    BY <1>0, <1>4, <2>5 DEF Got
  <2>7. ReadInv(u) => ReadInv(u)'
    BY <1>2, <2>3, <2>6, ReadStays
  <2> QED  BY <2>2, <2>3, <2>4, <2>7
<1>19. ChunkInv'
  <2>1. ChunkInv
    BY <1>1 DEF NonbondedInv
  <2>2. \E k \in Nat : next' = k * Chunk
    BY <1>0, <2>1 DEF ChunkInv
  <2>3. \A u \in Team : todo'[u] \subseteq todo[u]
    BY <1>2, <1>4
  <2>4. \A u \in Team : \A k \in todo'[u] : k \in Ids(N_particles) /\ k < next
    BY <2>1, <2>3 DEF ChunkInv
  <2>5. ASSUME NEW u \in Team, NEW k \in todo'[u], NEW j \in Ids(N_particles),
               k < j, j < next, OneHand(k, j)
        PROVE  j \in todo'[u]
    <3>1. j \in todo[u] /\ k \in todo[u] /\ k \in Nat /\ j \in Nat
      BY <1>5, <2>1, <2>3, <2>4, <2>5 DEF ChunkInv
    <3>2. CASE u = t
      <4>1. i <= k
        BY <1>3, <3>1, <3>2
      <4>2. j # i
        BY <1>3, <2>5, <3>1, <4>1
      <4> QED  BY <1>4, <3>1, <3>2, <4>2
    <3>3. CASE u # t
      BY <1>2, <3>1, <3>3
    <3> QED  BY <3>2, <3>3
  <2> QED  BY <1>0, <1>2, <1>5, <2>2, <2>4, <2>5 DEF ChunkInv
<1> QED  BY <1>2, <1>5, <1>17, <1>18, <1>19 DEF NonbondedInv

-----------------------------------------------------------------------------
(* From loop to loop *)

LEMMA NonbondedBegins ==
  ASSUME TypeInv, \A t \in Team : todo[t] = {} /\ ~Busy(t),
         compute_nonbonded_forces, UNCHANGED <<size, local>>
  PROVE  NonbondedInv'
<1>1. /\ N_particles' = N_particles /\ N_threads' = N_threads /\ Team' = Team
      /\ Ids(N_particles)' = Ids(N_particles) /\ Ids(N_particles) \subseteq Nat
      /\ next' = 0 /\ todo' = todo
      /\ forces' = [i \in Ids(N_particles) |-> EmptyBag]
  BY DEF compute_nonbonded_forces, size, Team, Ids, TypeInv
<1>2. \A t \in Team : ~Busy(t)' /\ todo'[t] = {}
  BY <1>1 DEF Busy, local
<1>3. ChunkInv'
  <2>1. 0 \in Nat /\ 0 = 0 * Chunk
    BY MdAssumption
  <2> QED  BY <1>1, <1>2, <2>1 DEF ChunkInv
<1>4. ASSUME NEW i \in Ids(N_particles)
      PROVE  PairInv(i)'
  <2>1. \A k \in Ids(N_particles) : ~Done(k)'
    BY <1>1 DEF Done
  <2>2. \A a \in Ids(N_particles) : ~Passed(a, i)'
    BY <1>1, <1>2, <2>1 DEF Passed
  <2>3. Single(forces'[i]) /\ BagToSet(forces'[i]) = {}
    BY <1>1, SingleEmpty
  <2>4. Got(i)' = {}
    BY <2>3 DEF Got
  <2> QED  BY <1>1, <2>1, <2>2, <2>3, <2>4 DEF PairInv
<1> QED  BY <1>1, <1>2, <1>3, <1>4 DEF NonbondedInv

LEMMA BondsBegin ==
  ASSUME Inv, region = "nonbonded", Arrived, StaticLoop("bonds", 2 * N_particles),
         UNCHANGED <<size, local>>
  PROVE  BondsInv'
<1>0. TypeInv /\ PlaceInv /\ NonbondedInv
  BY DEF Inv, ForceInv
<1>1. /\ \A t \in Team : todo[t] = {} /\ ~Busy(t)
      /\ next >= N_particles /\ next \in Nat /\ N_particles \in Nat
  <2>1. \A t \in Team : todo[t] = {} /\ ~Busy(t)
    BY <1>0, ArrivedIdle
  <2>2. 1 \in Team /\ next \in Nat /\ N_particles \in Nat
    BY <1>0 DEF Team, TypeInv
  <2>3. next >= N_particles
    BY <2>2 DEF Arrived, Finished
  <2> QED  BY <2>1, <2>2, <2>3
<1>2. UNCHANGED <<N_particles, N_threads, distance, forces>>
  BY DEF size, StaticLoop
<1>3. /\ Team' = Team /\ Ids(N_particles)' = Ids(N_particles) /\ Bonds' = Bonds
      /\ \A a, b : Near(a, b)' <=> Near(a, b)
      /\ \A a, b : OneHand(a, b)' <=> OneHand(a, b)
      /\ \A i : PairsOn(i)' = PairsOn(i)
      /\ \A i : BondsOn(i)' = BondsOn(i)
  BY <1>2, GeometryStays
<1>4. /\ \A t \in Team : todo'[t] \subseteq Bonds
      /\ \A b \in Bonds : \E t \in Team : b \in todo'[t]
  BY <1>0, <1>1, LoopBegins DEF Bonds
<1>5. \A b \in Bonds : Due(b)'
  BY <1>3, <1>4 DEF Due
<1>6. \A a \in Ids(N_particles) : Done(a)
  BY <1>1 DEF Done, Ids
<1>7. ASSUME NEW i \in Ids(N_particles)
      PROVE  BondInv(i)'
  <2>1. PairInv(i)
    BY <1>0 DEF NonbondedInv
  <2>2. Single(forces'[i]) /\ Got(i)' = Got(i) /\ Got(i) \subseteq PairsOn(i)
    BY <1>2, <2>1 DEF PairInv, Got
  <2>3. /\ \A b \in Ids(N_particles) : Near(i, b) => Pair(i, b) \in Got(i)
        /\ \A a \in Ids(N_particles) : Near(a, i) /\ OneHand(a, i) => Pair(a, i) \in Got(i)
    BY <1>6, <2>1 DEF PairInv, Passed
  <2>4. PairsThere(i)'
    BY <1>3, <2>2, <2>3 DEF PairsThere
  <2>5. \A b : BondOn(b, i) \notin PairsOn(i)
    BY PairsOnIs DEF BondOn, Pair
  <2>6. \A b \in Bonds : ~(BondOn(b, i) \in Got(i)')
    BY <2>2, <2>5
  <2> QED  BY <1>3, <1>5, <2>2, <2>4, <2>6 DEF BondInv
<1> QED  BY <1>3, <1>4, <1>7 DEF BondsInv

(* The loop of bonds has two more ends, that add to two forces. *)
LEMMA BondEnds ==
  ASSUME TypeInv, N_particles >= 2, NEW b \in Bonds
  PROVE  Ends(b)[1] \in Ids(N_particles) /\ Ends(b)[2] \in Ids(N_particles) /\ Ends(b)[1] # Ends(b)[2]
<1> DEFINE n == N_particles
           x == b % n
           y == (x + 1) % n
<1>1. n \in Nat \ {0, 1} /\ b \in Nat
  BY DEF TypeInv, Bonds
<1> HIDE DEF n
<1>2. x \in 0..n-1
  BY <1>1
<1> HIDE DEF x
<1>3. CASE x + 1 < n
  <2>1. y = x + 1
    BY <1>1, <1>2, <1>3
  <2> QED  BY <1>1, <1>2, <1>3, <2>1 DEF Ends, Ids, n, x
<1>4. CASE x + 1 = n
  <2>1. n % n = 0
    BY <1>1
  <2>2. y = 0
    BY <1>4, <2>1
  <2> QED  BY <1>1, <1>2, <1>4, <2>2 DEF Ends, Ids, n, x
<1> QED  BY <1>1, <1>2, <1>3, <1>4

LEMMA BondsDiffer ==
  ASSUME NEW b, NEW c, NEW i, BondOn(b, i) = BondOn(c, i)
  PROVE  b = c
BY DEF BondOn

LEMMA AddBondForce ==
  ASSUME Inv, NEW t \in Team, AddBond(t)
  PROVE  BondsInv'
<1>0. /\ TypeInv /\ ShareInv /\ region = "bonds" /\ BondsInv /\ todo[t] # {}
  BY DEF AddBond, Inv, ForceInv
<1>1. /\ UNCHANGED <<N_particles, N_threads, distance>> /\ Team' = Team
      /\ \A u \in Team \ {t} : todo'[u] = todo[u]
  BY WorkFrame, <1>0 DEF Work
<1>2. PICK b, i, j : b = Current(t) /\ i = Ends(b)[1] /\ j = Ends(b)[2]
  OBVIOUS
<1>3. b \in todo[t] /\ b \in Bonds
  BY <1>0, <1>2, CurrentIs DEF BondsInv
<1>4. i \in Ids(N_particles) /\ j \in Ids(N_particles) /\ i # j
  <2>1. N_particles >= 2
    BY <1>0, MdAssumption DEF TypeInv
  <2> QED  BY <1>0, <1>2, <1>3, <2>1, BondEnds
<1>5. todo'[t] = todo[t] \ {b}
  BY <1>0, <1>2 DEF AddBond, TypeInv
<1>6. /\ Ids(N_particles)' = Ids(N_particles) /\ Bonds' = Bonds
      /\ \A a, c : Near(a, c)' <=> Near(a, c)
      /\ \A a, c : OneHand(a, c)' <=> OneHand(a, c)
      /\ \A k : PairsOn(k)' = PairsOn(k)
      /\ \A k : BondsOn(k)' = BondsOn(k)
  BY <1>1, GeometryStays
<1>7. \A c : Due(c)' <=> Due(c) /\ c # b
  <2> TAKE c
  <2>1. Due(c)' <=> \E u \in Team : c \in todo'[u]
    BY <1>1 DEF Due
  <2>2. \A u \in Team : c \in todo'[u] <=> c \in todo[u] /\ c # b
    BY <1>0, <1>1, <1>3, <1>5 DEF ShareInv
  <2> QED  BY <2>1, <2>2 DEF Due
<1>8. Due(b)
  BY <1>3 DEF Due
<1>9. ASSUME NEW k \in Ids(N_particles), forces'[k] = forces[k], BondOn(b, k) \notin BondsOn(k)
      PROVE  BondInv(k)'
  <2>1. BondInv(k)
    BY <1>0 DEF BondsInv
  <2>2. Got(k)' = Got(k)
    BY <1>9 DEF Got
  <2>3. PairsThere(k)'
    BY <1>6, <2>1, <2>2 DEF BondInv, PairsThere
  <2>4. \A c \in Bonds : BondOn(c, k) \in BondsOn(k) => (BondOn(c, k) \in Got(k)' <=> ~Due(c)')
    BY <1>7, <1>9, <2>1, <2>2 DEF BondInv
  <2> QED  BY <1>6, <1>9, <2>1, <2>2, <2>3, <2>4 DEF BondInv
<1>10. ASSUME NEW k \in Ids(N_particles), forces'[k] = BagAdd(forces[k], BondOn(b, k)),
              BondOn(b, k) \in BondsOn(k)
       PROVE  BondInv(k)'
  <2>1. BondInv(k)
    BY <1>0 DEF BondsInv
  <2>2. BondOn(b, k) \notin Got(k) /\ Single(forces[k])
    BY <1>3, <1>8, <1>10, <2>1 DEF BondInv
  <2>3. Single(forces'[k]) /\ Got(k)' = Got(k) \cup {BondOn(b, k)}
    <3>1. Got(k)' = BagToSet(forces'[k])
      BY DEF Got
    <3> QED  BY <1>10, <2>2, <3>1, SingleAdd DEF Got
  <2>4. PairsThere(k)'
    BY <1>6, <2>1, <2>3 DEF BondInv, PairsThere
  <2>5. ASSUME NEW c \in Bonds, BondOn(c, k) \in BondsOn(k)
        PROVE  BondOn(c, k) \in Got(k)' <=> ~Due(c)'
    <3>1. BondOn(c, k) = BondOn(b, k) => c = b
      BY BondsDiffer
    <3>2. BondOn(c, k) \in Got(k) <=> ~Due(c)
      BY <2>1, <2>5 DEF BondInv
    <3> QED  BY <1>7, <1>8, <2>3, <3>1, <3>2
  <2> QED  BY <1>6, <1>10, <2>1, <2>3, <2>4, <2>5 DEF BondInv
<1>11. \A k \in Ids(N_particles) : BondOn(b, k) \in BondsOn(k) <=> (k = i \/ k = j) /\ Apart(i, j) # "same"
  <2> TAKE k \in Ids(N_particles)
  <2>1. BondOn(b, k) \in BondsOn(k) <=> \E c \in Bonds : /\ k \in {Ends(c)[1], Ends(c)[2]}
                                                         /\ Apart(Ends(c)[1], Ends(c)[2]) # "same"
                                                         /\ BondOn(b, k) = BondOn(c, k)
    BY DEF BondsOn
  <2>2. \A c : BondOn(b, k) = BondOn(c, k) <=> c = b
    BY BondsDiffer
  <2> QED  BY <1>2, <1>3, <2>1, <2>2
<1>12. ASSUME NEW k \in Ids(N_particles)
       PROVE  BondInv(k)'
  <2>1. DOMAIN forces = Ids(N_particles)
    BY <1>0 DEF TypeInv
  <2>2. forces' = IF Apart(i, j) = "same" THEN forces
                  ELSE [forces EXCEPT ![i] = BagAdd(@, BondOn(b, i)),
                                      ![j] = BagAdd(@, BondOn(b, j))]
    BY <1>2 DEF AddBond
  <2>3. CASE (k = i \/ k = j) /\ Apart(i, j) # "same"
    <3>1. forces'[k] = BagAdd(forces[k], BondOn(b, k))
      BY <1>4, <2>1, <2>2, <2>3
    <3> QED  BY <1>10, <1>11, <2>3, <3>1
  <2>4. CASE ~((k = i \/ k = j) /\ Apart(i, j) # "same")
    <3>1. forces'[k] = forces[k]
      BY <1>4, <2>1, <2>2, <2>4
    <3> QED  BY <1>9, <1>11, <2>4, <3>1
  <2> QED  BY <2>3, <2>4
<1>13. \A u \in Team : todo'[u] \subseteq Bonds
  BY <1>0, <1>1, <1>5 DEF BondsInv
<1> QED  BY <1>1, <1>6, <1>12, <1>13 DEF BondsInv

(* When no bond is left, the forces are whole. *)
LEMMA BondsEnd ==
  ASSUME BondsInv, \A t \in Team : todo[t] = {}, NEW i \in Ids(N_particles)
  PROVE  WholeForce(i)
<1>1. BondInv(i)
  BY DEF BondsInv
<1>2. \A b : ~Due(b)
  BY DEF Due
<1>3. BondsOn(i) \subseteq Got(i)
  <2> SUFFICES ASSUME NEW c \in BondsOn(i)  PROVE c \in Got(i)
    OBVIOUS
  <2>1. PICK b \in Bonds : c = BondOn(b, i)
    BY DEF BondsOn
  <2> QED  BY <1>1, <1>2, <2>1 DEF BondInv
<1> QED  BY <1>1, <1>3 DEF BondInv, WholeForce

LEMMA WholeStays ==
  ASSUME UNCHANGED <<N_particles, N_threads, distance, forces>>, NEW i, WholeForce(i)
  PROVE  WholeForce(i)'
<1>1. /\ Ids(N_particles)' = Ids(N_particles)
      /\ \A a, b : Near(a, b)' <=> Near(a, b)
      /\ \A a, b : OneHand(a, b)' <=> OneHand(a, b)
      /\ PairsOn(i)' = PairsOn(i) /\ BondsOn(i)' = BondsOn(i)
  BY GeometryStays
<1>2. Got(i)' = Got(i)
  BY DEF Got
<1> QED  BY <1>1, <1>2 DEF WholeForce, PairsThere

-----------------------------------------------------------------------------
(* The invariant, and what it says of a kick *)

LEMMA JoinForce ==
  ASSUME Inv, Join
  PROVE  ForceInv'
<1>0. /\ TypeInv /\ PlaceInv /\ ShareInv /\ ForceInv /\ Arrived
      /\ UNCHANGED <<size, kicks, local>> /\ N_particles' = N_particles
  BY DEF Inv, Join, size
<1>1. \A t \in Team : todo[t] = {} /\ ~Busy(t)
  BY <1>0, ArrivedIdle
<1>2. CASE region = "nonbonded" /\ StaticLoop("bonds", 2 * N_particles)
  <2>1. BondsInv'
    BY <1>0, <1>2, BondsBegin
  <2> QED  BY <1>2, <2>1 DEF ForceInv, StaticLoop
<1>3. CASE region = "integrate" /\ compute_nonbonded_forces
  <2>1. NonbondedInv'
    BY <1>0, <1>1, <1>3, NonbondedBegins
  <2> QED  BY <1>3, <2>1 DEF ForceInv, compute_nonbonded_forces
<1>4. ASSUME NEW r \in {"integrate", "kick", "energy", "end"}, NEW n, StaticLoop(r, n),
             region \in {"bonds", "kick"}
      PROVE  ForceInv'
  <2>1. ASSUME NEW i \in Ids(N_particles)
        PROVE  WholeForce(i)'
    <3>1. WholeForce(i)
      BY <1>0, <1>1, <1>4, BondsEnd DEF ForceInv
    <3>2. UNCHANGED <<N_particles, N_threads, distance, forces>>
      BY <1>0, <1>4 DEF size, StaticLoop
    <3> QED  BY <3>1, <3>2, WholeStays
  <2>2. region' = r /\ Ids(N_particles)' = Ids(N_particles)
    BY <1>0, <1>4 DEF StaticLoop, Ids
  <2> QED  BY <1>4, <2>1, <2>2 DEF ForceInv
<1>5. CASE region \in {"bonds", "kick"} /\ NextStep
  BY <1>4, <1>5 DEF NextStep
<1>6. CASE region = "bonds" /\ StaticLoop("kick", N_particles)
  BY <1>4, <1>6
<1>7. CASE region = "energy" /\ StaticLoop("end", 0)
  BY <1>7 DEF ForceInv, StaticLoop
<1> QED  BY <1>2, <1>3, <1>5, <1>6, <1>7 DEF Join

LEMMA MainForce ==
  ASSUME Inv, main
  PROVE  ForceInv'
<1>0. TypeInv /\ PlaceInv /\ UNCHANGED <<size, local>> /\ region = "start"
  BY DEF Inv, main
<1>1. CASE StaticLoop("end", 0)
  BY <1>1 DEF ForceInv, StaticLoop
<1>2. CASE compute_nonbonded_forces
  <2>1. \A t \in Team : todo[t] = {} /\ ~Busy(t)
    BY <1>0 DEF PlaceInv, Inv, ForceInv
  <2> QED  BY <1>0, <1>2, <2>1, NonbondedBegins DEF ForceInv, compute_nonbonded_forces
<1> QED  BY <1>1, <1>2 DEF main

LEMMA WorkForce ==
  ASSUME Inv, NEW t \in Team, Work(t)
  PROVE  ForceInv'
<1>0. /\ TypeInv /\ PlaceInv /\ ForceInv
      /\ UNCHANGED <<N_particles, N_threads, distance, region>>
  BY WorkFrame DEF Inv
<1>1. CASE TakeChunk(t) \/ BeginIteration(t) \/ AddPair(t) \/ ReadForce(t) \/ WriteForce(t)
  <2>1. region = "nonbonded"
    BY <1>0, <1>1 DEF TakeChunk, BeginIteration, AddPair, ReadForce, WriteForce, Goto,
                      PlaceInv, Busy
  <2>2. NonbondedInv'
    BY <1>1, TakeChunkForce, BeginIterationForce, AddPairForce, ReadForceForce, WriteForceForce
  <2> QED  BY <1>0, <2>1, <2>2 DEF ForceInv
<1>2. CASE AddBond(t)
  <2>1. BondsInv' /\ region = "bonds"
    BY <1>2, AddBondForce DEF AddBond
  <2> QED  BY <1>0, <2>1 DEF ForceInv
<1>3. CASE Kick(t) \/ AddEnergy(t)
  <2>1. region \in {"integrate", "kick", "energy"} /\ forces' = forces
    BY <1>3 DEF Kick, AddEnergy
  <2>2. \A i : WholeForce(i) => WholeForce(i)'
    BY <1>0, <2>1, WholeStays
  <2>3. Ids(N_particles)' = Ids(N_particles)
    BY <1>0 DEF Ids
  <2> QED  BY <1>0, <2>1, <2>2, <2>3 DEF ForceInv
<1> QED  BY <1>1, <1>2, <1>3 DEF Work

LEMMA StutterInv ==
  ASSUME Inv, UNCHANGED vars
  PROVE  Inv'
<1>0. /\ UNCHANGED <<N_particles, N_threads, region, step, distance, forces, next, todo>>
      /\ UNCHANGED <<pc, js, fi, read>>
  BY DEF vars, size, loop, local
<1>1. /\ Ids(N_particles)' = Ids(N_particles) /\ Team' = Team /\ Bonds' = Bonds
      /\ \A i : BondsOn(i)' = BondsOn(i) /\ PairsOn(i)' = PairsOn(i)
      /\ \A a, b : Near(a, b)' <=> Near(a, b)
      /\ \A a, b : OneHand(a, b)' <=> OneHand(a, b)
  BY <1>0, GeometryStays
<1>2. TypeInv' /\ PlaceInv' /\ ShareInv'
  BY <1>0, <1>1 DEF Inv, TypeInv, PlaceInv, ShareInv, Busy
<1>3. ASSUME NonbondedInv  PROVE NonbondedInv'
  <2>1. ChunkInv'
    BY <1>0, <1>3, ChunkStays DEF NonbondedInv
  <2>2. \A u \in Team : (SumInv(u) => SumInv(u)') /\ (ReadInv(u) => ReadInv(u)')
    BY <1>0, SumStays, ReadStays DEF Got
  <2>3. \A k : Done(k)' <=> Done(k)
    BY <1>0, <1>1 DEF Done
  <2>4. \A a, b : Passed(a, b)' <=> Passed(a, b)
    BY <1>0, <1>1, <2>3 DEF Passed, Busy, Current
  <2>5. \A i \in Ids(N_particles) : PairInv(i) => PairInv(i)'
    BY <1>0, <2>3, <2>4, PairStays
  <2> QED  BY <1>0, <1>1, <1>3, <2>1, <2>2, <2>5 DEF NonbondedInv, Busy
<1>4. ASSUME BondsInv  PROVE BondsInv'
  <2>1. \A i : Got(i)' = Got(i)
    BY <1>0 DEF Got
  <2>2. \A b : Due(b)' <=> Due(b)
    BY <1>0, <1>1 DEF Due
  <2> QED  BY <1>0, <1>1, <1>4, <2>1, <2>2 DEF BondsInv, BondInv, PairsThere
<1>5. \A i : WholeForce(i) => WholeForce(i)'
  BY <1>0, WholeStays
<1>6. ForceInv'
  BY <1>0, <1>1, <1>3, <1>4, <1>5 DEF Inv, ForceInv
<1> QED  BY <1>2, <1>6 DEF Inv

LEMMA NextInv == Inv /\ [Next]_vars => Inv'
<1> SUFFICES ASSUME Inv, [Next]_vars  PROVE Inv'
  OBVIOUS
<1>1. TypeInv /\ PlaceInv /\ ShareInv /\ ForceInv
  BY DEF Inv
<1>2. CASE main
  BY <1>1, <1>2, MainShare, MainForce DEF Inv
<1>3. CASE Join
  BY <1>1, <1>3, JoinShare, JoinForce DEF Inv
<1>4. ASSUME NEW t \in Team, Work(t)  PROVE Inv'
  BY <1>1, <1>4, WorkShare, WorkForce DEF Inv
<1>5. CASE UNCHANGED vars
  BY <1>5, StutterInv
<1> QED  BY <1>2, <1>3, <1>4, <1>5 DEF Next

THEOREM InvHolds == Spec => []Inv
BY InitInv, NextInv, PTL DEF Spec

(* Velocities are changed only where the forces are whole. *)
LEMMA KickedWhole ==
  ASSUME Inv, [Next]_vars, NEW i \in Ids(N_particles), KickOf(i)
  PROVE  WholeForce(i)
<1>1. kicks' # kicks
  BY DEF KickOf
<1>2. PICK t \in Team : Kick(t)
  <2>1. ~main /\ ~Join /\ ~UNCHANGED vars
    BY <1>1 DEF main, Join, vars
  <2>2. PICK t \in Team : Work(t)
    BY <2>1 DEF Next
  <2>3. Kick(t)
    BY <1>1, <2>2 DEF Work, TakeChunk, BeginIteration, AddPair, ReadForce, WriteForce, AddBond,
                      AddEnergy
  <2> QED  BY <2>3
<1>3. region \in {"integrate", "kick"}
  BY <1>2 DEF Kick
<1> QED  BY <1>3 DEF Inv, ForceInv

(* What is missing from a whole force. *)
LEMMA LostIs ==
  ASSUME NEW i \in Ids(N_particles), WholeForce(i)
  PROVE  /\ forces[i] \sqsubseteq Exact(i)
         /\ \A c \in Lost(i) :
              \E a \in Ids(N_particles) : c = Pair(a, i) /\ a < i /\ ~OneHand(a, i)
<1>1. forces[i] \sqsubseteq Exact(i)
  BY SingleWithin DEF WholeForce, Got, Exact
<1>2. ASSUME NEW c \in Lost(i)
      PROVE  \E a \in Ids(N_particles) : c = Pair(a, i) /\ a < i /\ ~OneHand(a, i)
  <2>1. c \in PairsOn(i) \cup BondsOn(i) /\ c \notin Got(i)
    BY SingleBags DEF Lost, Exact, Got
  <2>2. c \in PairsOn(i)
    BY <2>1 DEF WholeForce
  <2>3. PICK a, b \in Ids(N_particles) : Near(a, b) /\ (i = a \/ i = b) /\ c = Pair(a, b)
    BY <2>2, PairsOnIs
  <2>4. i = b /\ ~OneHand(a, i)
    BY <2>1, <2>3 DEF WholeForce, PairsThere
  <2> QED  BY <2>3, <2>4 DEF Near
<1> QED  BY <1>1, <1>2

LEMMA KickIsWhole ==
  Inv /\ [Next]_vars =>
    [\A i \in Ids(N_particles) : KickOf(i) =>
       /\ forces[i] \sqsubseteq Exact(i)
       /\ Lost(i) \subseteq {Pair(j, i) : j \in Ids(i)}]_vars
<1> SUFFICES ASSUME Inv, [Next]_vars, NEW i \in Ids(N_particles), KickOf(i)
             PROVE  /\ forces[i] \sqsubseteq Exact(i)
                    /\ Lost(i) \subseteq {Pair(j, i) : j \in Ids(i)}
  OBVIOUS
<1>1. WholeForce(i)
  BY KickedWhole
<1>2. ASSUME NEW c \in Lost(i)
      PROVE  c \in {Pair(j, i) : j \in Ids(i)}
  <2>1. PICK a \in Ids(N_particles) : c = Pair(a, i) /\ a < i
    BY <1>1, LostIs
  <2>2. a \in Ids(i)
    BY <2>1 DEF Ids, Inv, TypeInv
  <2> QED  BY <2>1, <2>2
<1> QED  BY <1>1, <1>2, LostIs

LEMMA LostIsAcross ==
  Inv /\ [Next]_vars =>
    [\A i \in Ids(N_particles) : KickOf(i) =>
       \A c \in Lost(i) : N_threads > 1 /\ ChunkOf(c[2]) # ChunkOf(c[3])]_vars
<1> SUFFICES ASSUME Inv, [Next]_vars, NEW i \in Ids(N_particles), KickOf(i), NEW c \in Lost(i)
             PROVE  N_threads > 1 /\ ChunkOf(c[2]) # ChunkOf(c[3])
  OBVIOUS
<1>1. PICK a \in Ids(N_particles) : c = Pair(a, i) /\ ~OneHand(a, i)
  BY KickedWhole, LostIs
<1>2. N_threads \in Nat \ {0}
  BY DEF Inv, TypeInv
<1>3. c[2] = a /\ c[3] = i
  BY <1>1 DEF Pair
<1> QED  BY <1>1, <1>2, <1>3 DEF OneHand

-----------------------------------------------------------------------------
(* A velocity is changed by the force that belongs to the present places:  *)
(* nothing of it is stale and nothing twice, and only contributions from   *)
(* iterations of smaller particles can be missing.                         *)
THEOREM KicksAreWhole == Spec => KickedByWholeForces
BY InvHolds, KickIsWhole, PTL DEF Spec, KickedByWholeForces

(* What is missing came from the iteration of another thread, in another   *)
(* chunk.                                                                  *)
THEOREM LossIsAcrossChunks == Spec => LostOnlyAcrossChunks
BY InvHolds, LostIsAcross, PTL DEF Spec, LostOnlyAcrossChunks
=============================================================================
