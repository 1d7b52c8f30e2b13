--------------------------- MODULE SpeRingProofs ---------------------------
(***************************************************************************)
(* Proofs about the SPE self profiler (SpeRing), for any number of CPUs,   *)
(* any size of ring and record and any number of records: the lines of the *)
(* file are the samples, in order and once, and none is skipped.           *)
(***************************************************************************)
EXTENDS SpeRing, Integers, SequenceTheorems, FiniteSetTheorems, TLAPS

-----------------------------------------------------------------------------
(* The inductive invariant. *)

(* Records lie one behind the other, up to data_head. *)
Boundary(c, p) == p = data_head[c] \/ \E r \in DOMAIN log[c] : log[c][r].at = p

LogInv ==
  \A c \in CPUs :
    /\ \A r \in DOMAIN log[c] : EndOf(c, r) <= data_head[c] /\ Boundary(c, EndOf(c, r))
    /\ \A r, s \in DOMAIN log[c] : r < s => EndOf(c, r) <= log[c][s].at
    /\ Boundary(c, data_tail[c])

(* What has not been given back to the kernel is still in the ring. *)
RingInv ==
  \A c \in CPUs : \A r \in DOMAIN log[c] : \A k \in 1..log[c][r].size :
    log[c][r].at + k > data_tail[c] => ring[c][Slot(log[c][r].at + k - 1)] = <<r, k>>

(* The consumer is at a record, in what it found when it read data_head. *)
ParseInv ==
  pc = "read" => /\ i \in CPUs /\ i \in perf_fds /\ tail = data_tail[i]
                 /\ tail + consumed <= head /\ head <= data_head[i]
                 /\ Boundary(i, head) /\ Boundary(i, tail + consumed)

(* The position up to which the ring of c was read, and its samples. *)
Parsed(c) == IF pc = "read" /\ i = c THEN tail + consumed ELSE data_tail[c]
Taken(c) == {r \in Samples(c) : EndOf(c, r) <= Parsed(c)}

WriteInv ==
  /\ LinesAreSamples
  /\ \A c \in CPUs : Cardinality(LinesOf(c)) = Cardinality(Taken(c))

(* The kernel writes only where an event is open. *)
EventInv ==
  /\ \A c \in CPUs \ perf_fds : pc # "done" => data_head[c] = 0
  /\ pc \in {"none", "fork", "open", "enable"} => \A c \in CPUs : data_head[c] = 0
  /\ pc \in {"none", "fork", "open", "enable", "done"} => enabled = {}

(* Which of the two programs there is, and how far it is. *)
ModeInv ==
  /\ mode = "self" => child = "none" /\ app # "none" /\ pc \notin {"fork", "flag", "wait", "poll"}
  /\ mode = "wrapper" => app = "none" /\ pc \notin {"none", "enable", "test"}
  /\ app = "init" => pc = "none" /\ ~profiling_active
  /\ app = "running" /\ ~profiling_active => pc = "none"
  /\ app = "ended" => pc \in {"none", "done"}

(* Nothing is added to what is due once the last round has begun, and that *)
(* round reads it on one CPU after the other.                              *)
DueInv ==
  /\ final => /\ pc \in {"cpu", "read", "cleanup", "done"}
              /\ mode = "self" => ~profiling_active
              /\ mode = "wrapper" => child \in {"none", "exited"}
  /\ final /\ pc \in {"cpu", "read"} => \A c \in CPUs : c < i => due[c] <= data_tail[c]
  /\ final /\ pc = "read" => due[i] <= head
  /\ pc = "done" /\ ~final => \A c \in CPUs : data_head[c] = 0
  /\ pc \in {"cleanup", "done"} => \A c \in CPUs : due[c] <= data_tail[c]
  /\ pc = "cleanup" => final

Inv == TypeOK /\ LogInv /\ RingInv /\ ParseInv /\ WriteInv /\ EventInv /\ ModeInv /\ DueInv

-----------------------------------------------------------------------------
(* Places in a ring *)

LEMMA QuotientUnique ==
  ASSUME NEW a \in Int, NEW b \in Int, NEW n \in Nat \ {0}, NEW r \in 0..n-1, NEW s \in 0..n-1,
         n * a + r = n * b + s
  PROVE  r = s
OBVIOUS

LEMMA Quotient ==
  ASSUME NEW x \in Nat, NEW n \in Nat \ {0}
  PROVE  x \div n \in Int /\ x % n \in 0..n-1 /\ x = (n * (x \div n)) + (x % n)
OBVIOUS

LEMMA RemainderIs ==
  ASSUME NEW a \in Int, NEW n \in Nat \ {0}, NEW r \in 0..n-1, NEW x \in Nat, x = (n * a) + r
  PROVE  x % n = r
OBVIOUS

LEMMA SlotType == \A x \in Nat : Slot(x) \in 0..BUF_SIZE-1
  BY Quotient, SpeAssumption DEF Slot

(* Units that are in the ring at a time are in different places of it. *)
LEMMA SlotsDiffer ==
  ASSUME NEW x \in Nat, NEW y \in Nat, x < y, y < x + BUF_SIZE
  PROVE  Slot(x) # Slot(y)
<1> DEFINE n == BUF_SIZE
           q == x \div n
           p == y \div n
           d == y - x
<1>0. n \in Nat \ {0}
  BY SpeAssumption
<1> HIDE DEF n
<1>1. q \in Int /\ x % n \in 0..n-1 /\ x = (n * q) + (x % n)
  BY <1>0, Quotient
<1>2. p \in Int /\ y % n \in 0..n-1 /\ y = (n * p) + (y % n)
  BY <1>0, Quotient
<1> SUFFICES ASSUME x % n = y % n  PROVE FALSE
  BY DEF Slot, n
<1> HIDE DEF q, p
<1>3. d \in 0..n-1 /\ 0 \in 0..n-1 /\ d # 0
  BY <1>0 DEF n
<1>4. y = x + d
  OBVIOUS
<1> HIDE DEF d
<1>5. (n * p) + 0 = (n * q) + d
  BY <1>0, <1>1, <1>2, <1>3, <1>4
<1> QED  BY <1>0, <1>1, <1>2, <1>3, <1>5, QuotientUnique

(* A record that does not reach the end of the ring does not wrap around. *)
LEMMA SlotAdd ==
  ASSUME NEW x \in Nat, NEW j \in Nat, Slot(x) + j < BUF_SIZE
  PROVE  Slot(x + j) = Slot(x) + j
<1> DEFINE n == BUF_SIZE
           q == x \div n
<1>0. n \in Nat \ {0}
  BY SpeAssumption
<1>1. q \in Int /\ x % n \in 0..n-1 /\ x = (n * q) + (x % n)
  BY <1>0, Quotient
<1>2. (x % n) + j < n
  BY DEF Slot
<1> HIDE DEF n, q
<1> DEFINE r == x % n
<1>3. r + j \in 0..n-1 /\ x + j \in Nat
  BY <1>0, <1>1, <1>2
<1>4. x + j = (n * q) + (r + j)
  BY <1>0, <1>1, <1>3
<1> HIDE DEF r
<1>5. (x + j) % n = r + j
  BY <1>0, <1>1, <1>3, <1>4, RemainderIs
<1> QED  BY <1>5 DEF Slot, n, r

-----------------------------------------------------------------------------
(* Records and lines *)

LEMMA RecordType ==
  ASSUME TypeOK
  PROVE  \A c \in CPUs :
           /\ DOMAIN log[c] = 1..Len(log[c]) /\ Len(log[c]) \in Nat
           /\ \A r \in DOMAIN log[c] :
                /\ log[c][r].at \in Nat /\ log[c][r].size \in Sizes
                /\ log[c][r].size \in 1..BUF_SIZE /\ log[c][r].sample \in BOOLEAN
                /\ EndOf(c, r) \in Nat /\ log[c][r].at < EndOf(c, r)
<1> SUFFICES ASSUME NEW c \in CPUs
             PROVE  /\ DOMAIN log[c] = 1..Len(log[c]) /\ Len(log[c]) \in Nat
                    /\ \A r \in DOMAIN log[c] :
                         /\ log[c][r].at \in Nat /\ log[c][r].size \in Sizes
                         /\ log[c][r].size \in 1..BUF_SIZE /\ log[c][r].sample \in BOOLEAN
                         /\ EndOf(c, r) \in Nat /\ log[c][r].at < EndOf(c, r)
  OBVIOUS
<1>1. log[c] \in Seq(Records)
  BY DEF TypeOK
<1>2. DOMAIN log[c] = 1..Len(log[c]) /\ Len(log[c]) \in Nat
  BY <1>1, LenProperties
<1>3. ASSUME NEW r \in DOMAIN log[c]  PROVE log[c][r] \in Records
  BY <1>1, <1>2, <1>3, ElementOfSeq
<1>4. \A x \in Records : /\ x.at \in Nat /\ x.size \in Sizes /\ x.sample \in BOOLEAN
                         /\ x.size \in 1..BUF_SIZE
  BY SpeAssumption DEF Records
<1>5. \A x \in Records : x.at + x.size \in Nat /\ x.at < x.at + x.size
  BY <1>4, SpeAssumption
<1> QED  BY <1>2, <1>3, <1>4, <1>5 DEF EndOf

LEMMA SetsAreFinite ==
  ASSUME TypeOK, NEW c \in CPUs
  PROVE  /\ DOMAIN out = 1..Len(out) /\ Len(out) \in Nat
         /\ Samples(c) \subseteq DOMAIN log[c] /\ Taken(c) \subseteq Samples(c)
         /\ LinesOf(c) \subseteq DOMAIN out
         /\ IsFiniteSet(Samples(c)) /\ IsFiniteSet(LinesOf(c)) /\ IsFiniteSet(Taken(c))
         /\ Cardinality(LinesOf(c)) \in Nat /\ Cardinality(Taken(c)) \in Nat
<1>1. DOMAIN out = 1..Len(out) /\ Len(out) \in Nat
  BY LenProperties DEF TypeOK
<1>2. Samples(c) \subseteq DOMAIN log[c] /\ LinesOf(c) \subseteq DOMAIN out
      /\ Taken(c) \subseteq Samples(c)
  BY DEF Samples, LinesOf, Taken
<1>3. IsFiniteSet(DOMAIN log[c]) /\ IsFiniteSet(DOMAIN out)
  BY <1>1, RecordType, FS_Interval
<1>4. IsFiniteSet(Samples(c)) /\ IsFiniteSet(LinesOf(c))
  BY <1>2, <1>3, FS_Subset
<1>5. IsFiniteSet(Taken(c))
  BY <1>2, <1>4, FS_Subset
<1> QED  BY <1>1, <1>2, <1>4, <1>5, FS_CardinalityType

(* A lower number is an earlier place. *)
LEMMA EarlierRecord ==
  ASSUME TypeOK, LogInv, NEW c \in CPUs, NEW r \in DOMAIN log[c], NEW s \in DOMAIN log[c]
  PROVE  /\ s <= r <=> log[c][s].at <= log[c][r].at
         /\ s <= r <=> EndOf(c, s) <= EndOf(c, r)
         /\ s < r <=> EndOf(c, s) <= log[c][r].at
<1>1. r \in Nat /\ s \in Nat
  BY RecordType
<1>2. /\ log[c][r].at \in Nat /\ EndOf(c, r) \in Nat /\ log[c][r].at < EndOf(c, r)
      /\ log[c][s].at \in Nat /\ EndOf(c, s) \in Nat /\ log[c][s].at < EndOf(c, s)
  BY RecordType
<1>3. (r < s => EndOf(c, r) <= log[c][s].at) /\ (s < r => EndOf(c, s) <= log[c][r].at)
  BY DEF LogInv
<1> QED  BY <1>1, <1>2, <1>3

-----------------------------------------------------------------------------
(* A record is put into a ring *)

Puts(c, n) == \E b \in BOOLEAN : Put(c, n, b)

LEMMA PutStep ==
  ASSUME TypeOK, NEW c \in CPUs, NEW n \in Sizes, Puts(c, n)
  PROVE  /\ n \in 1..BUF_SIZE /\ c \in enabled
         /\ data_head' = [data_head EXCEPT ![c] = @ + n]
         /\ data_head[c] + n <= data_tail[c] + BUF_SIZE
         /\ log' \in [CPUs -> Seq(Records)]
         /\ DOMAIN log'[c] = DOMAIN log[c] \cup {Len(log[c]) + 1}
         /\ Len(log[c]) + 1 \notin DOMAIN log[c]
         /\ \A r \in DOMAIN log[c] : log'[c][r] = log[c][r] /\ r < Len(log[c]) + 1
         /\ log'[c][Len(log[c]) + 1].at = data_head[c] /\ log'[c][Len(log[c]) + 1].size = n
         /\ \A d \in CPUs \ {c} : log'[d] = log[d] /\ data_head'[d] = data_head[d]
         /\ UNCHANGED <<mode, data_tail, due, events, profiling_active, output_file, out, pc, parse,
                        program, proc>>
<1>0. PICK b \in BOOLEAN : Put(c, n, b)
  BY DEF Puts
<1>1. /\ data_head' = [data_head EXCEPT ![c] = @ + n]
      /\ data_head[c] + n <= data_tail[c] + BUF_SIZE
      /\ log' = [log EXCEPT ![c] = Append(@, [at |-> data_head[c], size |-> n, sample |-> b])]
      /\ c \in enabled
      /\ UNCHANGED <<mode, data_tail, due, events, profiling_active, output_file, out, pc, parse,
                     program, proc>>
  BY <1>0 DEF Put, Profiled
<1> DEFINE x == [at |-> data_head[c], size |-> n, sample |-> b]
<1>2. x \in Records /\ log[c] \in Seq(Records) /\ n \in 1..BUF_SIZE
  BY SpeAssumption DEF TypeOK, Records
<1> HIDE DEF x
<1>3. log' = [log EXCEPT ![c] = Append(log[c], x)]
  BY <1>1 DEF x
<1>4. /\ Append(log[c], x) \in Seq(Records) /\ Len(Append(log[c], x)) = Len(log[c]) + 1
      /\ \A r \in 1..Len(log[c]) : Append(log[c], x)[r] = log[c][r]
      /\ Append(log[c], x)[Len(log[c]) + 1] = x
  BY <1>2, AppendProperties
<1>5. log'[c] = Append(log[c], x) /\ \A d \in CPUs \ {c} : log'[d] = log[d]
  BY <1>3 DEF TypeOK
<1>6. log' \in [CPUs -> Seq(Records)]
  BY <1>3, <1>4 DEF TypeOK
<1>7. DOMAIN log[c] = 1..Len(log[c]) /\ Len(log[c]) \in Nat
  BY RecordType
<1>8. DOMAIN log'[c] = 1..(Len(log[c]) + 1)
  BY <1>4, <1>5, LenProperties
<1>9. DOMAIN log'[c] = DOMAIN log[c] \cup {Len(log[c]) + 1} /\ Len(log[c]) + 1 \notin DOMAIN log[c]
      /\ \A r \in DOMAIN log[c] : r < Len(log[c]) + 1
  BY <1>7, <1>8
<1>10. \A d \in CPUs \ {c} : data_head'[d] = data_head[d]
  BY <1>1 DEF TypeOK
<1>11. \A r \in DOMAIN log[c] : log'[c][r] = log[c][r]
  BY <1>4, <1>5, <1>7
<1>12. log'[c][Len(log[c]) + 1] = x
  BY <1>4, <1>5
<1>13. x.at = data_head[c] /\ x.size = n
  BY DEF x
<1> QED  BY <1>1, <1>2, <1>6, <1>9, <1>10, <1>11, <1>12, <1>13

(* Its units go where they belong, and nowhere else. *)
LEMMA PutRing ==
  ASSUME TypeOK, NEW c \in CPUs, NEW n \in Sizes, Puts(c, n)
  PROVE  /\ ring' \in [CPUs -> [0..BUF_SIZE-1 -> Units \cup {Nil}]]
         /\ \A d \in CPUs \ {c} : ring'[d] = ring[d]
         /\ \A k \in 1..n : ring'[c][Slot(data_head[c] + k - 1)] = <<Len(log[c]) + 1, k>>
         /\ \A x \in Nat : data_tail[c] <= x /\ x < data_head[c]
                             => ring'[c][Slot(x)] = ring[c][Slot(x)]
<1> DEFINE H == data_head[c]
           OfRecord(p) == {k \in 1..n : Slot(H + k - 1) = p}
           R == Len(log[c]) + 1
<1>1. ring' = [ring EXCEPT ![c] = [p \in 0..BUF_SIZE-1 |->
                 IF OfRecord(p) = {} THEN ring[c][p] ELSE <<R, CHOOSE k \in OfRecord(p) : TRUE>>]]
  BY DEF Puts, Put
<1>2. H \in Nat /\ n \in 1..BUF_SIZE /\ R \in Nat /\ BUF_SIZE \in Nat \ {0}
      /\ H + n <= data_tail[c] + BUF_SIZE /\ data_tail[c] \in Nat
  <2>1. n \in 1..BUF_SIZE /\ data_head[c] + n <= data_tail[c] + BUF_SIZE
    BY PutStep
  <2>2. Len(log[c]) \in Nat
    BY RecordType
  <2>3. data_head[c] \in Nat /\ data_tail[c] \in Nat
    BY DEF TypeOK
  <2> QED  BY <2>1, <2>2, <2>3, SpeAssumption
<1>3. ring \in [CPUs -> [0..BUF_SIZE-1 -> Units \cup {Nil}]]
  BY DEF TypeOK
<1>4. \A p : OfRecord(p) # {} => (CHOOSE k \in OfRecord(p) : TRUE) \in OfRecord(p)
  OBVIOUS
<1>5. \A p : OfRecord(p) \subseteq 1..BUF_SIZE
  BY <1>2
<1>6. ASSUME NEW p \in 0..BUF_SIZE-1
      PROVE  (IF OfRecord(p) = {} THEN ring[c][p] ELSE <<R, CHOOSE k \in OfRecord(p) : TRUE>>)
               \in Units \cup {Nil}
  <2>1. CASE OfRecord(p) = {}
    BY <1>3, <2>1
  <2>2. CASE OfRecord(p) # {}
    <3>1. (CHOOSE k \in OfRecord(p) : TRUE) \in 1..BUF_SIZE
      BY <1>4, <1>5, <2>2
    <3> QED  BY <1>2, <2>2, <3>1 DEF Units
  <2> QED  BY <2>1, <2>2
<1> HIDE DEF H, OfRecord, R
<1>7. \A p \in 0..BUF_SIZE-1 :
        ring'[c][p] = IF OfRecord(p) = {} THEN ring[c][p] ELSE <<R, CHOOSE k \in OfRecord(p) : TRUE>>
  BY <1>1, <1>3
<1>8. /\ ring' \in [CPUs -> [0..BUF_SIZE-1 -> Units \cup {Nil}]]
      /\ \A d \in CPUs \ {c} : ring'[d] = ring[d]
  BY <1>1, <1>3, <1>6
<1>9. ASSUME NEW k \in 1..n  PROVE ring'[c][Slot(H + k - 1)] = <<R, k>>
  <2>0. H + k - 1 \in Nat
    BY <1>2
  <2>1. k \in OfRecord(Slot(H + k - 1)) /\ Slot(H + k - 1) \in 0..BUF_SIZE-1
    BY <2>0, SlotType DEF OfRecord
  <2>2. ASSUME NEW m \in OfRecord(Slot(H + k - 1))  PROVE m = k
    <3>1. m \in 1..n /\ Slot(H + m - 1) = Slot(H + k - 1) /\ H + m - 1 \in Nat
      BY <1>2 DEF OfRecord
    <3>2. CASE m < k
      <4>1. H + m - 1 < H + k - 1 /\ H + k - 1 < (H + m - 1) + BUF_SIZE
        BY <1>2, <3>1, <3>2
      <4> QED  BY <2>0, <3>1, <4>1, SlotsDiffer
    <3>3. CASE k < m
      <4>1. H + k - 1 < H + m - 1 /\ H + m - 1 < (H + k - 1) + BUF_SIZE
        BY <1>2, <3>1, <3>3
      <4> QED  BY <2>0, <3>1, <4>1, SlotsDiffer
    <3> QED  BY <1>2, <3>1, <3>2, <3>3
  <2>3. (CHOOSE m \in OfRecord(Slot(H + k - 1)) : TRUE) = k
    BY <2>1, <2>2
  <2> QED  BY <1>7, <2>1, <2>3
<1>10. ASSUME NEW x \in Nat, data_tail[c] <= x, x < H  PROVE ring'[c][Slot(x)] = ring[c][Slot(x)]
  <2>1. ASSUME NEW k \in OfRecord(Slot(x))  PROVE FALSE
    <3>1. k \in 1..n /\ Slot(H + k - 1) = Slot(x) /\ H + k - 1 \in Nat
      BY <1>2 DEF OfRecord
    <3>2. x < H + k - 1 /\ H + k - 1 < x + BUF_SIZE
      BY <1>2, <1>10, <3>1
    <3> QED  BY <3>1, <3>2, SlotsDiffer
  <2>2. OfRecord(Slot(x)) = {}
    BY <2>1
  <2> QED  BY <1>7, <2>2, SlotType
<1> QED  BY <1>8, <1>9, <1>10 DEF H, R

-----------------------------------------------------------------------------
(* A record is read *)

(* The consumer stands on a record, which it finds by the first unit.      *)
LEMMA ReadStep ==
  ASSUME TypeOK, LogInv, RingInv, ParseInv, ReadRecord
  PROVE  \E r \in DOMAIN log[i] :
           /\ pc = "read" /\ pc' = "read" /\ i \in CPUs
           /\ log[i][r].at = tail + consumed
           /\ UNCHANGED <<mode, kernel, data_tail, due, events, profiling_active, output_file, i,
                          head, tail, final, program>>
           /\ \/ /\ log[i][r].sample
                 /\ \E x \in Lines : /\ out' = Append(out, x) /\ x.cpu = i /\ IsLineOf(x, i, r)
                 /\ consumed' = consumed + log[i][r].size /\ proc' = proc
              \/ /\ ~log[i][r].sample /\ out' = out
                 /\ consumed' = consumed + log[i][r].size /\ proc' = proc
              \/ UNCHANGED <<out, consumed>> /\ proc' = "killed"
<1> DEFINE q == tail + consumed
           p == Slot(q)
           num == ring[i][p][1]
           units(s) == [k \in 1..log[i][s].size |->
                          IF p + k - 1 < BUF_SIZE THEN ring[i][p + k - 1] ELSE Nil]
<1>1. /\ pc = "read" /\ pc' = "read" /\ i \in CPUs /\ q < head
      /\ UNCHANGED <<mode, kernel, data_tail, due, events, profiling_active, output_file, i,
                     head, tail, final, program>>
  BY DEF ReadRecord, Goto, ParseInv
<1>2. q \in Nat /\ tail \in Nat /\ consumed \in Nat /\ head \in Nat /\ data_head[i] \in Nat
      /\ head <= data_head[i] /\ Boundary(i, q) /\ tail = data_tail[i]
  BY <1>1 DEF TypeOK, ParseInv
<1>3. PICK r \in DOMAIN log[i] : log[i][r].at = q
  BY <1>1, <1>2 DEF Boundary
<1>4. log[i][r].size \in 1..BUF_SIZE /\ log[i][r].sample \in BOOLEAN
  BY <1>1, RecordType
<1>5. \A k \in 1..log[i][r].size : ring[i][Slot(q + k - 1)] = <<r, k>>
  <2> SUFFICES ASSUME NEW k \in 1..log[i][r].size  PROVE ring[i][Slot(q + k - 1)] = <<r, k>>
    OBVIOUS
  <2>1. q + k > data_tail[i]
    BY <1>2, <1>4
  <2> QED  BY <1>1, <1>3, <2>1 DEF RingInv
<1>6. num = r
  <2>1. 1 \in 1..log[i][r].size /\ q + 1 - 1 = q
    BY <1>2, <1>4
  <2>2. ring[i][p] = <<r, 1>>
    BY <1>5, <2>1
  <2> QED  BY <2>2
<1>7. p \in 0..BUF_SIZE-1 /\ BUF_SIZE \in Nat
  BY <1>2, SlotType, SpeAssumption
<1>8. \A k \in 1..log[i][r].size : p + k - 1 < BUF_SIZE => ring[i][p + k - 1] = <<r, k>>
  <2> SUFFICES ASSUME NEW k \in 1..log[i][r].size, p + k - 1 < BUF_SIZE
               PROVE  ring[i][p + k - 1] = <<r, k>>
    OBVIOUS
  <2>1. k - 1 \in Nat /\ p + (k - 1) < BUF_SIZE
    BY <1>4, <1>7
  <2>2. Slot(q + (k - 1)) = p + (k - 1)
    BY <1>2, <2>1, SlotAdd
  <2>3. q + k - 1 = q + (k - 1) /\ p + k - 1 = p + (k - 1)
    BY <1>2, <1>4, <1>7
  <2> QED  BY <1>5, <2>2, <2>3
<1>9. units(r) \in Seq(Units \cup {Nil}) /\ Len(units(r)) = log[i][r].size
      /\ DOMAIN units(r) = 1..log[i][r].size
  <2>1. \A k \in 1..log[i][r].size : units(r)[k] \in Units \cup {Nil}
    <3> SUFFICES ASSUME NEW k \in 1..log[i][r].size  PROVE units(r)[k] \in Units \cup {Nil}
      OBVIOUS
    <3>1. r \in Nat
      BY <1>1, RecordType
    <3>2. k \in 1..BUF_SIZE
      BY <1>4, <1>7
    <3>3. <<r, k>> \in Units
      BY <3>1, <3>2 DEF Units
    <3> QED  BY <1>8, <3>3
  <2>2. log[i][r].size \in Nat
    BY <1>4
  <2>3. units(r) \in [1..log[i][r].size -> Units \cup {Nil}]
    BY <2>1
  <2> DEFINE u == units(r)
             m == log[i][r].size
  <2> HIDE DEF units, u, m
  <2>4. m \in Nat /\ u \in [1..m -> Units \cup {Nil}]
    BY <2>2, <2>3 DEF u, m, units
  <2>5. u \in Seq(Units \cup {Nil})
    BY <2>4, SeqDef
  <2>6. DOMAIN u = 1..m /\ DOMAIN u = 1..Len(u) /\ Len(u) \in Nat
    BY <2>4, <2>5, LenProperties
  <2>7. Len(u) = m
    BY <2>4, <2>6
  <2> QED  BY <2>5, <2>6, <2>7 DEF u, m
<1>10. [cpu |-> i, units |-> units(r)] \in Lines
  BY <1>1, <1>9 DEF Lines
<1>11. IsLineOf([cpu |-> i, units |-> units(r)], i, r)
  BY <1>3, <1>8, <1>9 DEF IsLineOf
<1>12. \/ /\ out' = IF log[i][num].sample THEN Append(out, [cpu |-> i, units |-> units(num)]) ELSE out
          /\ consumed' = consumed + log[i][num].size
          /\ UNCHANGED proc
       \/ UNCHANGED <<out, consumed>> /\ proc' = "killed"
  BY DEF ReadRecord
<1> HIDE DEF num, units
<1>13. CASE UNCHANGED <<out, consumed>> /\ proc' = "killed"
  BY <1>1, <1>3, <1>13
<1>14. CASE /\ out' = IF log[i][r].sample THEN Append(out, [cpu |-> i, units |-> units(r)]) ELSE out
            /\ consumed' = consumed + log[i][r].size
            /\ UNCHANGED proc
  <2>1. CASE log[i][r].sample
    <3>1. out' = Append(out, [cpu |-> i, units |-> units(r)])
      BY <1>14, <2>1
    <3>2. [cpu |-> i, units |-> units(r)].cpu = i
      OBVIOUS
    <3> QED  BY <1>1, <1>3, <1>10, <1>11, <1>14, <2>1, <3>1, <3>2
  <2>2. CASE ~log[i][r].sample
    BY <1>1, <1>3, <1>14, <2>2
  <2> QED  BY <2>1, <2>2
<1> QED  BY <1>6, <1>12, <1>13, <1>14


-----------------------------------------------------------------------------
(* Types *)

LEMMA NextTypeOK ==
  ASSUME TypeOK, LogInv, RingInv, ParseInv, EventInv, [Next]_vars
  PROVE  TypeOK'
<1> USE DEF kernel, events, parse, program, Goto
<1>0. NCpus \in Nat
  BY SpeAssumption
<1>d. /\ due \in [CPUs -> Nat] /\ data_head \in [CPUs -> Nat]
      /\ \A d \in CPUs : due[d] <= data_head[d] /\ data_head[d] <= data_head[d]
  BY DEF TypeOK
<1>1. ASSUME NEW c \in CPUs, NEW n \in Sizes, Puts(c, n)  PROVE TypeOK'
  <2>1. /\ n \in 1..BUF_SIZE /\ data_head' = [data_head EXCEPT ![c] = @ + n]
        /\ data_head[c] + n <= data_tail[c] + BUF_SIZE /\ log' \in [CPUs -> Seq(Records)]
        /\ UNCHANGED <<mode, data_tail, due, events, profiling_active, output_file, out, pc, parse,
                       program, proc>>
    BY <1>1, PutStep
  <2>2. ring' \in [CPUs -> [0..BUF_SIZE-1 -> Units \cup {Nil}]]
    BY <1>1, PutRing
  <2>3. data_head' \in [CPUs -> Nat] /\ \A d \in CPUs : data_head[d] <= data_head'[d]
                                          /\ data_head'[d] <= data_tail[d] + BUF_SIZE
    BY SMTT(30), <2>1 DEF TypeOK
  <2>4. \A d \in CPUs : data_tail[d] \in Nat /\ due[d] \in Nat /\ data_head[d] \in Nat
    BY DEF TypeOK
  <2>5. \A d \in CPUs : data_tail[d] <= data_head'[d] /\ due[d] <= data_head'[d]
    BY <2>3, <2>4 DEF TypeOK
  <2> QED  BY SMTT(30), <2>1, <2>2, <2>3, <2>5 DEF TypeOK
<1>2. CASE ChildStops \/ ChildContinues \/ ChildExits
  <2>1. /\ child' \in {"running", "stopped", "exited"} /\ child_exited' = TRUE
        /\ due' \in {due, data_head}
        /\ UNCHANGED <<mode, kernel, data_tail, events, profiling_active, output_file, out, pc,
                       parse, app, proc>>
    BY <1>2 DEF ChildStops, ChildContinues, ChildExits, ChildSignals
  <2>2. due' \in [CPUs -> Nat] /\ \A d \in CPUs : due'[d] <= data_head[d]
    BY <1>d, <2>1
  <2> QED  BY <2>1, <2>2 DEF TypeOK
<1>3. CASE Skip \/ spe_profile_start \/ Join \/ JoinNothing
  BY <1>3 DEF Skip, spe_profile_start, Join, JoinNothing, TypeOK
<1>4. CASE spe_profile_stop
  <2>1. /\ app' \in {"join", "ended"} /\ profiling_active' = FALSE /\ due' \in {due, data_head}
        /\ UNCHANGED <<mode, kernel, data_tail, events, output_file, out, pc, parse, child,
                       child_exited, proc>>
    BY <1>4 DEF spe_profile_stop
  <2>2. due' \in [CPUs -> Nat] /\ \A d \in CPUs : due'[d] <= data_head[d]
    BY <1>d, <2>1
  <2> QED  BY <2>1, <2>2 DEF TypeOK
<1>5. CASE Fork \/ EndRound \/ ReadFlag \/ Cleanup \/ Return
  BY <1>5 DEF Fork, EndRound, ReadFlag, Cleanup, Return, TypeOK
<1>6. CASE OpenOwnEvents \/ OpenChildEvents \/ Enable
  <2>1. CASE OpenOwnEvents
    <3>1. pc = "open" /\ enabled' = enabled /\ perf_fds' \subseteq CPUs /\ pc' = "enable"
      BY <2>1 DEF OpenOwnEvents
    <3> QED  BY <2>1, <3>1 DEF OpenOwnEvents, TypeOK, EventInv
  <2>2. CASE OpenChildEvents
    <3>1. perf_fds' \subseteq CPUs /\ enabled' = perf_fds'
      BY <2>2 DEF OpenChildEvents
    <3> QED  BY <2>2, <3>1 DEF OpenChildEvents, TypeOK
  <2>3. CASE Enable
    BY <2>3 DEF Enable, TypeOK
  <2> QED  BY <1>6, <2>1, <2>2, <2>3
<1>7. CASE Test \/ Wait \/ Poll
  <2>1. i' = 0 /\ 0 \in 0..NCpus /\ pc' = "cpu"
        /\ UNCHANGED <<mode, kernel, data_tail, due, events, profiling_active, output_file, out,
                       head, tail, consumed, program, proc>>
    BY <1>0, <1>7 DEF Test, Wait, Poll, BeginRound
  <2>2. ASSUME Test  PROVE final' \in BOOLEAN
    BY <2>2 DEF Test, BeginRound
  <2>4. ASSUME Wait  PROVE final' \in BOOLEAN
    BY <2>4 DEF Wait, BeginRound
  <2>5. ASSUME Poll  PROVE final' \in BOOLEAN
    BY <2>5 DEF Poll, BeginRound
  <2>3. final' \in BOOLEAN
    BY <1>7, <2>2, <2>4, <2>5
  <2> QED  BY <2>1, <2>3 DEF TypeOK
<1>8. CASE SkipCpu
  BY <1>0, <1>8 DEF SkipCpu, NextCpu, TypeOK
<1>9. CASE ReadHead
  <2>1. i \in CPUs
    BY <1>9 DEF ReadHead, TypeOK
  <2> QED  BY SMTT(30), <1>9, <2>1 DEF ReadHead, TypeOK
<1>10. CASE ReadRecord
  <2>1. PICK r \in DOMAIN log[i] :
           /\ pc' = pc /\ i \in CPUs /\ pc = "read"
           /\ UNCHANGED <<mode, kernel, data_tail, due, events, profiling_active, output_file, i,
                          head, tail, final, program>>
           /\ \/ /\ \E x \in Lines : out' = Append(out, x)
                 /\ consumed' = consumed + log[i][r].size /\ proc' = proc
              \/ /\ out' = out
                 /\ consumed' = consumed + log[i][r].size /\ proc' = proc
              \/ UNCHANGED <<out, consumed>> /\ proc' = "killed"
    BY <1>10, ReadStep
  <2>2. log[i][r].size \in Nat
    BY <2>1, RecordType, SpeAssumption
  <2>3. consumed' \in Nat /\ proc' \in {"running", "killed"}
    BY <2>1, <2>2 DEF TypeOK
  <2>4. out' \in Seq(Lines)
    <3>0. out \in Seq(Lines)
      BY DEF TypeOK
    <3>1. ASSUME NEW x \in Lines, out' = Append(out, x)  PROVE out' \in Seq(Lines)
      BY <3>0, <3>1, AppendProperties
    <3>2. CASE out' = out
      BY <3>0, <3>2
    <3> QED  BY <2>1, <3>1, <3>2
  <2> QED  BY <2>1, <2>3, <2>4 DEF TypeOK
<1>11. CASE Acknowledge
  <2>1. /\ i \in CPUs /\ tail = data_tail[i] /\ head <= data_head[i] /\ tail + consumed <= head
        /\ data_tail' = [data_tail EXCEPT ![i] = head] /\ i' = i + 1
        /\ enabled' \subseteq enabled /\ pc' = "cpu"
        /\ UNCHANGED <<mode, kernel, due, perf_fds, profiling_active, output_file, out, head, tail,
                       consumed, final, program, proc>>
    BY <1>11 DEF Acknowledge, TailAfter, NextCpu, ParseInv
  <2>2. tail \in Nat /\ consumed \in Nat /\ head \in Nat /\ tail <= head
    BY <2>1 DEF TypeOK
  <2>3. data_tail' \in [CPUs -> Nat] /\ i' \in 0..NCpus
    BY <1>0, <2>1, <2>2 DEF TypeOK, CPUs
  <2>4. \A c \in CPUs : /\ data_tail'[c] <= data_head[c] /\ data_head[c] <= data_tail'[c] + BUF_SIZE
    <3> SUFFICES ASSUME NEW c \in CPUs
                 PROVE  data_tail'[c] <= data_head[c] /\ data_head[c] <= data_tail'[c] + BUF_SIZE
      OBVIOUS
    <3>1. CASE c = i
      <4>1. data_tail'[c] = head /\ data_head[c] \in Nat /\ data_head[c] <= tail + BUF_SIZE
        BY <2>1, <3>1 DEF TypeOK
      <4> QED  BY <2>1, <2>2, <3>1, <4>1, SpeAssumption
    <3>2. CASE c # i
      BY <2>1, <3>2 DEF TypeOK
    <3> QED  BY <3>1, <3>2
  <2> QED  BY <2>1, <2>3, <2>4 DEF TypeOK
<1>12. CASE UNCHANGED vars
  BY <1>12 DEF vars, TypeOK
<1> QED
  BY <1>1, <1>2, <1>3, <1>4, <1>5, <1>6, <1>7, <1>8, <1>9, <1>10, <1>11, <1>12
  DEF Next, Consume, Puts

-----------------------------------------------------------------------------
(* The rings *)

(* Every step that is not the kernel's leaves the rings alone, and all but *)
(* one what was given back.                                                *)
LEMMA KernelOnly ==
  ASSUME TypeOK, LogInv, RingInv, ParseInv, [Next]_vars
  PROVE  \/ \E c \in CPUs, n \in Sizes : Puts(c, n)
         \/ UNCHANGED kernel /\ Acknowledge
         \/ UNCHANGED <<kernel, data_tail>>
<1> USE DEF kernel
<1>1. CASE ReadRecord
  BY <1>1, ReadStep
<1>2. CASE Acknowledge
  BY <1>2 DEF Acknowledge
<1>3. CASE UNCHANGED vars
  BY <1>3 DEF vars
<1>4. CASE Consume /\ ~ReadRecord /\ ~Acknowledge
  BY <1>4 DEF Consume, Fork, OpenOwnEvents, OpenChildEvents, Enable, Test, SkipCpu, ReadHead,
     EndRound, ReadFlag, Wait, Poll, Cleanup, Return, BeginRound
<1>5. CASE ChildStops \/ ChildContinues \/ ChildExits \/ Skip \/ spe_profile_start
             \/ spe_profile_stop \/ Join \/ JoinNothing
  BY <1>5 DEF ChildStops, ChildContinues, ChildExits, ChildSignals, Skip, spe_profile_start,
     spe_profile_stop, Join, JoinNothing
<1> QED  BY <1>1, <1>2, <1>3, <1>4, <1>5 DEF Next, Puts

LEMMA NextRings ==
  ASSUME TypeOK, LogInv, RingInv, ParseInv, [Next]_vars
  PROVE  LogInv' /\ RingInv'
<1>1. ASSUME NEW c \in CPUs, NEW n \in Sizes, Puts(c, n)  PROVE LogInv' /\ RingInv'
  <2>0. PICK R \in Nat : R = Len(log[c]) + 1
    BY RecordType
  <2>1. /\ n \in 1..BUF_SIZE /\ data_head' = [data_head EXCEPT ![c] = @ + n]
        /\ data_head[c] + n <= data_tail[c] + BUF_SIZE
        /\ DOMAIN log'[c] = DOMAIN log[c] \cup {R} /\ R \notin DOMAIN log[c]
        /\ \A r \in DOMAIN log[c] : log'[c][r] = log[c][r] /\ r < R
        /\ log'[c][R].at = data_head[c] /\ log'[c][R].size = n
        /\ \A d \in CPUs \ {c} : log'[d] = log[d] /\ data_head'[d] = data_head[d]
        /\ data_tail' = data_tail
    BY <1>1, <2>0, PutStep
  <2>2. R \in Nat /\ DOMAIN log[c] \subseteq Nat
    BY RecordType
  <2>3. /\ data_head[c] \in Nat /\ data_head'[c] = data_head[c] + n /\ data_tail[c] \in Nat
        /\ data_tail[c] <= data_head[c]
    BY <2>1 DEF TypeOK
  <2>4. EndOf(c, R)' = data_head'[c] /\ \A r \in DOMAIN log[c] : EndOf(c, r)' = EndOf(c, r)
    BY <2>1, <2>3 DEF EndOf
  <2>5. \A p : Boundary(c, p) => Boundary(c, p)'
    BY <2>1 DEF Boundary
  <2>6. \A p : p = data_head'[c] => Boundary(c, p)'
    BY DEF Boundary
  <2>7. \A r \in DOMAIN log[c] : /\ EndOf(c, r) \in Nat /\ EndOf(c, r) <= data_head[c]
                                 /\ Boundary(c, EndOf(c, r))
    BY RecordType DEF LogInv
  <2>8. ASSUME NEW r \in DOMAIN log'[c]
        PROVE  EndOf(c, r)' <= data_head'[c] /\ Boundary(c, EndOf(c, r))'
    <3>1. CASE r = R
      <4>1. EndOf(c, r)' = data_head'[c] /\ data_head'[c] <= data_head'[c]
        BY <2>1, <2>3, <2>4, <3>1
      <4> QED  BY <4>1, <2>6 DEF Boundary
    <3>2. CASE r \in DOMAIN log[c]
      <4>1. EndOf(c, r)' = EndOf(c, r) /\ EndOf(c, r) <= data_head'[c]
        BY <2>1, <2>3, <2>4, <2>7, <3>2
      <4>2. Boundary(c, EndOf(c, r))
        BY <2>7, <3>2
      <4> QED  BY <2>1, <4>1, <4>2 DEF Boundary
    <3> QED  BY <2>1, <3>1, <3>2
  <2>9. ASSUME NEW r \in DOMAIN log'[c], NEW s \in DOMAIN log'[c], r < s
        PROVE  EndOf(c, r)' <= log'[c][s].at
    <3>1. r \in DOMAIN log[c]
      BY <2>1, <2>2, <2>9
    <3>2. CASE s = R
      BY <2>1, <2>4, <2>7, <3>1, <3>2
    <3>3. CASE s \in DOMAIN log[c]
      BY <2>1, <2>4, <2>9, <3>1, <3>3 DEF LogInv
    <3> QED  BY <2>1, <3>2, <3>3
  <2>10. \A d \in CPUs \ {c} :
           /\ \A r \in DOMAIN log'[d] : EndOf(d, r)' = EndOf(d, r)
           /\ \A p : Boundary(d, p)' <=> Boundary(d, p)
    BY <2>1 DEF EndOf, Boundary
  <2>11. LogInv'
    <3>1. Boundary(c, data_tail[c])'
      BY <2>1 DEF LogInv, Boundary
    <3>2. ASSUME NEW d \in CPUs \ {c}
          PROVE  /\ \A r \in DOMAIN log'[d] : EndOf(d, r)' <= data_head'[d] /\ Boundary(d, EndOf(d, r))'
                 /\ \A r, s \in DOMAIN log'[d] : r < s => EndOf(d, r)' <= log'[d][s].at
                 /\ Boundary(d, data_tail[d])'
      BY <2>1 DEF LogInv, EndOf, Boundary
    <3> QED  BY <2>1, <2>8, <2>9, <3>1, <3>2 DEF LogInv
  <2>12. ASSUME NEW r \in DOMAIN log'[c], NEW k \in 1..log'[c][r].size,
                log'[c][r].at + k > data_tail[c]
         PROVE  ring'[c][Slot(log'[c][r].at + k - 1)] = <<r, k>>
    <3>1. CASE r = R
      <4>1. \A j \in 1..n : ring'[c][Slot(data_head[c] + j - 1)] = <<R, j>>
        BY <1>1, <2>0, PutRing
      <4>2. log'[c][r].at = data_head[c] /\ k \in 1..n
        BY <2>1, <2>12, <3>1
      <4> QED  BY <3>1, <4>1, <4>2
    <3>2. CASE r \in DOMAIN log[c]
      <4> DEFINE a == log[c][r].at
                 x == a + k - 1
      <4>1. log'[c][r] = log[c][r] /\ k \in 1..log[c][r].size
        BY <2>1, <3>2
      <4>2. a \in Nat /\ log[c][r].size \in 1..BUF_SIZE /\ a + log[c][r].size <= data_head[c]
        BY <2>7, <3>2, RecordType DEF EndOf
      <4>3. x \in Nat /\ data_tail[c] <= x /\ x < data_head[c]
        BY <2>3, <2>12, <4>1, <4>2
      <4>4. ring'[c][Slot(x)] = ring[c][Slot(x)]
        BY <1>1, <4>3, PutRing
      <4>5. ring[c][Slot(x)] = <<r, k>>
        BY <2>12, <3>2, <4>1 DEF RingInv
      <4> QED  BY <4>1, <4>4, <4>5
    <3> QED  BY <2>1, <3>1, <3>2
  <2>13. \A d \in CPUs \ {c} : ring'[d] = ring[d]
    BY <1>1, PutRing
  <2>14. ASSUME NEW d \in CPUs \ {c}, NEW r \in DOMAIN log'[d], NEW k \in 1..log'[d][r].size,
                log'[d][r].at + k > data_tail[d]
         PROVE  ring'[d][Slot(log'[d][r].at + k - 1)] = <<r, k>>
    <3>1. d \in CPUs /\ log'[d] = log[d] /\ ring'[d] = ring[d]
      BY <2>1, <2>13
    <3>2. r \in DOMAIN log[d] /\ k \in 1..log[d][r].size /\ log[d][r].at + k > data_tail[d]
      BY <2>14, <3>1
    <3>3. ring[d][Slot(log[d][r].at + k - 1)] = <<r, k>>
      BY <3>1, <3>2 DEF RingInv
    <3> QED  BY <3>1, <3>3
  <2>15. \A d \in CPUs : \A r \in DOMAIN log'[d] : \A k \in 1..log'[d][r].size :
           log'[d][r].at + k > data_tail[d] => ring'[d][Slot(log'[d][r].at + k - 1)] = <<r, k>>
    BY <2>12, <2>14
  <2>16. RingInv'
    BY <2>1, <2>15 DEF RingInv
  <2> QED  BY <2>11, <2>16
<1>2. CASE UNCHANGED kernel /\ Acknowledge
  <2>1. /\ i \in CPUs /\ data_tail' = [data_tail EXCEPT ![i] = head] /\ Boundary(i, head)
        /\ tail = data_tail[i] /\ tail + consumed <= head
        /\ UNCHANGED <<ring, data_head, log>>
    BY <1>2 DEF Acknowledge, TailAfter, ParseInv, kernel, Goto
  <2>2. \A c \in CPUs : data_tail[c] \in Nat /\ data_tail'[c] \in Nat /\ data_tail[c] <= data_tail'[c]
                          /\ Boundary(c, data_tail'[c])
    BY <2>1 DEF TypeOK, LogInv
  <2>3. LogInv'
    BY <2>1, <2>2 DEF LogInv, EndOf, Boundary
  <2>4. ASSUME NEW c \in CPUs, NEW r \in DOMAIN log[c], NEW k \in 1..log[c][r].size,
               log[c][r].at + k > data_tail'[c]
        PROVE  log[c][r].at + k > data_tail[c]
    <3>1. log[c][r].at \in Nat /\ log[c][r].size \in 1..BUF_SIZE
      BY RecordType
    <3> QED  BY <2>2, <2>4, <3>1
  <2> QED  BY <2>1, <2>3, <2>4 DEF RingInv
<1>3. CASE UNCHANGED <<kernel, data_tail>>
  BY SMTT(30), <1>3 DEF kernel, LogInv, RingInv, EndOf, Boundary
<1> QED  BY <1>1, <1>2, <1>3, KernelOnly


-----------------------------------------------------------------------------
(* The consumer *)

(* What was the border of a record stays one. *)
LEMMA BoundaryKept ==
  ASSUME TypeOK, LogInv, RingInv, ParseInv, [Next]_vars, NEW c \in CPUs
  PROVE  /\ \A p : Boundary(c, p) => Boundary(c, p)'
         /\ data_head[c] \in Nat /\ data_head'[c] \in Nat /\ data_head[c] <= data_head'[c]
<1>1. CASE UNCHANGED kernel
  BY <1>1 DEF kernel, Boundary, TypeOK
<1>2. ASSUME NEW d \in CPUs, NEW n \in Sizes, Puts(d, n)
      PROVE  /\ \A p : Boundary(c, p) => Boundary(c, p)'
             /\ data_head[c] \in Nat /\ data_head'[c] \in Nat /\ data_head[c] <= data_head'[c]
  <2>0. PICK R \in Nat : R = Len(log[d]) + 1
    BY RecordType
  <2>1. /\ n \in 1..BUF_SIZE /\ data_head' = [data_head EXCEPT ![d] = @ + n]
        /\ DOMAIN log'[d] = DOMAIN log[d] \cup {R}
        /\ \A r \in DOMAIN log[d] : log'[d][r] = log[d][r]
        /\ log'[d][R].at = data_head[d]
        /\ \A e \in CPUs \ {d} : log'[e] = log[e] /\ data_head'[e] = data_head[e]
    BY <1>2, <2>0, PutStep
  <2>2. data_head[c] \in Nat /\ data_head'[c] \in Nat /\ data_head[c] <= data_head'[c]
    BY <2>1 DEF TypeOK
  <2>3. CASE c = d
    BY <2>1, <2>2, <2>3 DEF Boundary
  <2>4. CASE c # d
    BY <2>1, <2>2, <2>4 DEF Boundary
  <2> QED  BY <2>3, <2>4
<1> QED  BY <1>1, <1>2, KernelOnly DEF kernel

LEMMA NextParseInv ==
  ASSUME TypeOK, LogInv, RingInv, ParseInv, ModeInv, [Next]_vars
  PROVE  ParseInv'
<1> USE DEF kernel, events, parse, program, Goto
<1>0. ASSUME UNCHANGED <<pc, i, head, tail, consumed, data_tail, perf_fds>>  PROVE ParseInv'
  <2> SUFFICES ASSUME pc = "read"
               PROVE  /\ i \in CPUs /\ i \in perf_fds /\ tail = data_tail[i]
                      /\ tail + consumed <= head /\ head <= data_head'[i]
                      /\ Boundary(i, head)' /\ Boundary(i, tail + consumed)'
    BY <1>0 DEF ParseInv
  <2>1. PICK I \in CPUs, h \in Nat, q \in Nat : I = i /\ h = head /\ q = tail + consumed
    BY DEF TypeOK, ParseInv
  <2>2. /\ Boundary(I, h) /\ Boundary(I, q) /\ h <= data_head[I]
        /\ I \in perf_fds /\ tail = data_tail[I] /\ q <= h
    BY <2>1 DEF ParseInv
  <2>3. Boundary(I, h)' /\ Boundary(I, q)' /\ data_head[I] \in Nat /\ data_head'[I] \in Nat
        /\ data_head[I] <= data_head'[I]
    BY <2>2, BoundaryKept
  <2> QED  BY <1>0, <2>1, <2>2, <2>3 DEF Boundary
<1>1. ASSUME NEW c \in CPUs, NEW n \in Sizes, Puts(c, n)  PROVE ParseInv'
  BY <1>0, <1>1, PutStep
<1>2. CASE ReadHead
  <2>1. /\ i \in CPUs /\ i \in perf_fds /\ i' = i /\ head' = data_head[i] /\ tail' = data_tail[i]
        /\ consumed' = 0 /\ UNCHANGED <<kernel, data_tail, perf_fds>>
    BY <1>2 DEF ReadHead, TypeOK
  <2>2. /\ tail' + consumed' = data_tail[i] /\ data_tail[i] <= data_head[i]
        /\ data_head[i] <= data_head[i]
    BY <2>1 DEF TypeOK
  <2>3. Boundary(i, data_head[i]) /\ Boundary(i, data_tail[i])
    BY <2>1 DEF LogInv, Boundary
  <2> QED  BY <2>1, <2>2, <2>3 DEF ParseInv, Boundary
<1>3. CASE ReadRecord
  <2>1. PICK r \in DOMAIN log[i] :
           /\ i \in CPUs /\ pc = "read" /\ pc' = "read" /\ log[i][r].at = tail + consumed
           /\ UNCHANGED <<log, data_head, data_tail, perf_fds, i, head, tail>>
           /\ consumed' = consumed \/ consumed' = consumed + log[i][r].size
    BY <1>3, ReadStep
  <2>2. /\ tail \in Nat /\ consumed \in Nat /\ head \in Nat /\ log[i][r].size \in 1..BUF_SIZE
        /\ tail + consumed <= head /\ Boundary(i, head) /\ i \in perf_fds /\ tail = data_tail[i]
        /\ head <= data_head[i] /\ Boundary(i, tail + consumed)
    BY <2>1, RecordType DEF TypeOK, ParseInv
  <2>3. tail + consumed < head
    BY <1>3 DEF ReadRecord
  <2>4. EndOf(i, r) = tail + (consumed + log[i][r].size) /\ Boundary(i, EndOf(i, r))
        /\ EndOf(i, r) <= data_head[i]
    BY <2>1, <2>2 DEF EndOf, LogInv
  <2>5. EndOf(i, r) <= head
    <3>1. CASE head = data_head[i]
      BY <2>4, <3>1
    <3>2. ASSUME NEW s \in DOMAIN log[i], log[i][s].at = head  PROVE EndOf(i, r) <= head
      <4>1. r < s <=> EndOf(i, r) <= log[i][s].at
        BY <2>1, EarlierRecord
      <4>2. s <= r <=> log[i][s].at <= log[i][r].at
        BY <2>1, EarlierRecord
      <4>3. r \in Nat /\ s \in Nat
        BY <2>1, RecordType
      <4> QED  BY <2>1, <2>2, <2>3, <3>2, <4>1, <4>2, <4>3
    <3> QED  BY <2>2, <3>1, <3>2 DEF Boundary
  <2>6. tail + consumed' <= head /\ Boundary(i, tail + consumed')
    BY <2>1, <2>2, <2>4, <2>5
  <2> QED  BY <2>1, <2>2, <2>6 DEF ParseInv, Boundary
<1>4. CASE pc' # "read"
  BY <1>4 DEF ParseInv
<1>5. CASE UNCHANGED vars
  BY <1>0, <1>5 DEF vars
<1>6. CASE Skip \/ spe_profile_stop \/ ChildStops \/ ChildContinues \/ ChildExits
  <2>1. UNCHANGED <<pc, i, head, tail, consumed, data_tail, perf_fds>>
    BY <1>6 DEF ChildStops, ChildContinues, ChildExits, ChildSignals, Skip, spe_profile_stop
  <2> QED  BY <1>0, <2>1
<1>7. CASE spe_profile_start \/ Join \/ JoinNothing
  <2>1. pc' # "read" \/ UNCHANGED <<pc, i, head, tail, consumed, data_tail, perf_fds>>
    BY <1>7 DEF spe_profile_start, Join, JoinNothing
  <2> QED  BY <1>0, <1>4, <2>1
<1>8. CASE Consume /\ ~ReadRecord /\ ~ReadHead
  <2>1. pc' # "read"
    BY <1>8 DEF Consume, Fork, OpenOwnEvents, OpenChildEvents, Enable, Test, SkipCpu, Acknowledge,
       EndRound, ReadFlag, Wait, Poll, Cleanup, Return, BeginRound
  <2> QED  BY <1>4, <2>1
<1> QED  BY <1>1, <1>2, <1>3, <1>5, <1>6, <1>7, <1>8 DEF Next, Puts

LEMMA NextModeInv ==
  ASSUME TypeOK, ModeInv, [Next]_vars
  PROVE  ModeInv'
<1> USE DEF events, parse, program, Goto, ModeInv
<1>1. ASSUME NEW c \in CPUs, NEW n \in Sizes, Puts(c, n)  PROVE ModeInv'
  BY <1>1, PutStep
<1>2. CASE UNCHANGED vars
  BY <1>2 DEF vars
<1>3. CASE ChildStops \/ ChildContinues \/ ChildExits
  BY <1>3 DEF ChildStops, ChildContinues, ChildExits, ChildSignals, TypeOK
<1>4. CASE Skip \/ spe_profile_start \/ spe_profile_stop
  BY <1>4 DEF Skip, spe_profile_start, spe_profile_stop, TypeOK
<1>5. CASE Join \/ JoinNothing
  BY <1>5 DEF Join, JoinNothing, TypeOK
<1>6. CASE Fork \/ OpenOwnEvents \/ OpenChildEvents \/ Enable
  BY <1>6 DEF Fork, OpenOwnEvents, OpenChildEvents, Enable, TypeOK
<1>7. CASE Test \/ Wait \/ Poll \/ SkipCpu
  BY <1>7 DEF Test, Wait, Poll, BeginRound, SkipCpu, TypeOK
<1>8. CASE ReadHead \/ ReadRecord \/ Acknowledge
  BY <1>8 DEF ReadHead, ReadRecord, Acknowledge, TypeOK
<1>9. CASE EndRound \/ ReadFlag
  BY <1>9 DEF EndRound, ReadFlag, TypeOK
<1>10. CASE Cleanup \/ Return
  BY <1>10 DEF Cleanup, Return, TypeOK
<1> QED  BY <1>1, <1>2, <1>3, <1>4, <1>5, <1>6, <1>7, <1>8, <1>9, <1>10 DEF Next, Consume, Puts

(* Only the kernel moves a head, and only where an event counts. *)
LEMMA HeadsMove ==
  ASSUME TypeOK, LogInv, RingInv, ParseInv, [Next]_vars
  PROVE  \/ UNCHANGED data_head
         \/ /\ UNCHANGED <<mode, data_tail, due, perf_fds, enabled, profiling_active, pc, parse,
                           program>>
            /\ enabled # {} /\ \A d \in CPUs \ perf_fds : data_head'[d] = data_head[d]
<1>1. ASSUME NEW c \in CPUs, NEW n \in Sizes, Puts(c, n)
      PROVE  /\ UNCHANGED <<mode, data_tail, due, perf_fds, enabled, profiling_active, pc, parse,
                            program>>
             /\ enabled # {} /\ \A d \in CPUs \ perf_fds : data_head'[d] = data_head[d]
  <2>1. /\ c \in enabled /\ \A d \in CPUs \ {c} : data_head'[d] = data_head[d]
        /\ UNCHANGED <<mode, data_tail, due, events, profiling_active, pc, parse, program>>
    BY <1>1, PutStep
  <2>2. c \in perf_fds
    BY <2>1 DEF TypeOK
  <2> QED  BY <2>1, <2>2 DEF events
<1> QED  BY <1>1, KernelOnly DEF kernel

LEMMA NextEventInv ==
  ASSUME TypeOK, LogInv, RingInv, ParseInv, EventInv, ModeInv, [Next]_vars
  PROVE  EventInv'
<1> USE DEF kernel, events, parse, program, Goto
<1>1. ASSUME /\ UNCHANGED <<perf_fds, enabled, pc>> /\ enabled # {}
             /\ \A d \in CPUs \ perf_fds : data_head'[d] = data_head[d]
      PROVE  EventInv'
  BY <1>1 DEF EventInv
<1>2. CASE UNCHANGED data_head
  <2> USE <1>2
  <2>1. ASSUME UNCHANGED <<perf_fds, enabled, pc>>  PROVE EventInv'
    BY <2>1 DEF EventInv
  <2>2. CASE UNCHANGED vars
    BY <2>1, <2>2 DEF vars
  <2>3. CASE ChildStops \/ ChildContinues \/ ChildExits \/ Skip \/ spe_profile_stop \/ Join
             \/ JoinNothing
    BY <2>1, <2>3 DEF ChildStops, ChildContinues, ChildExits, ChildSignals, Skip, spe_profile_stop,
       Join, JoinNothing
  <2>4. CASE spe_profile_start
    BY <2>4 DEF spe_profile_start, EventInv, ModeInv
  <2>5. CASE Fork
    BY <2>5 DEF Fork, EventInv
  <2>6. CASE OpenOwnEvents \/ OpenChildEvents \/ Enable
    BY <2>6 DEF OpenOwnEvents, OpenChildEvents, Enable, EventInv
  <2>7. CASE Cleanup \/ Return
    BY <2>7 DEF Cleanup, Return, EventInv
  <2>8. CASE Test \/ Wait \/ Poll \/ EndRound \/ ReadFlag \/ SkipCpu \/ ReadHead \/ ReadRecord
    <3>1. /\ UNCHANGED <<perf_fds, enabled>>
          /\ pc \notin {"none", "fork", "open", "enable", "done"}
          /\ pc' \notin {"none", "fork", "open", "enable", "done"}
      BY <2>8 DEF Test, Wait, Poll, BeginRound, EndRound, ReadFlag, SkipCpu, ReadHead, ReadRecord
    <3> QED  BY <3>1 DEF EventInv
  <2>9. CASE Acknowledge
    BY <2>9 DEF Acknowledge, EventInv
  <2>10. CASE UNCHANGED <<perf_fds, enabled, pc>>
    BY <2>1, <2>10
  <2>11. ASSUME NEW c \in CPUs, NEW n \in Sizes, Puts(c, n)  PROVE EventInv'
    BY <2>1, <2>11, PutStep
  <2> QED
    BY <2>2, <2>3, <2>4, <2>5, <2>6, <2>7, <2>8, <2>9, <2>11 DEF Next, Consume, Puts
<1> QED  BY <1>1, <1>2, HeadsMove

LEMMA NextDueInv ==
  ASSUME TypeOK, LogInv, RingInv, ParseInv, EventInv, ModeInv, DueInv, [Next]_vars
  PROVE  DueInv'
<1> USE DEF kernel, events, parse, program, Goto
<1>0. \A c \in CPUs : /\ data_head[c] \in Nat /\ data_tail[c] \in Nat /\ due[c] \in Nat
                      /\ due[c] <= data_head[c] /\ (data_head[c] = 0 => due[c] <= data_tail[c])
                      /\ (data_head[c] = 0 => data_head[c] <= data_tail[c])
  BY DEF TypeOK
<1>1. ASSUME /\ UNCHANGED <<mode, data_tail, due, perf_fds, enabled, profiling_active, pc, parse,
                            program>>
             /\ enabled # {}
      PROVE  DueInv'
  <2>1. pc # "done"
    BY <1>1 DEF EventInv
  <2> QED  BY <1>1, <2>1 DEF DueInv
<1>2. CASE UNCHANGED data_head
  <2> USE <1>2
  <2>1. CASE UNCHANGED vars
    BY <2>1 DEF vars, DueInv
  <2>2. CASE ChildStops \/ ChildContinues
    BY <2>2 DEF ChildStops, ChildContinues, ChildSignals, DueInv, ModeInv, TypeOK
  <2>3. CASE ChildExits
    <3>1. mode = "wrapper" /\ ~final /\ pc # "cleanup"
      BY <2>3 DEF ChildExits, ChildSignals, DueInv, ModeInv, TypeOK
    <3>2. due' = data_head /\ UNCHANGED <<mode, data_tail, pc, parse>>
      BY <2>3 DEF ChildExits, ChildSignals
    <3>3. pc = "done" => \A c \in CPUs : due'[c] <= data_tail[c] /\ data_head[c] = 0
      BY <1>0, <3>1, <3>2 DEF DueInv
    <3> QED  BY <3>1, <3>2, <3>3 DEF DueInv
  <2>4. CASE Skip \/ Join \/ JoinNothing
    BY <2>4 DEF Skip, Join, JoinNothing, DueInv
  <2>5. CASE spe_profile_start
    <3>1. pc = "none" /\ ~final
      BY <2>5 DEF spe_profile_start, DueInv, ModeInv
    <3> QED  BY <2>5, <3>1 DEF spe_profile_start, DueInv
  <2>6. CASE spe_profile_stop
    <3>1. mode = "self"
      BY <2>6 DEF spe_profile_stop, ModeInv, TypeOK
    <3>2. CASE ~profiling_active
      BY <2>6, <3>1, <3>2 DEF spe_profile_stop, DueInv
    <3>3. CASE profiling_active
      <4>1. ~final /\ pc # "cleanup"
        BY <3>1, <3>3 DEF DueInv
      <4>2. due' = data_head /\ UNCHANGED <<mode, data_tail, pc, parse, child>>
        BY <2>6, <3>3 DEF spe_profile_stop
      <4>3. pc = "done" => \A c \in CPUs : due'[c] <= data_tail[c] /\ data_head[c] = 0
        BY <1>0, <4>1, <4>2 DEF DueInv
      <4> QED  BY <4>1, <4>2, <4>3 DEF DueInv
    <3> QED  BY <3>2, <3>3
  <2>7. CASE Fork
    <3>1. ~final /\ \A c \in CPUs : data_head[c] = 0 /\ due[c] <= data_tail[c]
      BY <1>0, <2>7 DEF Fork, DueInv, EventInv
    <3> QED  BY <2>7, <3>1 DEF Fork, DueInv
  <2>8. CASE OpenOwnEvents \/ OpenChildEvents \/ Enable \/ ReadFlag
    BY <2>8 DEF OpenOwnEvents, OpenChildEvents, Enable, ReadFlag, DueInv
  <2>9. CASE Test \/ Wait \/ Poll
    <3>1. /\ i' = 0 /\ pc' = "cpu" /\ pc \in {"test", "wait", "poll"}
          /\ UNCHANGED <<mode, data_tail, due, profiling_active, child>>
      BY <2>9 DEF Test, Wait, Poll, BeginRound
    <3>2. \A c \in CPUs : ~(c < 0)
      BY DEF CPUs
    <3>3. final' => /\ mode = "self" => ~profiling_active
                    /\ mode = "wrapper" => child \in {"none", "exited"}
      BY <2>9 DEF Test, Wait, Poll, BeginRound, ModeInv, TypeOK
    <3> QED  BY <3>1, <3>2, <3>3 DEF DueInv
  <2>10. CASE SkipCpu
    <3>1. /\ i < NCpus /\ i' = i + 1 /\ pc = "cpu" /\ pc' = "cpu"
          /\ i \in perf_fds => data_head[i] = data_tail[i]
          /\ UNCHANGED <<mode, data_tail, due, perf_fds, profiling_active, head, final, child>>
      BY <2>10 DEF SkipCpu, NextCpu
    <3>2. i \in CPUs /\ i \in Nat
      BY <3>1, SpeAssumption DEF TypeOK, CPUs
    <3>3. due[i] <= data_tail[i]
      BY <1>0, <3>1, <3>2 DEF EventInv
    <3>4. \A c \in CPUs : c < i + 1 => c < i \/ c = i
      BY <3>2 DEF CPUs
    <3>5. final' => \A c \in CPUs : c < i' => due'[c] <= data_tail'[c]
      BY <3>1, <3>3, <3>4 DEF DueInv
    <3> QED  BY <3>1, <3>5 DEF DueInv
  <2>11. CASE ReadHead
    <3>1. i \in CPUs
      BY <2>11 DEF ReadHead, TypeOK
    <3> QED  BY <1>0, <2>11, <3>1 DEF ReadHead, DueInv
  <2>12. CASE ReadRecord
    BY <2>12 DEF ReadRecord, DueInv
  <2>13. CASE Acknowledge
    <3>1. /\ i \in CPUs /\ i' = i + 1 /\ pc = "read" /\ pc' = "cpu"
          /\ data_tail' = [data_tail EXCEPT ![i] = head]
          /\ UNCHANGED <<mode, due, profiling_active, final, child>>
      BY <2>13 DEF Acknowledge, TailAfter, NextCpu, ParseInv
    <3>2. /\ data_tail'[i] = head /\ \A c \in CPUs : c # i => data_tail'[c] = data_tail[c]
          /\ \A c \in CPUs : c < i + 1 => c < i \/ c = i
      BY <3>1 DEF TypeOK, CPUs
    <3>3. final' => \A c \in CPUs : c < i' => due'[c] <= data_tail'[c]
      BY <3>1, <3>2 DEF DueInv, CPUs
    <3> QED  BY <3>1, <3>3 DEF DueInv
  <2>14. CASE EndRound
    <3>1. /\ i = NCpus /\ pc = "cpu"
          /\ pc' = IF final THEN "cleanup" ELSE IF mode = "self" THEN "test" ELSE "flag"
          /\ UNCHANGED <<mode, data_tail, due, profiling_active, final, child>>
      BY <2>14 DEF EndRound
    <3>2. \A c \in CPUs : c < NCpus
      BY SpeAssumption DEF CPUs
    <3> QED  BY <3>1, <3>2 DEF DueInv
  <2>15. CASE Cleanup \/ Return
    BY <2>15 DEF Cleanup, Return, DueInv
  <2>16. ASSUME NEW c \in CPUs, NEW n \in Sizes, Puts(c, n)  PROVE DueInv'
    <3>1. UNCHANGED <<mode, data_tail, due, profiling_active, pc, parse, program>>
      BY <2>16, PutStep
    <3> QED  BY <3>1 DEF DueInv
  <2> QED
    BY <2>1, <2>2, <2>3, <2>4, <2>5, <2>6, <2>7, <2>8, <2>9, <2>10, <2>11, <2>12, <2>13, <2>14, <2>15,
       <2>16 DEF Next, Consume, Puts
<1> QED  BY <1>1, <1>2, HeadsMove

-----------------------------------------------------------------------------
(* The file *)

(* The file as far as CPU c goes. *)
FileOk(c) ==
  \A k \in LinesOf(c) :
    \E r \in Samples(c) : Rank(Samples(c), r) = Rank(LinesOf(c), k) /\ IsLineOf(out[k], c, r)

(* With neither new lines nor new samples that were read, nothing changes. *)
LEMMA FileFrame ==
  ASSUME WriteInv, NEW c \in CPUs, Samples(c)' = Samples(c), LinesOf(c)' = LinesOf(c),
         \A k \in LinesOf(c) : out'[k] = out[k],
         \A r \in Samples(c) : log'[c][r] = log[c][r],
         Taken(c)' = Taken(c)
  PROVE  FileOk(c)' /\ Cardinality(LinesOf(c))' = Cardinality(Taken(c))'
<1>1. Cardinality(LinesOf(c))' = Cardinality(Taken(c))'
  BY DEF WriteInv
<1>2. ASSUME NEW k \in LinesOf(c)'
      PROVE  \E r \in Samples(c)' : /\ Rank(Samples(c)', r) = Rank(LinesOf(c)', k)
                                    /\ IsLineOf(out[k], c, r)'
  <2>1. PICK r \in Samples(c) : Rank(Samples(c), r) = Rank(LinesOf(c), k) /\ IsLineOf(out[k], c, r)
    BY <1>2 DEF WriteInv, LinesAreSamples
  <2>2. IsLineOf(out[k], c, r)'
    BY <1>2, <2>1 DEF IsLineOf
  <2> QED  BY <2>1, <2>2
<1> QED  BY <1>1, <1>2 DEF FileOk

(* What was read is in the ring or was given back: it is before data_head. *)
LEMMA ParsedBeforeHead ==
  ASSUME TypeOK, ParseInv, NEW c \in CPUs
  PROVE  Parsed(c) \in Nat /\ data_tail[c] <= Parsed(c) /\ Parsed(c) <= data_head[c]
BY DEF Parsed, TypeOK, ParseInv

LEMMA PutWriteInv ==
  ASSUME TypeOK, LogInv, ParseInv, WriteInv, NEW c \in CPUs, NEW n \in Sizes, Puts(c, n)
  PROVE  WriteInv'
<1>0. PICK R \in Nat : R = Len(log[c]) + 1
  BY RecordType
<1>1. /\ n \in 1..BUF_SIZE
      /\ DOMAIN log'[c] = DOMAIN log[c] \cup {R} /\ R \notin DOMAIN log[c]
      /\ \A r \in DOMAIN log[c] : log'[c][r] = log[c][r] /\ r < R
      /\ log'[c][R].at = data_head[c] /\ log'[c][R].size = n
      /\ \A d \in CPUs \ {c} : log'[d] = log[d] /\ data_head'[d] = data_head[d]
      /\ UNCHANGED <<data_tail, out, pc, i, head, tail, consumed>>
  BY <1>0, PutStep DEF parse
<1>2. ASSUME NEW d \in CPUs  PROVE Parsed(d)' = Parsed(d) /\ LinesOf(d)' = LinesOf(d)
  BY <1>1 DEF Parsed, LinesOf
<1>3. ASSUME NEW d \in CPUs \ {c}
      PROVE  FileOk(d)' /\ Cardinality(LinesOf(d))' = Cardinality(Taken(d))'
  <2>1. Samples(d)' = Samples(d) /\ LinesOf(d)' = LinesOf(d) /\ Parsed(d)' = Parsed(d)
    BY <1>1, <1>2 DEF Samples
  <2>2. \A r : EndOf(d, r)' = EndOf(d, r)
    BY <1>1 DEF EndOf
  <2>3. Taken(d)' = Taken(d)
    BY <2>1, <2>2 DEF Taken
  <2>4. /\ \A k \in LinesOf(d) : out'[k] = out[k]
        /\ \A r \in Samples(d) : log'[d][r] = log[d][r]
    BY <1>1
  <2> QED  BY <2>1, <2>3, <2>4, FileFrame
<1>4. FileOk(c)' /\ Cardinality(LinesOf(c))' = Cardinality(Taken(c))'
  <2>1. /\ Samples(c) \subseteq Samples(c)' /\ Samples(c)' \subseteq Samples(c) \cup {R}
        /\ \A r \in Samples(c) : r \in DOMAIN log[c] /\ r < R /\ r \in Nat
    BY <1>1, RecordType DEF Samples
  <2>2. /\ \A r \in DOMAIN log[c] : EndOf(c, r)' = EndOf(c, r) /\ EndOf(c, r) \in Nat
        /\ EndOf(c, R)' = data_head[c] + n /\ data_head[c] \in Nat
    BY <1>1, RecordType DEF EndOf, TypeOK
  <2>3. Parsed(c)' = Parsed(c) /\ Parsed(c) \in Nat /\ Parsed(c) <= data_head[c]
    BY <1>2, ParsedBeforeHead
  <2>4. Taken(c)' = Taken(c)
    <3>1. ~(EndOf(c, R)' <= Parsed(c)')
      BY <1>1, <2>2, <2>3
    <3> QED  BY <2>1, <2>2, <2>3, <3>1 DEF Taken
  <2>5. LinesOf(c)' = LinesOf(c)
    BY <1>2
  <2>6. Cardinality(LinesOf(c))' = Cardinality(Taken(c))'
    BY <2>4, <2>5 DEF WriteInv
  <2>7. ASSUME NEW k \in LinesOf(c)'
        PROVE  \E r \in Samples(c)' : /\ Rank(Samples(c)', r) = Rank(LinesOf(c)', k)
                                      /\ IsLineOf(out[k], c, r)'
    <3>1. PICK r \in Samples(c) : Rank(Samples(c), r) = Rank(LinesOf(c), k) /\ IsLineOf(out[k], c, r)
      BY <2>5, <2>7 DEF WriteInv, LinesAreSamples
    <3>2. IsLineOf(out[k], c, r)'
      BY <1>1, <2>1, <3>1 DEF IsLineOf
    <3>3. {m \in Samples(c)' : m <= r} = {m \in Samples(c) : m <= r}
      BY <2>1, <3>1
    <3>4. Rank(Samples(c)', r) = Rank(Samples(c), r)
      BY <3>3 DEF Rank
    <3> QED  BY <2>1, <2>5, <3>1, <3>2, <3>4
  <2> QED  BY <2>6, <2>7 DEF FileOk
<1>5. \A d \in CPUs : FileOk(d)' /\ Cardinality(LinesOf(d))' = Cardinality(Taken(d))'
  BY <1>3, <1>4
<1> QED  BY <1>5 DEF FileOk, WriteInv, LinesAreSamples

(* A step that writes nothing. *)
LEMMA ParsedKept ==
  ASSUME TypeOK, LogInv, RingInv, ParseInv, ModeInv, [Next]_vars, ~ReadRecord,
         \A c \in CPUs, n \in Sizes : ~Puts(c, n)
  PROVE  UNCHANGED <<log, out>> /\ \A c \in CPUs : Parsed(c)' = Parsed(c)
<1> USE DEF kernel, events, parse, program, Goto
<1>0. ASSUME UNCHANGED <<pc, i, tail, consumed, data_tail>>  PROVE \A c \in CPUs : Parsed(c)' = Parsed(c)
  BY <1>0 DEF Parsed
<1>1. ASSUME pc # "read", pc' # "read", UNCHANGED data_tail
      PROVE  \A c \in CPUs : Parsed(c)' = Parsed(c)
  BY <1>1 DEF Parsed
<1>2. UNCHANGED <<log, out>>
  BY DEF Next, Puts, ChildStops, ChildContinues, ChildExits, ChildSignals, Skip, spe_profile_start,
     spe_profile_stop, Join, JoinNothing, Consume, Fork, OpenOwnEvents, OpenChildEvents, Enable,
     Test, SkipCpu, ReadHead, Acknowledge, EndRound, ReadFlag, Wait, Poll, Cleanup, Return,
     BeginRound, vars
<1>3. CASE UNCHANGED vars
  BY <1>0, <1>2, <1>3 DEF vars
<1>4. CASE ChildStops \/ ChildContinues \/ ChildExits \/ Skip \/ spe_profile_stop \/ Join
             \/ JoinNothing
  BY <1>0, <1>2, <1>4 DEF ChildStops, ChildContinues, ChildExits, ChildSignals, Skip,
     spe_profile_stop, Join, JoinNothing
<1>5. CASE spe_profile_start
  <2>1. pc = "none" /\ pc' \in {"none", "open"} /\ UNCHANGED data_tail
    BY <1>5 DEF spe_profile_start, ModeInv
  <2> QED  BY <1>1, <1>2, <2>1
<1>6. CASE ReadHead
  <2>1. /\ i' = i /\ tail' = data_tail[i] /\ consumed' = 0 /\ UNCHANGED data_tail /\ pc # "read"
        /\ i \in CPUs
    BY <1>6 DEF ReadHead, TypeOK
  <2>2. data_tail[i] \in Nat
    BY <2>1 DEF TypeOK
  <2> QED  BY <1>2, <2>1, <2>2 DEF Parsed
<1>7. CASE Acknowledge
  <2>1. /\ i \in CPUs /\ pc = "read" /\ pc' = "cpu" /\ tail + consumed >= head
        /\ data_tail' = [data_tail EXCEPT ![i] = head] /\ tail + consumed <= head
    BY <1>7 DEF Acknowledge, TailAfter, ParseInv
  <2>2. tail + consumed = head
    <3>1. tail \in Nat /\ consumed \in Nat /\ head \in Nat
      BY DEF TypeOK
    <3> QED  BY <2>1, <3>1
  <2>3. data_tail'[i] = head /\ \A c \in CPUs : c # i => data_tail'[c] = data_tail[c]
    BY <2>1 DEF TypeOK
  <2> QED  BY <1>2, <2>1, <2>2, <2>3 DEF Parsed
<1>8. CASE Consume /\ ~ReadHead /\ ~Acknowledge
  <2>1. pc # "read" /\ pc' # "read" /\ UNCHANGED data_tail
    BY <1>8 DEF Consume, Fork, OpenOwnEvents, OpenChildEvents, Enable, Test, SkipCpu,
       EndRound, ReadFlag, Wait, Poll, Cleanup, Return, BeginRound
  <2> QED  BY <1>1, <1>2, <2>1
<1> QED  BY <1>3, <1>4, <1>5, <1>6, <1>7, <1>8 DEF Next, Puts

(* A record is read: a sample gets a line. *)
LEMMA ReadWriteInv ==
  ASSUME TypeOK, LogInv, RingInv, ParseInv, WriteInv, ReadRecord
  PROVE  WriteInv'
<1>1. PICK I \in CPUs : I = i
  BY DEF ReadRecord, ParseInv, Goto
<1>2. PICK r \in DOMAIN log[I] :
        /\ pc = "read" /\ pc' = "read" /\ log[I][r].at = tail + consumed
        /\ UNCHANGED <<kernel, data_tail, i, head, tail>>
        /\ \/ /\ log[I][r].sample
              /\ \E x \in Lines : /\ out' = Append(out, x) /\ x.cpu = I /\ IsLineOf(x, I, r)
              /\ consumed' = consumed + log[I][r].size
           \/ /\ ~log[I][r].sample /\ out' = out
              /\ consumed' = consumed + log[I][r].size
           \/ UNCHANGED <<out, consumed>>
  BY <1>1, ReadStep
<1>3. UNCHANGED <<ring, data_head, log, data_tail, i, head, tail>> /\ pc' = pc
  BY <1>2 DEF kernel
<1>4. \A d \in CPUs : Samples(d)' = Samples(d) /\ \A m : EndOf(d, m)' = EndOf(d, m)
  BY <1>3 DEF Samples, EndOf
<1>5. \A d \in CPUs \ {I} : Taken(d)' = Taken(d)
  <2>1. \A d \in CPUs \ {I} : Parsed(d)' = Parsed(d)
    BY <1>1, <1>3 DEF Parsed
  <2> QED  BY <1>4, <2>1 DEF Taken
<1>6. CASE UNCHANGED out /\ Taken(I)' = Taken(I)
  <2>1. ASSUME NEW d \in CPUs  PROVE FileOk(d)' /\ Cardinality(LinesOf(d))' = Cardinality(Taken(d))'
    <3>1. LinesOf(d)' = LinesOf(d) /\ Taken(d)' = Taken(d) /\ Samples(d)' = Samples(d)
      BY <1>4, <1>5, <1>6 DEF LinesOf
    <3> QED  BY <1>3, <1>6, <3>1, FileFrame
  <2> QED  BY <2>1 DEF FileOk, WriteInv, LinesAreSamples
<1>7. CASE UNCHANGED <<out, consumed>>
  <2>1. Parsed(I)' = Parsed(I)
    BY <1>3, <1>7 DEF Parsed
  <2>2. Taken(I)' = Taken(I)
    BY <1>4, <2>1 DEF Taken
  <2> QED  BY <1>6, <1>7, <2>2
<1>8. ASSUME consumed' = consumed + log[I][r].size
      PROVE  /\ Taken(I)' = {m \in Samples(I) : m <= r}
             /\ Taken(I) = {m \in Samples(I) : m < r}
  <2>1. /\ tail \in Nat /\ consumed \in Nat /\ log[I][r].size \in 1..BUF_SIZE
        /\ log[I][r].at \in Nat
    BY RecordType DEF TypeOK
  <2>2. Parsed(I) = log[I][r].at /\ Parsed(I)' = EndOf(I, r)
    BY <1>1, <1>2, <1>3, <1>8, <2>1 DEF Parsed, EndOf
  <2>3. \A m \in Samples(I) : /\ m <= r <=> EndOf(I, m) <= EndOf(I, r)
                              /\ m < r <=> EndOf(I, m) <= log[I][r].at
    BY EarlierRecord DEF Samples
  <2> QED  BY <1>4, <2>2, <2>3 DEF Taken
<1>9. ASSUME ~log[I][r].sample, out' = out, consumed' = consumed + log[I][r].size
      PROVE  WriteInv'
  <2>1. r \notin Samples(I) /\ Samples(I) \subseteq Nat /\ r \in Nat
    BY <1>9, RecordType DEF Samples
  <2>2. Taken(I)' = Taken(I)
    BY <1>8, <1>9, <2>1
  <2> QED  BY <1>6, <1>9, <2>2
<1>10. ASSUME log[I][r].sample, consumed' = consumed + log[I][r].size,
              NEW x \in Lines, out' = Append(out, x), x.cpu = I, IsLineOf(x, I, r)
       PROVE  WriteInv'
  <2>0. PICK K \in Nat : K = Len(out) + 1
    BY SetsAreFinite
  <2>1. out \in Seq(Lines) /\ DOMAIN out = 1..Len(out) /\ Len(out) \in Nat
    BY SetsAreFinite DEF TypeOK
  <2>2. /\ DOMAIN out' = DOMAIN out \cup {K} /\ out'[K] = x
        /\ \A k \in DOMAIN out : out'[k] = out[k] /\ k < K /\ k \in Nat
    <3>1. /\ Append(out, x) \in Seq(Lines) /\ Len(Append(out, x)) = Len(out) + 1
          /\ \A k \in 1..Len(out) : Append(out, x)[k] = out[k]
          /\ Append(out, x)[Len(out) + 1] = x
      BY <2>1, AppendProperties
    <3>2. DOMAIN out' = 1..K
      BY <1>10, <2>0, <3>1, LenProperties
    <3>3. 1..K = (1..Len(out)) \cup {K} /\ \A k \in 1..Len(out) : k < K /\ k \in Nat
      BY <2>0, <2>1
    <3> QED  BY <1>10, <2>0, <2>1, <3>1, <3>2, <3>3
  <2>3. K \notin DOMAIN out
    BY <2>2
  <2>4. LinesOf(I)' = LinesOf(I) \cup {K} /\ K \notin LinesOf(I)
    BY <1>10, <2>2, <2>3 DEF LinesOf
  <2>5. \A d \in CPUs \ {I} : LinesOf(d)' = LinesOf(d)
    BY <1>10, <2>2, <2>3 DEF LinesOf
  <2>6. r \in Samples(I) /\ Samples(I) \subseteq Nat /\ r \in Nat
    BY <1>10, RecordType DEF Samples
  <2>7. Taken(I)' = Taken(I) \cup {r} /\ r \notin Taken(I)
    BY <1>8, <1>10, <2>6
  <2>8. Cardinality(LinesOf(I))' = Cardinality(Taken(I))'
    <3>1. /\ IsFiniteSet(LinesOf(I)) /\ IsFiniteSet(Taken(I))
          /\ Cardinality(LinesOf(I)) = Cardinality(Taken(I))
      BY SetsAreFinite DEF WriteInv
    <3>2. Cardinality(LinesOf(I) \cup {K}) = Cardinality(LinesOf(I)) + 1
      BY <2>4, <3>1, FS_AddElement
    <3>3. Cardinality(Taken(I) \cup {r}) = Cardinality(Taken(I)) + 1
      BY <2>7, <3>1, FS_AddElement
    <3> QED  BY <2>4, <2>7, <3>1, <3>2, <3>3
  <2>9. ASSUME NEW k \in LinesOf(I)'
        PROVE  \E s \in Samples(I)' : /\ Rank(Samples(I)', s) = Rank(LinesOf(I)', k)
                                      /\ IsLineOf(out[k], I, s)'
    <3>1. CASE k = K
      <4>1. IsLineOf(out[k], I, r)'
        BY <1>3, <1>10, <2>2, <3>1 DEF IsLineOf
      <4>2. {m \in LinesOf(I)' : m <= K} = LinesOf(I)'
        BY <2>2, <2>4 DEF LinesOf
      <4>3. {m \in Samples(I)' : m <= r} = Taken(I)'
        BY <1>4, <1>8, <1>10
      <4>4. Rank(Samples(I)', r) = Rank(LinesOf(I)', k)
        BY <2>8, <3>1, <4>2, <4>3 DEF Rank
      <4> QED  BY <1>4, <2>6, <4>1, <4>4
    <3>2. CASE k \in LinesOf(I)
      <4>1. PICK s \in Samples(I) : Rank(Samples(I), s) = Rank(LinesOf(I), k) /\ IsLineOf(out[k], I, s)
        BY <3>2 DEF WriteInv, LinesAreSamples
      <4>2. k \in DOMAIN out
        BY <3>2 DEF LinesOf
      <4>3. IsLineOf(out[k], I, s)'
        BY <1>3, <2>2, <4>1, <4>2 DEF IsLineOf
      <4>4. {m \in LinesOf(I)' : m <= k} = {m \in LinesOf(I) : m <= k}
        BY <2>2, <2>4, <4>2
      <4>5. Rank(LinesOf(I)', k) = Rank(LinesOf(I), k)
        BY <4>4 DEF Rank
      <4> QED  BY <1>4, <4>1, <4>3, <4>5
    <3> QED  BY <2>4, <3>1, <3>2
  <2>10. FileOk(I)'
    BY <2>9 DEF FileOk
  <2>11. ASSUME NEW d \in CPUs \ {I}
         PROVE  FileOk(d)' /\ Cardinality(LinesOf(d))' = Cardinality(Taken(d))'
    <3>1. LinesOf(d)' = LinesOf(d) /\ Taken(d)' = Taken(d) /\ Samples(d)' = Samples(d)
      BY <1>4, <1>5, <2>5
    <3>2. \A k \in LinesOf(d) : out'[k] = out[k]
      BY <2>2 DEF LinesOf
    <3> QED  BY <1>3, <3>1, <3>2, FileFrame
  <2>12. \A d \in CPUs : FileOk(d)' /\ Cardinality(LinesOf(d))' = Cardinality(Taken(d))'
    BY <2>8, <2>10, <2>11
  <2> QED  BY <2>12 DEF FileOk, WriteInv, LinesAreSamples
<1> QED  BY <1>2, <1>7, <1>9, <1>10

LEMMA NextWriteInv ==
  ASSUME TypeOK, LogInv, RingInv, ParseInv, WriteInv, ModeInv, [Next]_vars
  PROVE  WriteInv'
<1>1. ASSUME NEW c \in CPUs, NEW n \in Sizes, Puts(c, n)  PROVE WriteInv'
  BY <1>1, PutWriteInv
<1>2. CASE ReadRecord
  BY <1>2, ReadWriteInv
<1>3. CASE ~ReadRecord /\ \A c \in CPUs, n \in Sizes : ~Puts(c, n)
  <2>1. UNCHANGED <<log, out>> /\ \A c \in CPUs : Parsed(c)' = Parsed(c)
    BY <1>3, ParsedKept
  <2>2. ASSUME NEW d \in CPUs  PROVE FileOk(d)' /\ Cardinality(LinesOf(d))' = Cardinality(Taken(d))'
    <3>1. LinesOf(d)' = LinesOf(d) /\ Samples(d)' = Samples(d) /\ Parsed(d)' = Parsed(d)
      BY <2>1 DEF LinesOf, Samples
    <3>2. \A m : EndOf(d, m)' = EndOf(d, m)
      BY <2>1 DEF EndOf
    <3>3. Taken(d)' = Taken(d)
      BY <3>1, <3>2 DEF Taken
    <3> QED  BY <2>1, <3>1, <3>3, FileFrame
  <2> QED  BY <2>2 DEF FileOk, WriteInv, LinesAreSamples
<1> QED  BY <1>1, <1>2, <1>3

-----------------------------------------------------------------------------
(* The theorems *)

LEMMA InitInv == Init => Inv
<1> SUFFICES ASSUME Init  PROVE Inv
  OBVIOUS
<1> USE DEF Init
<1>1. /\ BUF_SIZE \in Nat \ {0} /\ NCpus \in Nat
  BY SpeAssumption
<1>2. /\ \A c \in CPUs : data_head[c] = 0 /\ data_tail[c] = 0 /\ due[c] = 0 /\ log[c] = <<>>
      /\ out = <<>> /\ pc \in {"none", "fork"}
      /\ \A c \in CPUs : DOMAIN log[c] = {}
      /\ DOMAIN out = {}
  OBVIOUS
<1>3. TypeOK
  <2>1. \A c \in CPUs : /\ data_tail[c] <= data_head[c] /\ due[c] <= data_head[c]
                        /\ data_head[c] <= data_tail[c] + BUF_SIZE
    BY <1>1
  <2>2. /\ data_head \in [CPUs -> Nat] /\ data_tail \in [CPUs -> Nat] /\ due \in [CPUs -> Nat]
    OBVIOUS
  <2>3. log \in [CPUs -> Seq(Records)] /\ out \in Seq(Lines)
    OBVIOUS
  <2>4. ring \in [CPUs -> [0..BUF_SIZE-1 -> Units \cup {Nil}]]
    OBVIOUS
  <2>5. /\ mode \in {"self", "wrapper"} /\ pc \in {"none", "fork"} /\ app \in {"none", "init"}
        /\ child = "none" /\ child_exited = FALSE /\ proc = "running" /\ final = FALSE
        /\ profiling_active = FALSE /\ output_file = FALSE /\ enabled = {} /\ perf_fds = {}
        /\ i = 0 /\ head = 0 /\ tail = 0 /\ consumed = 0 /\ i \in 0..NCpus
    BY <1>1
  <2> HIDE DEF Init
  <2>6. pc \in {"none", "fork", "open", "enable", "test", "cpu", "read", "flag", "wait", "poll",
                "cleanup", "done"}
    BY <2>5
  <2>7. {profiling_active, output_file, final, child_exited} \subseteq BOOLEAN
    BY Zenon DEF Init
  <2>10. i \in 0..NCpus /\ {head, tail, consumed} \subseteq Nat
    BY <2>5
  <2>8. {data_head, data_tail, due} \subseteq [CPUs -> Nat]
    BY <2>2
  <2>9. enabled \subseteq perf_fds /\ perf_fds \subseteq CPUs
    BY <2>5
  <2> QED  BY <2>1, <2>3, <2>4, <2>5, <2>6, <2>7, <2>8, <2>9, <2>10 DEF TypeOK
<1>4. LogInv /\ RingInv /\ ParseInv
  BY <1>2 DEF LogInv, RingInv, ParseInv, Boundary
<1>5. EventInv /\ ModeInv
  BY <1>2 DEF EventInv, ModeInv
<1>6. DueInv
  BY <1>2 DEF DueInv
<1>7. WriteInv
  BY <1>2 DEF WriteInv, LinesAreSamples, LinesOf, Taken, Samples
<1> QED  BY <1>3, <1>4, <1>5, <1>6, <1>7 DEF Inv

LEMMA NextInv == Inv /\ [Next]_vars => Inv'
<1> SUFFICES ASSUME Inv, [Next]_vars  PROVE Inv'
  OBVIOUS
<1>1. TypeOK /\ LogInv /\ RingInv /\ ParseInv /\ WriteInv /\ EventInv /\ ModeInv /\ DueInv
  BY DEF Inv
<1> QED
  BY <1>1, NextTypeOK, NextRings, NextParseInv, NextWriteInv, NextEventInv, NextModeInv, NextDueInv
  DEF Inv

(* The inductive invariant holds: records stay in the rings until they were *)
(* read, and the file has a line for each sample that was.                 *)
THEOREM InvHolds == Spec => []Inv
BY InitInv, NextInv, PTL DEF Spec

(* All variables keep their types, the file that of a list of lines, and   *)
(* the ring is never fuller than it is long: data_tail follows data_head.  *)
THEOREM TypeCorrect == Spec => []TypeOK
<1>1. Inv => TypeOK
  BY DEF Inv
<1> QED  BY <1>1, InvHolds, PTL

(* The file has the samples of each CPU in order, each once, and no byte of *)
(* another record, however often the kernel goes around the ring.          *)
THEOREM FileMatchesRings == Spec => []LinesAreSamples
<1>1. Inv => LinesAreSamples
  BY DEF Inv, WriteInv
<1> QED  BY <1>1, InvHolds, PTL

(* What was read has its lines. *)
LEMMA ParsedIsWritten ==
  ASSUME Inv, NEW c \in CPUs, NEW p \in Nat, p <= Parsed(c)
  PROVE  WrittenUpTo(c, p)
<1>0. TypeOK /\ LogInv /\ ParseInv /\ WriteInv
  BY DEF Inv
<1>1. SUFFICES ASSUME NEW r \in Samples(c), EndOf(c, r) <= p
               PROVE  Rank(Samples(c), r) <= Cardinality(LinesOf(c))
  BY DEF WrittenUpTo
<1>2. \A m \in Samples(c) : EndOf(c, m) \in Nat /\ (m <= r <=> EndOf(c, m) <= EndOf(c, r))
  BY <1>0, EarlierRecord, RecordType DEF Samples
<1>3. Parsed(c) \in Nat
  BY <1>0, ParsedBeforeHead
<1>4. {m \in Samples(c) : m <= r} \subseteq Taken(c)
  BY <1>1, <1>2, <1>3 DEF Taken
<1>5. IsFiniteSet(Taken(c))
  BY <1>0, SetsAreFinite
<1>6. Cardinality({m \in Samples(c) : m <= r}) <= Cardinality(Taken(c))
  BY <1>4, <1>5, FS_Subset
<1> QED  BY <1>0, <1>6 DEF Rank, WriteInv

(* Room goes back to the kernel only after what it held was written, and   *)
(* when spe_profile_stop or the wrapper returns all that was in the rings  *)
(* when the program stopped is in the file, on every CPU.                  *)
THEOREM NothingSkipped == Spec => []NoSampleSkipped
<1>1. Inv => NoSampleSkipped
  <2> SUFFICES ASSUME Inv, NEW c \in CPUs
               PROVE  /\ WrittenUpTo(c, data_tail[c])
                      /\ app = "ended" \/ pc = "done" => WrittenUpTo(c, due[c])
    BY DEF NoSampleSkipped
  <2>0. TypeOK /\ ParseInv /\ EventInv /\ ModeInv /\ DueInv
    BY DEF Inv
  <2>1. /\ data_tail[c] \in Nat /\ due[c] \in Nat /\ data_head[c] \in Nat /\ due[c] <= data_head[c]
    BY <2>0 DEF TypeOK
  <2>2. Parsed(c) \in Nat /\ data_tail[c] <= Parsed(c)
    BY <2>0, ParsedBeforeHead
  <2>3. WrittenUpTo(c, data_tail[c])
    BY <2>1, <2>2, ParsedIsWritten
  <2>4. ASSUME app = "ended" \/ pc = "done"  PROVE due[c] <= data_tail[c]
    <3>1. CASE pc = "done"
      BY <2>0, <3>1 DEF DueInv
    <3>2. CASE pc = "none"
      BY <2>0, <2>1, <3>2 DEF EventInv
    <3> QED  BY <2>0, <2>4, <3>1, <3>2 DEF ModeInv
  <2>5. ASSUME app = "ended" \/ pc = "done"  PROVE WrittenUpTo(c, due[c])
    BY <2>1, <2>2, <2>4, <2>5, ParsedIsWritten
  <2> QED  BY <2>3, <2>5
<1> QED  BY <1>1, InvHolds, PTL

=============================================================================
