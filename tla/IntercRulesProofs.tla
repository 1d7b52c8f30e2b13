-------------------------- MODULE IntercRulesProofs --------------------------
(***************************************************************************)
(* Proofs about the routing rules (IntercRules), for any number of threads *)
(* and lines and any file: no thread consults a table that is being        *)
(* filled, and each is sent where the lines say that are read as meant.    *)
(***************************************************************************)
EXTENDS IntercRules, SequenceTheorems, FiniteSetTheorems, WellFoundedInduction, TLAPS

-----------------------------------------------------------------------------
(* Tables and the lines they come from. *)

(* What load_rules makes of a line with an address range or a size range.  *)
RuleOf(l) ==
  IF l.kind = "addr" THEN [start |-> l.lo, end |-> l.hi, node |-> NodeOf(l.node)]
  ELSE SizeRule(l)

OfKind(file, kind, k) == {q \in 1..k : file[q].kind = kind}

(* The first cap lines of a kind among the first k of a file. *)
First(file, kind, cap, k) ==
  {p \in 1..k : file[p].kind = kind /\ Cardinality(OfKind(file, kind, p)) <= cap}

(* The table has the rules of these lines, in their order, and its length  *)
(* tells how many lines of the kind there were, up to its capacity.        *)
FilledFrom(table, file, kind, cap, k) ==
  /\ table = [i \in 1..Len(table) |-> table[i]] /\ Len(table) \in 0..cap
  /\ \/ Len(table) = Cardinality(OfKind(file, kind, k))
     \/ Len(table) = cap /\ cap <= Cardinality(OfKind(file, kind, k))
  /\ \E at \in [1..Len(table) -> 1..k] :
       /\ \A i, j \in 1..Len(table) : i < j => at[i] < at[j]
       /\ \A i \in 1..Len(table) : /\ at[i] \in First(file, kind, cap, k)
                                   /\ table[i] = RuleOf(file[at[i]])
       /\ \A p \in First(file, kind, cap, k) : \E i \in 1..Len(table) : at[i] = p

LEMMA LeastNatural ==
  ASSUME NEW T \in SUBSET Nat, T # {}
  PROVE  \E m \in T : \A n \in T : m <= n
<1>1. \E m \in T : \A n \in T : <<n, m>> \notin OpToRel(<, Nat)
  BY NatLessThanWellFounded, WFMin
<1>2. \A m, n \in Nat : <<n, m>> \in OpToRel(<, Nat) <=> n < m
  BY DEF OpToRel
<1>3. \E m \in T : \A n \in T : ~(n < m)
  BY <1>1, <1>2, Zenon
<1> QED BY <1>3

LEMMA LeastIsMin ==
  ASSUME NEW S \in SUBSET Nat, S # {}
  PROVE  Min(S) \in S /\ \A k \in S : Min(S) <= k
BY LeastNatural DEF Min

LEMMA OfKindNext ==
  ASSUME NEW file, NEW kind, NEW k \in Nat
  PROVE  /\ Cardinality(OfKind(file, kind, k)) \in Nat
         /\ file[k+1].kind = kind =>
              Cardinality(OfKind(file, kind, k+1)) = Cardinality(OfKind(file, kind, k)) + 1
         /\ file[k+1].kind # kind => OfKind(file, kind, k+1) = OfKind(file, kind, k)
<1>1. IsFiniteSet(OfKind(file, kind, k)) /\ Cardinality(OfKind(file, kind, k)) \in Nat
  <2>1. IsFiniteSet(1..k)
    BY FS_Interval
  <2>2. OfKind(file, kind, k) \subseteq 1..k
    BY DEF OfKind
  <2> QED  BY <2>1, <2>2, FS_Subset, FS_CardinalityType
<1>2. \A q \in 1..k+1 : q \in 1..k \/ q = k+1
  OBVIOUS
<1>3. k+1 \notin OfKind(file, kind, k)
  BY DEF OfKind
<1>4. CASE file[k+1].kind = kind
  <2>1. OfKind(file, kind, k+1) = OfKind(file, kind, k) \cup {k+1}
    BY <1>2, <1>4 DEF OfKind
  <2> QED  BY <1>1, <1>3, <1>4, <2>1, FS_AddElement
<1>5. CASE file[k+1].kind # kind
  BY <1>1, <1>2, <1>5 DEF OfKind
<1> QED  BY <1>4, <1>5

LEMMA FilledNone ==
  ASSUME NEW file, NEW kind, NEW cap \in Nat
  PROVE  FilledFrom(<<>>, file, kind, cap, 0)
<1>1. OfKind(file, kind, 0) = {} /\ First(file, kind, cap, 0) = {}
  BY DEF OfKind, First
<1>2. Cardinality({}) = 0
  BY FS_EmptySet
<1>3. Len(<<>>) = 0 /\ <<>> = [i \in 1..0 |-> <<>>[i]] /\ Len(<<>>) \in 0..cap
  OBVIOUS
<1>4. \E at \in [1..0 -> 1..0] : TRUE
  <2>1. [i \in 1..0 |-> 0] \in [1..0 -> 1..0]
    OBVIOUS
  <2> QED  BY <2>1
<1>5. \A i : i \notin 1..0
  OBVIOUS
<1> QED  BY <1>1, <1>2, <1>3, <1>4, <1>5 DEF FilledFrom

(* A line that adds no rule of the kind. *)
LEMMA FilledSkip ==
  ASSUME NEW table, NEW file, NEW kind, NEW cap \in Nat, NEW k \in Nat,
         FilledFrom(table, file, kind, cap, k),
         file[k+1].kind = kind => Len(table) = cap
  PROVE  FilledFrom(table, file, kind, cap, k+1)
<1> DEFINE n == Cardinality(OfKind(file, kind, k))
           n1 == Cardinality(OfKind(file, kind, k+1))
<1>1. /\ n \in Nat
      /\ file[k+1].kind = kind => n1 = n + 1
      /\ file[k+1].kind # kind => n1 = n
  BY OfKindNext
<1>2. /\ Len(table) = n \/ (Len(table) = cap /\ cap <= n)
      /\ Len(table) \in 0..cap
  BY DEF FilledFrom
<1> HIDE DEF n, n1
<1>3. Len(table) = n1 \/ (Len(table) = cap /\ cap <= n1)
  BY <1>1, <1>2
<1>4. First(file, kind, cap, k+1) = First(file, kind, cap, k)
  <2>1. \A q \in 1..k+1 : q \in 1..k \/ q = k+1
    OBVIOUS
  <2>2. file[k+1].kind = kind => ~(n1 <= cap)
    BY <1>1, <1>2
  <2>3. k+1 \notin First(file, kind, cap, k+1)
    BY <2>2 DEF First, n1
  <2> QED  BY <2>1, <2>3 DEF First
<1>5. 1..k \subseteq 1..k+1
  OBVIOUS
<1> QED  BY <1>3, <1>4, <1>5 DEF FilledFrom, n1

(* A line whose rule is appended. *)
LEMMA FilledAppend ==
  ASSUME NEW table, NEW file, NEW kind, NEW cap \in Nat, NEW k \in Nat,
         FilledFrom(table, file, kind, cap, k), file[k+1].kind = kind, Len(table) < cap
  PROVE  FilledFrom(Append(table, RuleOf(file[k+1])), file, kind, cap, k+1)
<1> DEFINE n == Len(table)
           new == Append(table, RuleOf(file[k+1]))
<1>1. n \in Nat /\ table = [i \in 1..n |-> table[i]]
  BY DEF FilledFrom
<1>2. new = [i \in 1..n+1 |-> IF i = n+1 THEN RuleOf(file[k+1]) ELSE table[i]] /\ Len(new) = n+1
  <2> DEFINE e == RuleOf(file[k+1])
             S == {table[i] : i \in 1..n} \cup {e}
  <2>1. table \in Seq(S) /\ e \in S
    <3> HIDE DEF e
    <3> QED  BY <1>1
  <2> HIDE DEF e, S, n
  <2>2. Append(table, e) \in Seq(S) /\ Len(Append(table, e)) = Len(table) + 1
        /\ \A i \in 1..Len(table) : Append(table, e)[i] = table[i]
        /\ Append(table, e)[Len(table) + 1] = e
    BY <2>1, AppendProperties
  <2>3. \A i \in 1..n+1 : i # n+1 => i \in 1..n
    BY <1>1
  <2>4. Append(table, e) = [i \in 1..n+1 |-> IF i = n+1 THEN e ELSE table[i]]
    <3>1. Append(table, e) = [i \in 1..n+1 |-> Append(table, e)[i]]
      BY <2>2, LenProperties DEF n
    <3> QED  BY <2>2, <2>3, <3>1 DEF n
  <2> QED  BY <2>2, <2>4 DEF e, n
<1>3. new[n+1] = RuleOf(file[k+1]) /\ \A i \in 1..n : new[i] = table[i]
  <2> HIDE DEF new
  <2> QED  BY <1>1, <1>2
<1>4. new = [i \in 1..Len(new) |-> new[i]]
  <2> HIDE DEF new
  <2> QED  BY <1>2
<1> HIDE DEF new
<1>5. /\ Cardinality(OfKind(file, kind, k)) = n
      /\ Cardinality(OfKind(file, kind, k+1)) = n + 1
  BY OfKindNext DEF FilledFrom
<1>6. PICK at \in [1..n -> 1..k] :
        /\ \A i, j \in 1..n : i < j => at[i] < at[j]
        /\ \A i \in 1..n : at[i] \in First(file, kind, cap, k) /\ table[i] = RuleOf(file[at[i]])
        /\ \A p \in First(file, kind, cap, k) : \E i \in 1..n : at[i] = p
  BY DEF FilledFrom
<1> DEFINE to == [i \in 1..n+1 |-> IF i = n+1 THEN k+1 ELSE at[i]]
<1>7. /\ to \in [1..n+1 -> 1..k+1] /\ to[n+1] = k+1
      /\ \A i \in 1..n : to[i] = at[i] /\ to[i] \in 1..k
  BY <1>1, <1>6
<1> HIDE DEF to, n
<1>8. \A i \in 1..n+1 : i = n+1 \/ i \in 1..n
  BY <1>1
<1>9. \A i, j \in 1..n+1 : i < j => to[i] < to[j]
  <2> SUFFICES ASSUME NEW i \in 1..n+1, NEW j \in 1..n+1, i < j  PROVE to[i] < to[j]
    OBVIOUS
  <2>1. i \in 1..n
    BY <1>1, <1>8
  <2> QED  BY <1>6, <1>7, <1>8, <2>1
<1>10. First(file, kind, cap, k+1) = First(file, kind, cap, k) \cup {k+1}
  <2>1. \A q \in 1..k+1 : q \in 1..k \/ q = k+1
    OBVIOUS
  <2>2. k+1 \in First(file, kind, cap, k+1)
    BY <1>1, <1>5 DEF First, n
  <2> QED  BY <2>1, <2>2 DEF First
<1>11. \A i \in 1..n+1 : to[i] \in First(file, kind, cap, k+1) /\ new[i] = RuleOf(file[to[i]])
  BY <1>3, <1>6, <1>7, <1>8, <1>10
<1>12. \A p \in First(file, kind, cap, k+1) : \E i \in 1..n+1 : to[i] = p
  <2>1. n+1 \in 1..n+1 /\ \A i \in 1..n : i \in 1..n+1
    BY <1>1
  <2> QED  BY <1>6, <1>7, <1>10, <2>1
<1>13. n+1 \in 0..cap
  BY <1>1 DEF n
<1>14. Len(new) = n+1
  BY <1>2
<1>15. Len(new) = Cardinality(OfKind(file, kind, k+1))
  BY <1>5, <1>14
<1>16. /\ to \in [1..Len(new) -> 1..k+1]
       /\ \A i, j \in 1..Len(new) : i < j => to[i] < to[j]
       /\ \A i \in 1..Len(new) : /\ to[i] \in First(file, kind, cap, k+1)
                                  /\ new[i] = RuleOf(file[to[i]])
       /\ \A p \in First(file, kind, cap, k+1) : \E i \in 1..Len(new) : to[i] = p
  <2>1. 1..Len(new) = 1..n+1
    BY <1>14
  <2> QED  BY <1>7, <1>9, <1>11, <1>12, <2>1
<1>17. Len(new) \in 0..cap
  BY <1>13, <1>14
<1>18. FilledFrom(new, file, kind, cap, k+1)
  BY <1>4, <1>15, <1>16, <1>17, Zenon DEF FilledFrom
<1> QED  BY <1>18 DEF new

(* The first rule that passes a test is the first line's that does.        *)
LEMMA FirstHit ==
  ASSUME NEW table, NEW file, NEW kind, NEW cap, NEW k, cap \in Nat, k \in Nat,
         FilledFrom(table, file, kind, cap, k)
  PROVE  \A hits \in SUBSET DOMAIN table, lines \in SUBSET First(file, kind, cap, k) :
           (\A i \in DOMAIN table, p \in First(file, kind, cap, k) :
              table[i] = RuleOf(file[p]) => (i \in hits <=> p \in lines))
           => /\ hits = {} <=> lines = {}
              /\ hits # {} => /\ table[Min(hits)] = RuleOf(file[Min(lines)])
                              /\ Min(lines) \in First(file, kind, cap, k)
<1> SUFFICES ASSUME NEW hits \in SUBSET DOMAIN table, NEW lines \in SUBSET First(file, kind, cap, k),
                    \A i \in DOMAIN table, p \in First(file, kind, cap, k) :
                      table[i] = RuleOf(file[p]) => (i \in hits <=> p \in lines)
             PROVE  /\ hits = {} <=> lines = {}
                    /\ hits # {} => /\ table[Min(hits)] = RuleOf(file[Min(lines)])
                                    /\ Min(lines) \in First(file, kind, cap, k)
  OBVIOUS
<1> DEFINE n == Len(table)
<1>1. n \in Nat /\ DOMAIN table = 1..n
  <2>1. table = [i \in 1..n |-> table[i]] /\ n \in Nat
    BY DEF FilledFrom
  <2> HIDE DEF n
  <2> QED  BY <2>1
<1>2. PICK at \in [1..n -> 1..k] :
        /\ \A i, j \in 1..n : i < j => at[i] < at[j]
        /\ \A i \in 1..n : at[i] \in First(file, kind, cap, k) /\ table[i] = RuleOf(file[at[i]])
        /\ \A p \in First(file, kind, cap, k) : \E i \in 1..n : at[i] = p
  BY DEF FilledFrom
<1> HIDE DEF n
<1>3. \A i \in 1..n : i \in hits <=> at[i] \in lines
  BY <1>1, <1>2
<1>4. hits = {} <=> lines = {}
  BY <1>1, <1>2, <1>3
<1>5. ASSUME hits # {}
      PROVE  /\ table[Min(hits)] = RuleOf(file[Min(lines)])
             /\ Min(lines) \in First(file, kind, cap, k)
  <2>1. hits \in SUBSET Nat /\ lines \in SUBSET Nat
    BY <1>1 DEF First
  <2>2. PICK i \in hits : i = Min(hits) /\ \A j \in hits : i <= j
    BY <1>5, <2>1, LeastIsMin
  <2>3. PICK p \in lines : p = Min(lines) /\ \A q \in lines : p <= q
    BY <1>4, <1>5, <2>1, LeastIsMin
  <2>4. PICK j \in 1..n : at[j] = p
    BY <1>2, <2>3
  <2>5. i \in 1..n /\ j \in hits /\ at[i] \in lines
    BY <1>1, <1>3, <2>2, <2>3, <2>4
  <2>6. i <= j /\ at[j] <= at[i] /\ at[i] \in Nat /\ at[j] \in Nat
    BY <1>2, <2>2, <2>3, <2>4, <2>5
  <2>7. i = j
    BY <1>1, <1>2, <2>4, <2>5, <2>6
  <2> QED  BY <1>1, <1>2, <2>2, <2>3, <2>4, <2>5, <2>7
<1> QED  BY <1>4, <1>5
-----------------------------------------------------------------------------
(* The inductive invariant. *)

(* rules_lock is held from pthread_mutex_lock to pthread_mutex_unlock.     *)
Holding == {"recheck", "read", "publish", "loaded", "unlock"}
LockInv == \A t \in Callers : pc[t] \in Holding <=> rules_lock = t

(* How far the flags say that the file has been read.                      *)
Reading == {"read", "publish", "loaded"}
FlagsInv ==
  /\ conf = NoFile => pos = 0
  /\ conf # NoFile => pos <= Len(conf)
  /\ rules_loaded /\ conf # NoFile => pos = Len(conf)
  /\ layer2_active => /\ conf # NoFile /\ pos = Len(conf)
                      /\ rules_loaded \/ \E t \in Callers : pc[t] = "loaded"
  /\ \A t \in Callers : /\ pc[t] \in Reading => ~rules_loaded /\ conf # NoFile
                        /\ pc[t] \in {"publish", "loaded"} => pos = Len(conf)
                        /\ pc[t] \in {"unlock", "resolve"} => rules_loaded
  /\ \A t \in Threads : pc[t] \notin {"idle", "libc", "numa"} => layer2_active
  /\ pc[Loader] \notin {"resolve", "libc", "numa"}
  /\ rules_loaded \/ (\E t \in Callers : pc[t] \in Reading) \/ pos = 0

(* The tables hold what the lines read so far say.                         *)
TablesInv ==
  /\ FilledFrom(size_rules, conf, "size_range", MaxNameRules, pos)
  /\ FilledFrom(addr_rules, conf, "addr", MaxAddrRules, pos)

Inv == TypeOK /\ name_rules \in Seq([node : Int]) /\ LockInv /\ FlagsInv /\ TablesInv
-----------------------------------------------------------------------------
(* What a request is given. *)

LEMMA FileType ==
  ASSUME TypeOK, conf # NoFile
  PROVE  /\ Len(conf) \in Nat /\ Len(conf) <= MaxFile
         /\ \A p \in 1..Len(conf) : conf[p] \in Lines
<1>1. PICK m \in 0..MaxFile : conf \in [1..m -> Lines]
  BY DEF TypeOK, BoundedSeq, SeqOf
<1> QED  BY <1>1, RulesAssumption

(* The rules made of a line are tried as the line says.                    *)
LEMMA SizeRuleIsLine ==
  ASSUME NEW l \in Lines, l.kind = "size_range", NEW sz \in Nat
  PROVE  /\ SizeInRule(RuleOf(l), sz) <=> Covers(l, sz)
         /\ RuleOf(l).node = NodeOf(l.node)
BY RulesAssumption DEF RuleOf, SizeRule, SizeInRule, Covers

LEMMA AddrRuleIsLine ==
  ASSUME NEW l \in Lines, l.kind = "addr"
  PROVE  RuleOf(l).start = l.lo /\ RuleOf(l).end = l.hi /\ RuleOf(l).node = NodeOf(l.node)
BY DEF RuleOf

LEMMA NodeOfSign ==
  ASSUME NEW l \in Lines
  PROVE  /\ NodeOf(l.node) \in Int
         /\ NodeOf(l.node) >= 0 <=> l.node \in Nat
         /\ l.node \in Nat => NodeOf(l.node) = l.node
BY RulesAssumption DEF NodeOf, LocalNode

(* What the library makes of the lines: size_range lines and address lines *)
(* whose node is a number count.                                           *)
HasNode(hits) == hits # {} /\ conf[Min(hits)].node \in Nat
Around(l, caller) == caller >= l.lo /\ caller < l.hi

SizeRead(r) == {p \in First(conf, "size_range", MaxNameRules, Len(conf)) : Covers(conf[p], r.size)}
AddrRead(r) == {p \in First(conf, "addr", MaxAddrRules, Len(conf)) : Around(conf[p], r.caller)}

ReadAs(r) ==
  IF HasNode(SizeRead(r)) THEN conf[Min(SizeRead(r))].node
  ELSE IF HasNode(AddrRead(r)) THEN conf[Min(AddrRead(r))].node ELSE NoMatch

(* One table: the first rule that matches has a node if the first line has. *)
LEMMA SizeMatch ==
  ASSUME NEW k, k \in Nat, FilledFrom(size_rules, conf, "size_range", MaxNameRules, k),
         \A p \in 1..k : conf[p] \in Lines,
         NEW sz \in Nat, NEW lines \in SUBSET First(conf, "size_range", MaxNameRules, k),
         \A p \in First(conf, "size_range", MaxNameRules, k) : p \in lines <=> Covers(conf[p], sz)
  PROVE  /\ match_size(size_rules, sz) \in Int
         /\ match_size(size_rules, sz) >= 0 <=> HasNode(lines)
         /\ HasNode(lines) => match_size(size_rules, sz) = conf[Min(lines)].node
<1> DEFINE hits == {i \in DOMAIN size_rules : SizeInRule(size_rules[i], sz)}
<1>1. match_size(size_rules, sz) = IF hits = {} THEN NoMatch ELSE size_rules[Min(hits)].node
  BY DEF match_size, FirstMatch
<1>2. \A p \in First(conf, "size_range", MaxNameRules, k) : conf[p] \in Lines /\ conf[p].kind = "size_range"
  BY DEF First
<1>3. \A i \in DOMAIN size_rules, p \in First(conf, "size_range", MaxNameRules, k) :
        size_rules[i] = RuleOf(conf[p]) => (i \in hits <=> p \in lines)
  BY <1>2, SizeRuleIsLine
<1>4. /\ hits \in SUBSET DOMAIN size_rules
      /\ lines \in SUBSET First(conf, "size_range", MaxNameRules, k)
      /\ MaxNameRules \in Nat
  BY RulesAssumption
<1> HIDE DEF hits
<1>5. /\ hits = {} <=> lines = {}
      /\ hits # {} => /\ size_rules[Min(hits)] = RuleOf(conf[Min(lines)])
                      /\ Min(lines) \in First(conf, "size_range", MaxNameRules, k)
  BY <1>3, <1>4, FirstHit
<1>6. CASE hits = {}
  BY <1>1, <1>5, <1>6 DEF NoMatch, HasNode
<1>7. CASE hits # {}
  <2>1. PICK l \in Lines : l = conf[Min(lines)] /\ l.kind = "size_range"
    BY <1>2, <1>5, <1>7
  <2>2. match_size(size_rules, sz) = NodeOf(l.node)
    BY <1>1, <1>5, <1>7, <2>1, SizeRuleIsLine
  <2>3. HasNode(lines) <=> l.node \in Nat
    BY <1>5, <1>7, <2>1 DEF HasNode
  <2> QED  BY <2>1, <2>2, <2>3, NodeOfSign
<1> QED  BY <1>6, <1>7

LEMMA AddrMatch ==
  ASSUME NEW k, k \in Nat, FilledFrom(addr_rules, conf, "addr", MaxAddrRules, k),
         \A p \in 1..k : conf[p] \in Lines,
         NEW caller \in Nat, NEW lines \in SUBSET First(conf, "addr", MaxAddrRules, k),
         \A p \in First(conf, "addr", MaxAddrRules, k) : p \in lines <=> Around(conf[p], caller)
  PROVE  /\ match_addr(addr_rules, caller) \in Int
         /\ match_addr(addr_rules, caller) >= 0 <=> HasNode(lines)
         /\ HasNode(lines) => match_addr(addr_rules, caller) = conf[Min(lines)].node
<1> DEFINE hits == {i \in DOMAIN addr_rules : caller >= addr_rules[i].start /\ caller < addr_rules[i].end}
<1>1. match_addr(addr_rules, caller) = IF hits = {} THEN NoMatch ELSE addr_rules[Min(hits)].node
  BY DEF match_addr, FirstMatch
<1>2. \A p \in First(conf, "addr", MaxAddrRules, k) : conf[p] \in Lines /\ conf[p].kind = "addr"
  BY DEF First
<1>3. \A i \in DOMAIN addr_rules, p \in First(conf, "addr", MaxAddrRules, k) :
        addr_rules[i] = RuleOf(conf[p]) => (i \in hits <=> p \in lines)
  BY <1>2, AddrRuleIsLine DEF Around
<1>4. /\ hits \in SUBSET DOMAIN addr_rules
      /\ lines \in SUBSET First(conf, "addr", MaxAddrRules, k)
      /\ MaxAddrRules \in Nat
  BY RulesAssumption
<1> HIDE DEF hits
<1>5. /\ hits = {} <=> lines = {}
      /\ hits # {} => /\ addr_rules[Min(hits)] = RuleOf(conf[Min(lines)])
                      /\ Min(lines) \in First(conf, "addr", MaxAddrRules, k)
  <2>1. \A H \in SUBSET DOMAIN addr_rules, F \in SUBSET First(conf, "addr", MaxAddrRules, k) :
          (\A i \in DOMAIN addr_rules, p \in First(conf, "addr", MaxAddrRules, k) :
             addr_rules[i] = RuleOf(conf[p]) => (i \in H <=> p \in F))
          => /\ H = {} <=> F = {}
             /\ H # {} => /\ addr_rules[Min(H)] = RuleOf(conf[Min(F)])
                          /\ Min(F) \in First(conf, "addr", MaxAddrRules, k)
    BY <1>4, FirstHit
  <2> QED  BY <1>3, <1>4, <2>1
<1>6. CASE hits = {}
  BY <1>1, <1>5, <1>6 DEF NoMatch, HasNode
<1>7. CASE hits # {}
  <2>1. PICK l \in Lines : l = conf[Min(lines)] /\ l.kind = "addr"
    BY <1>2, <1>5, <1>7
  <2>2. match_addr(addr_rules, caller) = NodeOf(l.node)
    BY <1>1, <1>5, <1>7, <2>1, AddrRuleIsLine
  <2>3. HasNode(lines) <=> l.node \in Nat
    BY <1>5, <1>7, <2>1 DEF HasNode
  <2> QED  BY <2>1, <2>2, <2>3, NodeOfSign
<1> QED  BY <1>6, <1>7

(* Size rules go before address rules, in the library as in the file.      *)
LEMMA DecideIsReadAs ==
  ASSUME Inv, NEW t \in Threads, pc[t] = "resolve"
  PROVE  Decide(t) = ReadAs(req[t]) /\ ReadAs(req[t]) \in Nat \cup {NoMatch}
<1> DEFINE r == req[t]
           bySize == match_size(size_rules, r.size)
           byAddr == match_addr(addr_rules, r.caller)
<1>1. t \in Callers /\ r.size \in Nat /\ r.caller \in Nat
  BY RulesAssumption DEF Inv, TypeOK, Callers
<1>2. layer2_active /\ conf # NoFile /\ pos = Len(conf)
  BY <1>1 DEF Inv, FlagsInv
<1>3. pos \in Nat /\ \A p \in 1..pos : conf[p] \in Lines
  BY <1>2, FileType DEF Inv
<1>4. /\ SizeRead(r) \in SUBSET First(conf, "size_range", MaxNameRules, pos)
      /\ \A p \in First(conf, "size_range", MaxNameRules, pos) :
           p \in SizeRead(r) <=> Covers(conf[p], r.size)
      /\ AddrRead(r) \in SUBSET First(conf, "addr", MaxAddrRules, pos)
      /\ \A p \in First(conf, "addr", MaxAddrRules, pos) :
           p \in AddrRead(r) <=> Around(conf[p], r.caller)
  BY <1>2 DEF SizeRead, AddrRead
<1>5. /\ bySize \in Int
      /\ bySize >= 0 <=> HasNode(SizeRead(r))
      /\ HasNode(SizeRead(r)) => bySize = conf[Min(SizeRead(r))].node
  BY <1>1, <1>3, <1>4, SizeMatch DEF Inv, TablesInv
<1>6. /\ byAddr \in Int
      /\ byAddr >= 0 <=> HasNode(AddrRead(r))
      /\ HasNode(AddrRead(r)) => byAddr = conf[Min(AddrRead(r))].node
  BY <1>1, <1>3, <1>4, AddrMatch DEF Inv, TablesInv
<1>7. Decide(t) = CASE bySize >= 0 -> resolve_node_relative(bySize, Home[t], CpuNode[t])
                    [] bySize < 0 /\ byAddr >= 0 -> resolve_node_relative(byAddr, Home[t], CpuNode[t])
                    [] OTHER -> NoMatch
  BY <1>2, <1>5, <1>6 DEF Decide, resolve_node
<1> HIDE DEF r, bySize, byAddr
<1>8. \A n \in Nat : resolve_node_relative(n, Home[t], CpuNode[t]) = n
  BY DEF resolve_node_relative, LocalNode
<1>9. Decide(t) = IF bySize >= 0 THEN bySize ELSE IF byAddr >= 0 THEN byAddr ELSE NoMatch
  BY <1>5, <1>6, <1>7, <1>8
<1>10. ReadAs(r) = IF HasNode(SizeRead(r)) THEN conf[Min(SizeRead(r))].node
                   ELSE IF HasNode(AddrRead(r)) THEN conf[Min(AddrRead(r))].node ELSE NoMatch
  BY DEF ReadAs
<1> QED  BY <1>5, <1>6, <1>9, <1>10 DEF r
(* In a file without size_gt and size_lt lines the lines that count are    *)
(* those that are declared, and a node that is a number is that node.      *)
LEMMA ReadAsDeclared ==
  ASSUME Inv, NEW t \in Threads, pc[t] = "resolve", ReadAsMeant(req[t])
  PROVE  ReadAs(req[t]) = Declared(t, req[t])
<1> DEFINE r == req[t]
<1>1. SizeHits(r) = SizeRead(r)
  <2>1. FirstLines(SizeKinds, MaxNameRules) = First(conf, "size_range", MaxNameRules, Len(conf))
    <3>1. \A p \in 1..Len(conf) : conf[p].kind \in SizeKinds <=> conf[p].kind = "size_range"
      BY DEF ReadAsMeant, SizeKinds
    <3>2. \A p \in 1..Len(conf) : {q \in 1..p : conf[q].kind \in SizeKinds} = OfKind(conf, "size_range", p)
      <4>1. \A p \in 1..Len(conf) : \A q \in 1..p : q \in 1..Len(conf)
        <5>1. Len(conf) \in Nat
          BY FileType DEF Inv, FlagsInv, Callers
        <5> QED  BY <5>1
      <4> QED  BY <3>1, <4>1 DEF OfKind
    <3>3. {q \in 1..Len(conf) : conf[q].kind \in SizeKinds} = {q \in 1..Len(conf) : conf[q].kind = "size_range"}
      BY <3>1
    <3> QED  BY <3>2, <3>3 DEF FirstLines, First
  <2> QED  BY <2>1 DEF SizeHits, SizeRead
<1>2. AddrHits(r) = AddrRead(r)
  BY DEF AddrHits, AddrRead, FirstLines, First, OfKind, Around
<1>3. \A hits : HasNode(hits) => Decides(hits)
  BY DEF HasNode, Decides
<1>4. \A hits : Decides(hits) /\ conf[Min(hits)].node # LocalWord => HasNode(hits)
  BY DEF HasNode, Decides
<1>5. \A word : word # LocalWord => NodeFor(t, word) = word
  BY DEF NodeFor
<1>6. Deciding(r) # {} => conf[Min(Deciding(r))].node # LocalWord
  BY DEF ReadAsMeant
<1> HIDE DEF r
<1>7. CASE Decides(SizeHits(r))
  <2>1. Deciding(r) = SizeHits(r) /\ SizeHits(r) # {}
    BY <1>7 DEF Deciding, Decides
  <2>2. HasNode(SizeRead(r)) /\ Declared(t, r) = conf[Min(SizeRead(r))].node
    BY <1>1, <1>4, <1>5, <1>6, <1>7, <2>1 DEF Declared
  <2> QED  BY <2>2 DEF ReadAs, r
<1>8. CASE ~Decides(SizeHits(r)) /\ Decides(AddrHits(r))
  <2>1. Deciding(r) = AddrHits(r) /\ AddrHits(r) # {}
    BY <1>8 DEF Deciding, Decides
  <2>2. /\ ~HasNode(SizeRead(r)) /\ HasNode(AddrRead(r))
        /\ Declared(t, r) = conf[Min(AddrRead(r))].node
    BY <1>1, <1>2, <1>3, <1>4, <1>5, <1>6, <1>8, <2>1 DEF Declared
  <2> QED  BY <2>2 DEF ReadAs, r
<1>9. CASE ~Decides(SizeHits(r)) /\ ~Decides(AddrHits(r))
  <2>1. Deciding(r) = {}
    BY <1>9 DEF Deciding
  <2>2. ~HasNode(SizeRead(r)) /\ ~HasNode(AddrRead(r)) /\ Declared(t, r) = NoMatch
    BY <1>1, <1>2, <1>3, <1>9, <2>1 DEF Declared
  <2> QED  BY <2>2 DEF ReadAs, r
<1> QED  BY <1>7, <1>8, <1>9

-----------------------------------------------------------------------------
(* Every step keeps the invariant. *)

LEMMA InitInv ==
  ASSUME Init
  PROVE  Inv
<1> USE DEF Init
<1>1. {MaxAddrRules, MaxNameRules, MaxFile} \subseteq Nat /\ Loader \notin Threads
      /\ NoThread \notin Callers
  BY RulesAssumption DEF Callers
<1>2. \A t \in Callers : pc[t] \in {"check", "idle"} /\ (t # Loader => pc[t] = "idle")
  OBVIOUS
<1>3. Loader \in Callers /\ Threads \subseteq Callers
  BY DEF Callers
<1>4. TypeOK
  <2>1. pc \in [Callers -> Locations]
    BY DEF Locations
  <2>2. result \in [Threads -> Int]
    BY DEF NoMatch
  <2>3. conf = NoFile \/ conf \in BoundedSeq(Lines, MaxFile)
    OBVIOUS
  <2>4. /\ pos \in 0..MaxFile /\ Len(addr_rules) <= MaxAddrRules /\ Len(size_rules) <= MaxNameRules
        /\ Len(name_rules) <= MaxNameRules
    BY <1>1
  <2> QED  BY <2>1, <2>2, <2>3, <2>4 DEF TypeOK
<1>5. name_rules \in Seq([node : Int])
  OBVIOUS
<1>6. LockInv
  BY <1>1, <1>2 DEF LockInv, Holding
<1>7. FlagsInv
  <2>1. conf # NoFile => Len(conf) \in Nat
    BY <1>4, FileType
  <2> QED  BY <1>1, <1>2, <1>3, <2>1 DEF FlagsInv, Reading
<1>8. TablesInv
  BY <1>1, FilledNone DEF TablesInv
<1> QED  BY <1>4, <1>5, <1>6, <1>7, <1>8 DEF Inv

(* What a step of load_rules changes, beside the tables.                   *)
LEMMA NextLockInv ==
  ASSUME Inv, [Next]_vars
  PROVE  LockInv'
<1> USE DEF Goto, Holding, Return
<1>1. pc \in [Callers -> Locations] /\ LockInv /\ NoThread \notin Callers /\ Threads \subseteq Callers
  BY RulesAssumption DEF Inv, TypeOK, Callers
<1>2. CASE UNCHANGED vars
  BY <1>1, <1>2 DEF vars, LockInv
<1>3. ASSUME NEW t \in Callers, Load(t)  PROVE LockInv'
  <2>1. CASE LoadCheck(t) \/ LoadOpen(t) \/ LoadLine(t) \/ LoadEnd(t) \/ LoadPublish(t) \/ LoadDone(t)
    BY <1>1, <2>1 DEF LoadCheck, LoadOpen, LoadLine, LoadEnd, LoadPublish, LoadDone, LockInv
  <2>2. CASE LoadLock(t) \/ LoadUnlock(t)
    BY <1>1, <2>2 DEF LoadLock, LoadUnlock, LockInv
  <2> QED  BY <1>3, <2>1, <2>2 DEF Load
<1>4. ASSUME NEW t \in Threads, AllocCall(t) \/ AllocResolve(t) \/ AllocReturn(t)  PROVE LockInv'
  BY <1>1, <1>4 DEF AllocCall, AllocResolve, AllocReturn, LockInv
<1> QED  BY <1>2, <1>3, <1>4 DEF Next

LEMMA NextFlagsInv ==
  ASSUME Inv, [Next]_vars
  PROVE  FlagsInv'
<1> USE DEF Goto, Reading, Return
<1>1. /\ pc \in [Callers -> Locations] /\ FlagsInv /\ LockInv
      /\ Loader \in Callers \ Threads /\ Threads \subseteq Callers
      /\ pos \in Nat /\ (conf # NoFile => Len(conf) \in Nat)
  BY RulesAssumption, FileType DEF Inv, TypeOK, Callers
<1>2. CASE UNCHANGED vars
  BY <1>1, <1>2 DEF vars, FlagsInv
<1>3. ASSUME NEW t \in Callers, Load(t)  PROVE FlagsInv'
  <2>1. pc[t] \in Holding => \A u \in Callers \ {t} : pc[u] \notin Holding
    BY <1>1 DEF LockInv
  <2>2. \A u \in Callers \ {t} : pc'[u] = pc[u]
    BY <1>1, <1>3 DEF Load, LoadCheck, LoadLock, LoadOpen, LoadLine, LoadEnd, LoadPublish, LoadDone,
                      LoadUnlock
  <2>3. CASE LoadCheck(t)
    <3>1. /\ pc[t] = "check" /\ pc'[t] \in {"idle", "resolve", "lock"}
          /\ pc'[t] = "resolve" => rules_loaded /\ t # Loader
          /\ t \in Threads => pc'[t] \in {"resolve", "lock"}
          /\ UNCHANGED <<conf, pos, rules_loaded, layer2_active>>
      BY <1>1, <2>3 DEF LoadCheck, Callers
    <3> QED  BY <1>1, <2>2, <3>1 DEF FlagsInv
  <2>4. CASE LoadLock(t)
    BY <1>1, <2>2, <2>4 DEF LoadLock, FlagsInv
  <2>5. CASE LoadOpen(t)
    <3>1. pc[t] = "recheck" /\ \A u \in Callers : pc[u] \notin Reading
      BY <1>1, <2>1, <2>5 DEF LoadOpen, Holding
    <3>2. CASE rules_loaded
      BY <1>1, <2>2, <2>5, <3>1, <3>2 DEF LoadOpen, FlagsInv
    <3>3. CASE ~rules_loaded
      <4>1. pos = 0 /\ ~layer2_active
        BY <1>1, <3>1, <3>3 DEF FlagsInv
      <4>2. CASE conf = NoFile
        <5>1. /\ pc'[t] = "unlock" /\ rules_loaded' /\ ~layer2_active' /\ UNCHANGED <<conf, pos>>
          BY <1>1, <2>5, <3>3, <4>2 DEF LoadOpen
        <5> QED  BY <1>1, <2>2, <3>1, <4>1, <4>2, <5>1 DEF FlagsInv
      <4>3. CASE conf # NoFile
        <5>1. /\ pc'[t] = "read" /\ pos' = pos /\ UNCHANGED <<conf, rules_loaded, layer2_active>>
          BY <1>1, <2>5, <3>3, <4>1, <4>3 DEF LoadOpen
        <5> QED  BY <1>1, <2>2, <3>1, <3>3, <4>1, <4>3, <5>1 DEF FlagsInv
      <4> QED  BY <4>2, <4>3
    <3> QED  BY <3>2, <3>3
  <2>6. CASE LoadLine(t)
    <3>1. /\ pc[t] = "read" /\ pc'[t] = "read" /\ pos < Len(conf) /\ pos' = pos + 1
          /\ UNCHANGED <<conf, rules_loaded, layer2_active>>
      BY <1>1, <2>6 DEF LoadLine
    <3>2. \A u \in Callers \ {t} : pc[u] \notin {"publish", "loaded"}
      BY <2>1, <3>1 DEF Holding
    <3>3. ~rules_loaded /\ conf # NoFile /\ ~layer2_active
      BY <1>1, <3>1, <3>2 DEF FlagsInv
    <3> QED  BY <1>1, <2>2, <3>1, <3>2, <3>3 DEF FlagsInv
  <2>7. CASE LoadEnd(t)
    BY <1>1, <2>2, <2>7 DEF LoadEnd, FlagsInv
  <2>8. CASE LoadPublish(t)
    <3>1. /\ pc[t] = "publish" /\ pc'[t] = "loaded" /\ UNCHANGED <<conf, pos, rules_loaded>>
      BY <1>1, <2>8 DEF LoadPublish
    <3>2. \A u \in Callers : pc[u] # "loaded"
      BY <2>1, <3>1 DEF Holding
    <3>3. ~rules_loaded /\ conf # NoFile /\ pos = Len(conf) /\ ~layer2_active
      BY <1>1, <3>1, <3>2 DEF FlagsInv
    <3>4. \A u \in Threads : u # t => pc[u] \in {"idle", "libc", "numa"}
      BY <1>1, <3>3 DEF FlagsInv
    <3>5. t \notin Threads
      BY <1>1, <3>1, <3>3 DEF FlagsInv
    <3> QED  BY <1>1, <2>2, <3>1, <3>2, <3>3, <3>4, <3>5 DEF FlagsInv
  <2>9. CASE LoadDone(t)
    <3>1. /\ pc[t] = "loaded" /\ pc'[t] = "unlock" /\ UNCHANGED <<conf, pos, layer2_active>>
          /\ rules_loaded'
      BY <1>1, <2>9 DEF LoadDone
    <3>2. \A u \in Callers \ {t} : pc[u] \notin Reading
      BY <2>1, <3>1 DEF Holding
    <3> QED  BY <1>1, <2>2, <3>1, <3>2 DEF FlagsInv
  <2>10. CASE LoadUnlock(t)
    <3>1. /\ pc[t] = "unlock" /\ pc'[t] \in {"idle", "resolve"}
          /\ pc'[t] = "resolve" => t # Loader
          /\ t \in Threads => pc'[t] = "resolve"
          /\ UNCHANGED <<conf, pos, rules_loaded, layer2_active>>
      BY <1>1, <2>10 DEF LoadUnlock
    <3> QED  BY <1>1, <2>2, <3>1 DEF FlagsInv
  <2> QED  BY <1>3, <2>3, <2>4, <2>5, <2>6, <2>7, <2>8, <2>9, <2>10 DEF Load
<1>4. ASSUME NEW t \in Threads, AllocCall(t) \/ AllocResolve(t) \/ AllocReturn(t)  PROVE FlagsInv'
  <2>1. /\ UNCHANGED <<conf, pos, rules_loaded, layer2_active>>
        /\ \A u \in Callers \ {t} : pc'[u] = pc[u]
        /\ pc[t] \in {"idle", "resolve", "libc", "numa"}
        /\ pc'[t] \in {"idle", "libc", "numa"} \/ (pc'[t] = "check" /\ layer2_active)
    BY <1>1, <1>4 DEF AllocCall, AllocResolve, AllocReturn
  <2> QED  BY <1>1, <2>1 DEF FlagsInv
<1> QED  BY <1>2, <1>3, <1>4 DEF Next

(* A line goes to the end of its table.                                    *)
LEMMA LineTables ==
  ASSUME Inv, NEW t \in Callers, LoadLine(t)
  PROVE  TablesInv' /\ name_rules' \in Seq([node : Int]) /\ Len(name_rules') <= MaxNameRules
<1> DEFINE l == conf[pos + 1]
<1>1. /\ pos < Len(conf) /\ pos' = pos + 1 /\ conf' = conf /\ conf # NoFile
      /\ AddAddrRule(l) \/ AddSizeRule(l) \/ AddNameRule(l) \/ SkipLine(l)
  BY DEF LoadLine, Goto, Inv, FlagsInv, Reading
<1>2. pos \in Nat /\ MaxNameRules \in Nat /\ MaxAddrRules \in Nat
  BY RulesAssumption DEF Inv, TypeOK
<1>3. l \in Lines
  BY <1>1, <1>2, FileType DEF Inv
<1>4. /\ FilledFrom(size_rules, conf, "size_range", MaxNameRules, pos)
      /\ FilledFrom(addr_rules, conf, "addr", MaxAddrRules, pos)
      /\ name_rules \in Seq([node : Int]) /\ Len(name_rules) <= MaxNameRules
      /\ Len(size_rules) \in 0..MaxNameRules /\ Len(addr_rules) \in 0..MaxAddrRules
  BY DEF Inv, TypeOK, TablesInv, FilledFrom
<1>5. ASSUME l.kind # "size_range" \/ Len(size_rules) = MaxNameRules, UNCHANGED size_rules
      PROVE  FilledFrom(size_rules', conf', "size_range", MaxNameRules, pos')
  BY <1>1, <1>2, <1>4, <1>5, FilledSkip
<1>6. ASSUME l.kind # "addr" \/ Len(addr_rules) = MaxAddrRules, UNCHANGED addr_rules
      PROVE  FilledFrom(addr_rules', conf', "addr", MaxAddrRules, pos')
  BY <1>1, <1>2, <1>4, <1>6, FilledSkip
<1>7. [node |-> NodeOf(l.node)] \in [node : Int]
  BY <1>3, NodeOfSign
<1> HIDE DEF l
<1>8. CASE AddAddrRule(l)
  <2>1. RuleOf(l) = [start |-> l.lo, end |-> l.hi, node |-> NodeOf(l.node)] /\ l.kind = "addr"
        /\ addr_rules' = Append(addr_rules, RuleOf(l)) /\ Len(addr_rules) < MaxAddrRules
    BY <1>8 DEF AddAddrRule, RuleOf
  <2>2. FilledFrom(addr_rules', conf', "addr", MaxAddrRules, pos')
    BY <1>1, <1>2, <1>4, <2>1, FilledAppend DEF l
  <2> QED  BY <1>4, <1>5, <1>8, <2>1, <2>2 DEF AddAddrRule, TablesInv
<1>9. CASE AddSizeRule(l)
  <2>1. RuleOf(l) = SizeRule(l) /\ l.kind = "size_range"
    BY <1>9 DEF AddSizeRule, IsSizeLine, RuleOf
  <2>2. FilledFrom(size_rules', conf', "size_range", MaxNameRules, pos')
    <3>1. CASE Len(size_rules) < MaxNameRules
      <4>1. size_rules' = Append(size_rules, RuleOf(l))
        BY <1>9, <2>1, <3>1 DEF AddSizeRule
      <4> QED  BY <1>1, <1>2, <1>4, <2>1, <3>1, <4>1, FilledAppend DEF l
    <3>2. CASE ~(Len(size_rules) < MaxNameRules)
      BY <1>2, <1>4, <1>5, <1>9, <3>2 DEF AddSizeRule
    <3> QED  BY <3>1, <3>2
  <2> QED  BY <1>4, <1>6, <1>9, <2>1, <2>2 DEF AddSizeRule, TablesInv
<1>10. CASE AddNameRule(l)
  <2>1. /\ l.kind # "size_range"
        /\ l.kind # "addr" \/ Len(addr_rules) = MaxAddrRules
        /\ UNCHANGED <<size_rules, addr_rules>>
    BY <1>2, <1>4, <1>10 DEF AddNameRule, IsNameLine
  <2>2. name_rules' \in Seq([node : Int]) /\ Len(name_rules') <= MaxNameRules
    <3>1. CASE Len(name_rules) < MaxNameRules
      <4>1. name_rules' = Append(name_rules, [node |-> NodeOf(l.node)])
        BY <1>10, <3>1 DEF AddNameRule
      <4>2. Len(name_rules') = Len(name_rules) + 1 /\ name_rules' \in Seq([node : Int])
            /\ Len(name_rules) \in Nat
        BY <1>4, <1>7, <4>1, AppendProperties, LenProperties
      <4> QED  BY <1>2, <3>1, <4>2
    <3>2. CASE ~(Len(name_rules) < MaxNameRules)
      BY <1>4, <1>10, <3>2 DEF AddNameRule
    <3> QED  BY <3>1, <3>2
  <2> QED  BY <1>5, <1>6, <2>1, <2>2 DEF TablesInv
<1>11. CASE SkipLine(l)
  BY <1>4, <1>5, <1>6, <1>11 DEF SkipLine, tables, TablesInv
<1> QED  BY <1>1, <1>8, <1>9, <1>10, <1>11

LEMMA NextTypeTables ==
  ASSUME Inv, [Next]_vars
  PROVE  TypeOK' /\ TablesInv' /\ name_rules' \in Seq([node : Int])
<1> USE DEF Goto, Return
<1>1. /\ TypeOK /\ TablesInv /\ name_rules \in Seq([node : Int])
      /\ NoThread \notin Callers /\ Threads \subseteq Callers
      /\ {MaxAddrRules, MaxNameRules, MaxFile} \subseteq Nat
  BY RulesAssumption DEF Inv, Callers
<1>2. Locations = {"idle", "check", "lock", "recheck", "read", "publish",
                   "loaded", "unlock", "resolve", "libc", "numa"}
  BY DEF Locations
<1>3. CASE UNCHANGED vars
  BY <1>1, <1>3 DEF vars, tables, TypeOK, TablesInv
<1>4. ASSUME NEW t \in Callers, Load(t)
      PROVE  TypeOK' /\ TablesInv' /\ name_rules' \in Seq([node : Int])
  <2>1. pc' \in [Callers -> Locations] /\ UNCHANGED <<conf, req, result>>
    BY <1>1, <1>2, <1>4 DEF TypeOK, Load, LoadCheck, LoadLock, LoadOpen, LoadLine, LoadEnd,
                            LoadPublish, LoadDone, LoadUnlock
  <2>2. CASE LoadLine(t)
    <3>1. TablesInv' /\ name_rules' \in Seq([node : Int]) /\ Len(name_rules') <= MaxNameRules
      BY <2>2, LineTables
    <3>2. Len(addr_rules') <= MaxAddrRules /\ Len(size_rules') <= MaxNameRules
      BY <1>1, <3>1 DEF TablesInv, FilledFrom
    <3>3. conf # NoFile /\ pos < Len(conf) /\ pos' = pos + 1
      BY <2>2 DEF LoadLine, Inv, FlagsInv, Reading
    <3>4. pos' \in 0..MaxFile
      BY <1>1, <3>3, FileType DEF TypeOK
    <3> QED  BY <1>1, <2>1, <2>2, <3>1, <3>2, <3>4 DEF LoadLine, TypeOK
  <2>3. CASE ~LoadLine(t)
    <3>1. UNCHANGED tables
      BY <1>4, <2>3 DEF Load, LoadCheck, LoadLock, LoadOpen, LoadEnd, LoadPublish, LoadDone, LoadUnlock
    <3>2. pos' = pos
      <4>1. CASE LoadOpen(t) /\ ~rules_loaded /\ conf # NoFile
        <5>1. pc[t] = "recheck" /\ \A u \in Callers : pc[u] \notin Reading
          BY <4>1 DEF LoadOpen, Inv, LockInv, Holding, Reading
        <5>2. pos = 0 /\ pos' = 0
          BY <4>1, <5>1 DEF LoadOpen, Inv, FlagsInv
        <5> QED  BY <5>2
      <4>2. CASE ~(LoadOpen(t) /\ ~rules_loaded /\ conf # NoFile)
        BY <1>4, <2>3, <4>2 DEF Load, LoadCheck, LoadLock, LoadOpen, LoadEnd, LoadPublish, LoadDone,
                                LoadUnlock
      <4> QED  BY <4>1, <4>2
    <3>3. /\ {rules_loaded', layer2_active', routing_ever_used'} \subseteq BOOLEAN
          /\ rules_lock' \in Callers \cup {NoThread}
      <4>1. CASE LoadPublish(t)
        <5>1. (Len(addr_rules) + Len(size_rules) + Len(name_rules) > 0) \in BOOLEAN
          OBVIOUS
        <5>2. layer2_active' \in BOOLEAN
          BY <4>1, <5>1, Zenon DEF LoadPublish
        <5> QED  BY <1>1, <4>1, <5>2 DEF LoadPublish, TypeOK
      <4>2. CASE LoadCheck(t) \/ LoadLock(t) \/ LoadEnd(t) \/ LoadDone(t) \/ LoadUnlock(t)
        BY <1>1, <4>2 DEF TypeOK, LoadCheck, LoadLock, LoadEnd, LoadDone, LoadUnlock
      <4>3. CASE LoadOpen(t)
        BY <1>1, <4>3 DEF TypeOK, LoadOpen
      <4> QED  BY <1>4, <2>3, <4>1, <4>2, <4>3 DEF Load
    <3> QED  BY <1>1, <2>1, <3>1, <3>2, <3>3 DEF tables, TypeOK, TablesInv
  <2> QED  BY <2>2, <2>3
<1>5. ASSUME NEW t \in Threads, AllocCall(t) \/ AllocResolve(t) \/ AllocReturn(t)
      PROVE  TypeOK' /\ TablesInv' /\ name_rules' \in Seq([node : Int])
  <2>1. /\ UNCHANGED <<conf, pos, tables, rules_loaded, layer2_active, rules_lock>>
        /\ pc' \in [Callers -> Locations]
    BY <1>1, <1>2, <1>5 DEF TypeOK, AllocCall, AllocResolve, AllocReturn
  <2>2. /\ req' \in [Threads -> Requests] /\ result' \in [Threads -> Int]
        /\ routing_ever_used' \in BOOLEAN
    <3>1. CASE AllocResolve(t)
      <4>1. Decide(t) \in Int
        BY <3>1, DecideIsReadAs DEF AllocResolve, NoMatch
      <4> QED  BY <1>1, <3>1, <4>1 DEF TypeOK, AllocResolve
    <3>2. CASE AllocCall(t) \/ AllocReturn(t)
      BY SMTT(30), <1>1, <3>2 DEF TypeOK, AllocCall, AllocReturn, NoMatch
    <3> QED  BY <1>5, <3>1, <3>2
  <2> QED  BY <1>1, <2>1, <2>2 DEF tables, TypeOK, TablesInv
<1> QED  BY <1>3, <1>4, <1>5 DEF Next

LEMMA InvHolds == Spec => []Inv
<1>1. Inv /\ [Next]_vars => Inv'
  BY NextLockInv, NextFlagsInv, NextTypeTables DEF Inv
<1> QED  BY InitInv, <1>1, PTL DEF Spec

-----------------------------------------------------------------------------
(* The theorems *)

(* No table grows beyond its capacity, whatever the file holds, and every  *)
(* variable has its type.                                                  *)
THEOREM TypeCorrect == Spec => []TypeOK
<1>1. Inv => TypeOK
  BY DEF Inv
<1> QED  BY <1>1, InvHolds, PTL

(* The double-checked lock, with layer2_active raised ahead of             *)
(* rules_loaded, lets no thread resolve against half a file.               *)
THEOREM OnlyWholeFiles == Spec => []ResolvesWholeFile
<1>1. Inv => ResolvesWholeFile
  BY DEF Inv, FlagsInv, ResolvesWholeFile, Callers
<1> QED  BY <1>1, InvHolds, PTL

(* One resolution.                                                         *)
LEMMA ResolveStep ==
  ASSUME Inv, [Next]_vars, NEW t \in Threads, Resolves(t), ReadAsMeant(req[t])
  PROVE  SentAsDeclared(t)
<1> USE DEF Resolves
<1>1. t \in Callers /\ pc \in [Callers -> Locations] /\ result \in [Threads -> Int]
      /\ Threads \subseteq Callers
  BY DEF Inv, TypeOK, Callers
<1>2. AllocResolve(t)
  <2>1. \A u \in Callers : u # t /\ Load(u) => pc'[t] = pc[t]
    BY <1>1 DEF Load, LoadCheck, LoadLock, LoadOpen, LoadLine, LoadEnd, LoadPublish, LoadDone,
                LoadUnlock, Goto
  <2>2. ~Load(t) /\ ~AllocCall(t) /\ ~AllocReturn(t)
    BY DEF Load, LoadCheck, LoadLock, LoadOpen, LoadLine, LoadEnd, LoadPublish, LoadDone, LoadUnlock,
           AllocCall, AllocReturn, Goto
  <2>3. \A u \in Threads : u # t /\ (AllocCall(u) \/ AllocResolve(u) \/ AllocReturn(u)) => pc'[t] = pc[t]
    BY <1>1 DEF AllocCall, AllocResolve, AllocReturn, Goto
  <2>4. ~UNCHANGED vars
    BY DEF vars
  <2> QED  BY <1>1, <2>1, <2>2, <2>3, <2>4 DEF Next
<1>3. Decide(t) = Declared(t, req[t]) /\ Declared(t, req[t]) \in Nat \cup {NoMatch}
  BY DecideIsReadAs, ReadAsDeclared
<1>4. /\ pc'[t] = IF Decide(t) >= 0 THEN "numa" ELSE "libc"
      /\ result'[t] = Decide(t)
  BY <1>1, <1>2 DEF AllocResolve, Goto
<1>5. Decide(t) >= 0 <=> Declared(t, req[t]) \in Nat
  BY <1>3 DEF NoMatch
<1> QED  BY <1>3, <1>4, <1>5 DEF SentAsDeclared

(* Whoever read the file, and whoever else waited for it: a request goes   *)
(* to the node the lines declare for it, or to libc when they declare      *)
(* none, in every file without size_gt and size_lt lines and unless        *)
(* 'local' decides (load_rules, resolve_node).                             *)
THEOREM RoutingFollowsFile == Spec => RoutedAsDeclared
<1>1. Inv /\ [Next]_vars =>
        [\A t \in Threads : Resolves(t) /\ ReadAsMeant(req[t]) => SentAsDeclared(t)]_vars
  BY ResolveStep
<1> QED  BY <1>1, InvHolds, PTL DEF Spec, RoutedAsDeclared

=============================================================================
