--------------------------- MODULE PartitionProofs ---------------------------
(***************************************************************************)
(* Applies of partition clauses, whatever the clauses, the files, the      *)
(* clients and their crashes: type correctness and the refinement of       *)
(* Custody.  Of runs that nobody interferes with: a rerun goes on where    *)
(* the last one stopped, a finished one has reached the files, no          *)
(* partition is rewritten that stays as it is, and the server refuses      *)
(* nothing.                                                                *)
(***************************************************************************)
EXTENDS PartitionProperties, SequenceLemmas

-----------------------------------------------------------------------------
(***************************************************************************)
(* A layout has a sequence of definitions and a bound for each of them.    *)
(***************************************************************************)
LEMMA LayoutFacts ==
  ASSUME NEW l \in Layout
  PROVE  /\ l.defs \in Seq(Definition) /\ Len(l.defs) \in Nat
         /\ Slots(l) = 1..Len(l.defs)
         /\ \A i \in Slots(l) : l.defs[i] \in Definition /\ l.defs[i].to \in Int
         /\ l.count \in Nat \cup {Unset} /\ Number(l) \in Nat
<1>1. l.defs \in Seq(Definition) /\ l.count \in Nat \cup {Unset}
  BY DEF Layout
<1>2. \A i \in DOMAIN l.defs : l.defs[i] \in Definition
  BY <1>1
<1>3. \A d \in Definition : d.to \in Int
  BY BoundsAssumption DEF Definition
<1>4. Number(l) \in Nat
  BY <1>1 DEF Number
<1> QED BY <1>1, <1>2, <1>3, <1>4 DEF Slots

(***************************************************************************)
(* A function on the first n numbers is a sequence.                        *)
(***************************************************************************)
LEMMA MappedSeq ==
  ASSUME NEW S, NEW n \in Nat, NEW f \in [1..n -> S]
  PROVE  f \in Seq(S) /\ Len(f) = n
OBVIOUS

(***************************************************************************)
(* What SubSeq returns, also when there is nothing between its bounds.     *)
(***************************************************************************)
LEMMA SubSeqLemma ==
  ASSUME NEW S, NEW s \in Seq(S), NEW a \in Nat \ {0}, NEW b \in 0..Len(s)
  PROVE  /\ SubSeq(s, a, b) \in Seq(S)
         /\ Len(SubSeq(s, a, b)) = IF a <= b THEN b - a + 1 ELSE 0
         /\ \A i \in 1..Len(SubSeq(s, a, b)) : SubSeq(s, a, b)[i] = s[a + i - 1]
<1>1. Len(s) \in Nat /\ \A i \in 1..Len(s) : s[i] \in S
  OBVIOUS
<1>2. SubSeq(s, a, b) = [i \in 1..(IF a <= b THEN (1 + b) - a ELSE 0) |-> s[(i + a) - 1]]
  BY <1>1
<1> QED BY <1>1, <1>2

(***************************************************************************)
(* Every statement a diff orders is a well-formed one.                     *)
(***************************************************************************)
LEMMA ReorganizeRunType ==
  ASSUME NEW cur \in Layout, NEW des \in Layout, NameListEqual(cur, des),
         NEW first \in Slots(cur), NEW last \in Slots(cur), first <= last
  PROVE  /\ ReorganizeRun(cur, des, first, last) \in PartitionStatement
         /\ Len(ReorganizeRun(cur, des, first, last).names) = last - first + 1
         /\ Len(ReorganizeRun(cur, des, first, last).into) = last - first + 1
<1> DEFINE size == last - first + 1
           Body(i) == IF i \in Changed(cur, des) THEN des.defs[i] ELSE cur.defs[i]
           names == [k \in 1..size |-> cur.defs[first + k - 1].name]
           into  == [k \in 1..size |-> Body(first + k - 1)]
<1>1. /\ Slots(cur) = 1..Len(cur.defs) /\ Len(cur.defs) \in Nat /\ Slots(des) = Slots(cur)
      /\ \A i \in Slots(cur) : cur.defs[i] \in Definition /\ des.defs[i] \in Definition
  BY LayoutFacts DEF NameListEqual
<1>2. size \in Nat /\ \A k \in 1..size : first + k - 1 \in Slots(cur)
  BY <1>1
<1>3. \A d \in Definition : d.name \in PartitionNames
  BY DEF Definition
<1>4. names \in Seq(PartitionNames) /\ Len(names) = size
  <2>1. names \in [1..size -> PartitionNames]
    BY <1>1, <1>2, <1>3
  <2> HIDE DEF names, size
  <2> QED BY <1>2, <2>1, MappedSeq
<1>5. into \in Seq(Definition) /\ Len(into) = size
  <2>1. \A k \in 1..size : Body(first + k - 1) \in Definition
    BY <1>1, <1>2
  <2> HIDE DEF Body
  <2>2. into \in [1..size -> Definition]
    BY <2>1
  <2> HIDE DEF into, size
  <2> QED BY <1>2, <2>2, MappedSeq
<1>6. ReorganizeRun(cur, des, first, last) = Alter("Reorganize", first, names, into, 0)
  BY DEF ReorganizeRun
<1> HIDE DEF names, into, size
<1>7. first \in Nat
  BY <1>1
<1> QED BY <1>4, <1>5, <1>6, <1>7 DEF Alter, PartitionStatement, size

(***************************************************************************)
(* A rewrite is a REORGANIZE of consecutive slots.  By LIST it is of all   *)
(* the slots that change, unless no list loses a value.                    *)
(***************************************************************************)
LEMMA RewritesAre ==
  ASSUME NEW cur \in Layout, NEW des \in Layout, NameListEqual(cur, des),
         NEW s \in Rewrites(cur, des)
  PROVE  \E first, last \in Slots(cur) :
           /\ first <= last /\ s = ReorganizeRun(cur, des, first, last)
           /\ ByRange(cur) \/ Changed(cur, des) \subseteq first..last \/ ChangedAreSupersets(cur, des)
<1> DEFINE C == Changed(cur, des)
<1>1. Slots(cur) = 1..Len(cur.defs) /\ Len(cur.defs) \in Nat /\ C \subseteq Slots(cur)
  BY LayoutFacts DEF Changed
<1>2. CASE ByRange(cur)
  <2>1. PICK r \in Runs(cur, des) : s = ReorganizeRun(cur, des, r[1], Cascade(cur, des, r[2]))
    BY <1>2 DEF Rewrites
  <2>2. r[1] \in Slots(cur) /\ r[2] \in Slots(cur) /\ r[1] <= r[2]
    BY <1>1 DEF Runs
  <2>3. Cascade(cur, des, r[2]) \in Slots(cur) /\ r[1] <= Cascade(cur, des, r[2])
    BY <1>1, <2>2 DEF Cascade
  <2> QED BY <1>2, <2>1, <2>2, <2>3
<1>3. CASE ~ByRange(cur)
  <2>1. PICK r \in IF ChangedAreSupersets(cur, des) THEN Runs(cur, des) ELSE Span(cur, des) :
          s = ReorganizeRun(cur, des, r[1], r[2])
    BY <1>3 DEF Rewrites
  <2>2. CASE ChangedAreSupersets(cur, des)
    <3>1. r[1] \in Slots(cur) /\ r[2] \in Slots(cur) /\ r[1] <= r[2]
      BY <1>1, <2>1, <2>2 DEF Runs
    <3> QED BY <2>1, <2>2, <3>1
  <2>3. CASE ~ChangedAreSupersets(cur, des)
    <3>1. /\ r[1] \in C /\ r[2] \in C
          /\ \A i \in C : r[1] <= i /\ i <= r[2]
      BY <2>1, <2>3 DEF Span
    <3>2. C \subseteq r[1]..r[2]
      BY <1>1, <3>1
    <3> QED BY <1>1, <2>1, <3>1, <3>2
  <2> QED BY <2>2, <2>3
<1> QED BY <1>2, <1>3

(***************************************************************************)
(* The walk along the current partitions: it consumes the desired ones one *)
(* by one, each with a slot that has it.                                   *)
(***************************************************************************)
Walk(f, cur, des) ==
  f = [i \in 0..Len(cur.defs) |->
        IF i = 0 THEN 0
        ELSE IF f[i - 1] < Len(des.defs) /\ DefEqual(cur.defs[i], des.defs[f[i - 1] + 1])
             THEN f[i - 1] + 1
             ELSE f[i - 1]]

LEMMA WalkExists ==
  ASSUME NEW cur \in Layout, NEW des
  PROVE  Walk(Consumed(cur, des), cur, des)
<1> DEFINE m == Len(des.defs)
           Up(c, i) == IF c < m /\ DefEqual(cur.defs[i], des.defs[c + 1]) THEN c + 1 ELSE c
           Far(n, f) == f = [i \in 0..n |-> IF i = 0 THEN 0 ELSE Up(f[i - 1], i)]
           T == {n \in Nat : \E f : Far(n, f)}
<1> HIDE DEF Up
<1>1. 0 \in T
  <2>1. Far(0, [i \in 0..0 |-> 0])
    OBVIOUS
  <2> QED BY <2>1
<1>2. ASSUME NEW n \in T PROVE n + 1 \in T
  <2>1. PICK f : Far(n, f)
    OBVIOUS
  <2> DEFINE g == [i \in 0..(n + 1) |-> IF i = n + 1 THEN Up(f[n], n + 1) ELSE f[i]]
  <2>2. \A i \in 0..n : g[i] = f[i] /\ f[i] = IF i = 0 THEN 0 ELSE Up(f[i - 1], i)
    BY <2>1
  <2>3. g[n + 1] = Up(g[n], n + 1)
    BY <2>2
  <2>4. ASSUME NEW i \in 0..(n + 1) PROVE g[i] = IF i = 0 THEN 0 ELSE Up(g[i - 1], i)
    <3>1. CASE i = n + 1 BY <2>3, <3>1
    <3>2. CASE i \in 0..n BY <2>2, <3>2
    <3> QED BY <3>1, <3>2
  <2>5. Far(n + 1, g)
    <3>1. g = [i \in 0..(n + 1) |-> g[i]]
      OBVIOUS
    <3> HIDE DEF g
    <3> QED BY <2>4, <3>1
  <2> HIDE DEF g, Far
  <2> QED BY <2>5
<1>3. T = Nat
  <2> HIDE DEF T
  <2>1. T \in SUBSET Nat BY DEF T
  <2> QED BY <1>1, <1>2, <2>1, Induction
<1>4. Len(cur.defs) \in Nat
  BY LayoutFacts
<1>5. \E f : Far(Len(cur.defs), f)
  BY <1>3, <1>4
<1> QED BY <1>5 DEF Consumed, Walk, Up

LEMMA ConsumedSteps ==
  ASSUME NEW cur \in Layout, NEW des \in Layout
  PROVE  LET f == Consumed(cur, des) IN
         /\ f[0] = 0
         /\ \A i \in 0..Len(cur.defs) : f[i] \in 0..Len(des.defs)
         /\ \A i \in Slots(cur) :
              \/ f[i] = f[i - 1]
              \/ /\ f[i] = f[i - 1] + 1 /\ f[i] \in Slots(des)
                 /\ DefEqual(cur.defs[i], des.defs[f[i]])
<1> DEFINE f == Consumed(cur, des)
           n == Len(cur.defs)
           m == Len(des.defs)
           T == {i \in Nat : i <= n => f[i] \in 0..m}
<1>1. n \in Nat /\ m \in Nat /\ Slots(cur) = 1..n /\ Slots(des) = 1..m
  BY LayoutFacts
<1>2. \A i \in 0..n : f[i] = IF i = 0 THEN 0
                            ELSE IF f[i - 1] < m /\ DefEqual(cur.defs[i], des.defs[f[i - 1] + 1])
                                 THEN f[i - 1] + 1 ELSE f[i - 1]
  <2>1. Walk(f, cur, des)
    BY WalkExists
  <2> HIDE DEF f
  <2> QED BY <2>1 DEF Walk
<1> HIDE DEF f, n, m
<1>3. 0 \in T
  BY <1>1, <1>2
<1>4. ASSUME NEW i \in T PROVE i + 1 \in T
  <2>1. CASE i + 1 <= n
    <3>1. f[i] \in 0..m /\ i + 1 \in 0..n /\ i + 1 # 0 /\ i + 1 - 1 = i
      BY <1>1, <2>1
    <3>2. \/ f[i + 1] = f[i]
          \/ f[i] < m /\ f[i + 1] = f[i] + 1
      BY <1>2, <3>1
    <3> QED BY <1>1, <3>1, <3>2
  <2>2. CASE ~(i + 1 <= n)
    BY <2>2
  <2> QED BY <2>1, <2>2
<1>5. T = Nat
  <2> HIDE DEF T
  <2>1. T \in SUBSET Nat BY DEF T
  <2> QED BY <1>3, <1>4, <2>1, Induction
<1>6. \A i \in 0..n : f[i] \in 0..m
  <2> SUFFICES ASSUME NEW i \in 0..n PROVE f[i] \in 0..m
    OBVIOUS
  <2>1. i \in T /\ i <= n
    BY <1>1, <1>5
  <2> QED BY <2>1
<1>7. ASSUME NEW i \in Slots(cur)
      PROVE  \/ f[i] = f[i - 1]
             \/ f[i] = f[i - 1] + 1 /\ f[i] \in Slots(des) /\ DefEqual(cur.defs[i], des.defs[f[i]])
  <2>1. i \in 0..n /\ i # 0 /\ i - 1 \in 0..n
    BY <1>1
  <2>2. f[i - 1] \in 0..m
    BY <1>6, <2>1
  <2>3. \/ f[i] = f[i - 1]
        \/ f[i - 1] < m /\ f[i] = f[i - 1] + 1 /\ DefEqual(cur.defs[i], des.defs[f[i - 1] + 1])
    BY <1>2, <2>1
  <2> QED BY <1>1, <2>2, <2>3
<1>8. f[0] = 0
  BY <1>1, <1>2
<1> QED BY <1>6, <1>7, <1>8 DEF f, n, m

(***************************************************************************)
(* When none is left over, every desired partition is found in a slot that *)
(* is not dropped.                                                         *)
(***************************************************************************)
LEMMA AllFound ==
  ASSUME NEW cur \in Layout, NEW des \in Layout, Added(cur, des) = <<>>
  PROVE  \A k \in Slots(des) : \E i \in Slots(cur) \ Dropped(cur, des) :
           Consumed(cur, des)[i] = k /\ DefEqual(cur.defs[i], des.defs[k])
<1> DEFINE f == Consumed(cur, des)
           n == Len(cur.defs)
           m == Len(des.defs)
<1>1. n \in Nat /\ m \in Nat /\ Slots(cur) = 1..n /\ Slots(des) = 1..m /\ des.defs \in Seq(Definition)
  BY LayoutFacts
<1>2. /\ f[0] = 0 /\ \A i \in 0..n : f[i] \in 0..m
      /\ \A i \in Slots(cur) :
           \/ f[i] = f[i - 1]
           \/ f[i] = f[i - 1] + 1 /\ f[i] \in Slots(des) /\ DefEqual(cur.defs[i], des.defs[f[i]])
  BY ConsumedSteps
<1>3. Dropped(cur, des) = {i \in Slots(cur) : f[i] = f[i - 1]}
  BY DEF Dropped
<1>4. Added(cur, des) = SubSeq(des.defs, f[n] + 1, m)
  BY DEF Added
<1> HIDE DEF f, n, m
<1>5. f[n] = m
  <2> DEFINE rest == SubSeq(des.defs, f[n] + 1, m)
  <2>1. f[n] \in 0..m
    BY <1>1, <1>2
  <2>2. f[n] + 1 \in Nat \ {0} /\ m \in 0..Len(des.defs)
    BY <1>1, <2>1 DEF m
  <2>3. Len(rest) = IF f[n] + 1 <= m THEN m - (f[n] + 1) + 1 ELSE 0
    BY <1>1, <2>2, SubSeqLemma
  <2>4. rest = <<>>
    BY <1>4
  <2> HIDE DEF rest
  <2> QED BY <1>1, <2>1, <2>3, <2>4
<1> SUFFICES ASSUME NEW k \in Slots(des)
             PROVE  \E i \in Slots(cur) \ Dropped(cur, des) :
                      f[i] = k /\ DefEqual(cur.defs[i], des.defs[k])
  BY DEF f
<1> DEFINE T == {i \in 0..n : k <= f[i]}
<1>6. T \in SUBSET Nat /\ n \in T
  BY <1>1, <1>5
<1>7. PICK i \in T : \A j \in T : i <= j
  <2> HIDE DEF T
  <2> QED BY <1>6, LeastNumber
<1>8. i \in 1..n
  BY <1>1, <1>2
<1>9. i - 1 \in 0..n /\ i - 1 \notin T
  BY <1>1, <1>7, <1>8
<1>10. f[i - 1] < k /\ k <= f[i] /\ f[i] \in 0..m /\ f[i - 1] \in 0..m
  BY <1>1, <1>2, <1>9
<1>11. f[i] # f[i - 1] /\ f[i] = k
  <2>1. f[i] = f[i - 1] \/ f[i] = f[i - 1] + 1
    BY <1>1, <1>2, <1>8
  <2> QED BY <1>1, <1>10, <2>1
<1> QED BY <1>1, <1>2, <1>3, <1>8, <1>11

(***************************************************************************)
(* So what a DROP names is not desired, unless the clause has a name       *)
(* twice.                                                                  *)
(***************************************************************************)
LEMMA DropsAre ==
  ASSUME NEW cur \in Layout, NEW des \in Layout, DistinctNames(cur), Added(cur, des) = <<>>,
         NEW s \in DropStmts(cur, des)
  PROVE  /\ s \in PartitionStatement /\ s.op = "Drop" /\ s.names # <<>>
         /\ Elements(s.names) \cap NamesOf(des) = {}
<1> DEFINE D == Dropped(cur, des)
           c == Cardinality(D)
<1>1. Slots(cur) = 1..Len(cur.defs) /\ Len(cur.defs) \in Nat /\ D \subseteq Slots(cur) /\ D # {}
  BY LayoutFacts DEF Dropped, DropStmts
<1>2. IsFiniteSet(D) /\ c \in Nat \ {0}
  <2> HIDE DEF D
  <2>1. IsFiniteSet(1..Len(cur.defs))
    BY <1>1, FS_Interval
  <2> QED BY <1>1, <2>1, FS_Subset, FS_CardinalityType, FS_EmptySet
<1>3. PICK gone \in Ascending(D) :
        s = Alter("Drop", 0, [k \in DOMAIN gone |-> cur.defs[gone[k]].name], <<>>, 0)
  BY DEF DropStmts
<1>4. gone \in [1..c -> D]
  BY DEF Ascending
<1> DEFINE names == [k \in DOMAIN gone |-> cur.defs[gone[k]].name]
<1> HIDE DEF D, c
<1>5. names \in [1..c -> PartitionNames]
  <2>1. \A i \in D : cur.defs[i].name \in PartitionNames
    BY <1>1, LayoutFacts DEF Definition
  <2> QED BY <1>4, <2>1
<1>6. \A k \in 1..c : gone[k] \in D /\ names[k] = cur.defs[gone[k]].name
  BY <1>4
<1> HIDE DEF names
<1>7. names \in Seq(PartitionNames) /\ Len(names) = c /\ DOMAIN names = 1..c
  BY <1>2, <1>5, MappedSeq
<1>8. s \in PartitionStatement /\ s.op = "Drop" /\ s.names = names
  <2>1. <<>> \in Seq(Definition)
    OBVIOUS
  <2> QED BY <1>3, <1>7, <2>1 DEF Alter, PartitionStatement, names
<1>9. names # <<>>
  BY <1>2, <1>7
<1>10. ASSUME NEW k \in 1..c, names[k] \in NamesOf(des) PROVE FALSE
  <2>1. PICK j \in Slots(des) : des.defs[j].name = names[k]
    BY <1>10 DEF NamesOf
  <2>2. PICK i \in Slots(cur) \ D : DefEqual(cur.defs[i], des.defs[j])
    BY AllFound DEF D
  <2>3. cur.defs[i].name = des.defs[j].name
    <3>1. cur.defs[i] \in Definition /\ des.defs[j] \in Definition
      BY LayoutFacts
    <3> QED BY <2>2, <3>1 DEF DefEqual, Definition
  <2>4. gone[k] \in D /\ cur.defs[gone[k]].name = cur.defs[i].name
    BY <1>6, <2>1, <2>3
  <2> QED BY <1>1, <2>2, <2>4 DEF DistinctNames
<1> QED BY <1>7, <1>8, <1>9, <1>10 DEF Elements

(***************************************************************************)
(* What is added is desired.                                               *)
(***************************************************************************)
LEMMA AddsAre ==
  ASSUME NEW cur \in Layout, NEW des \in Layout, NEW s \in AddStmts(cur, des)
  PROVE  /\ s \in PartitionStatement /\ s.op = "Add" /\ s.into # <<>>
         /\ \A k \in DOMAIN s.into : s.into[k].name \in NamesOf(des)
<1> DEFINE a == Consumed(cur, des)[Len(cur.defs)] + 1
           m == Len(des.defs)
<1>1. /\ Len(cur.defs) \in Nat /\ m \in Nat /\ Slots(des) = 1..m
      /\ des.defs \in Seq(Definition)
  BY LayoutFacts
<1>2. a \in Nat \ {0}
  <2>1. Consumed(cur, des)[Len(cur.defs)] \in 0..m
    BY <1>1, ConsumedSteps
  <2> QED BY <1>1, <2>1
<1>3. s = Alter("Add", Len(cur.defs) + 1, <<>>, Added(cur, des), 0) /\ Added(cur, des) # <<>>
  BY DEF AddStmts
<1>4. Added(cur, des) = SubSeq(des.defs, a, m)
  BY DEF Added
<1> HIDE DEF a
<1> DEFINE into == SubSeq(des.defs, a, m)
<1>5. /\ into \in Seq(Definition)
      /\ Len(into) = IF a <= m THEN m - a + 1 ELSE 0
      /\ \A i \in 1..Len(into) : into[i] = des.defs[a + i - 1]
  <2>1. m \in 0..Len(des.defs)
    BY <1>1
  <2> QED BY <1>1, <1>2, <2>1, SubSeqLemma
<1> HIDE DEF into, m
<1>6. DOMAIN into = 1..Len(into) /\ Len(into) \in Nat
  BY <1>5
<1>7. \A k \in DOMAIN into : into[k].name \in NamesOf(des)
  <2> SUFFICES ASSUME NEW k \in DOMAIN into PROVE into[k].name \in NamesOf(des)
    OBVIOUS
  <2>1. a + k - 1 \in Slots(des)
    BY <1>1, <1>2, <1>5, <1>6
  <2> QED BY <1>5, <1>6, <2>1 DEF NamesOf
<1>8. s = Alter("Add", Len(cur.defs) + 1, <<>>, into, 0) /\ into # <<>>
  BY <1>3, <1>4 DEF into
<1>9. Len(cur.defs) + 1 \in Nat /\ <<>> \in Seq(PartitionNames)
  BY <1>1
<1> QED BY <1>5, <1>7, <1>8, <1>9 DEF Alter, PartitionStatement

(***************************************************************************)
(* So is everything that the last partition makes place for, and what is   *)
(* said anew of that one.                                                  *)
(***************************************************************************)
LEMMA CatchAllAre ==
  ASSUME NEW cur \in Layout, NEW des \in Layout, CatchAllInsert(cur, des),
         NEW s \in CatchAllStmts(cur, des)
  PROVE  /\ s \in PartitionStatement /\ s.op = "Reorganize"
         /\ s.names # <<>> /\ s.into # <<>>
         /\ \A k \in DOMAIN s.into : s.into[k].name \in NamesOf(des)
         /\ LET n == Len(cur.defs)
                m == Len(des.defs)
            IN  /\ s.names = <<cur.defs[n].name>> /\ Len(s.into) = m - n + 1
                /\ \A i \in 1..(m - n) : s.into[i] = des.defs[n + i - 1]
                /\ s.into[m - n + 1] = cur.defs[n]
<1> DEFINE n == Len(cur.defs)
           m == Len(des.defs)
           extras == Extras(cur, des)
           last == cur.defs[n]
<1>1. /\ n \in Nat /\ m \in Nat /\ Slots(des) = 1..m /\ Slots(cur) = 1..n
      /\ des.defs \in Seq(Definition) /\ 0 < n /\ n < m
      /\ last \in Definition /\ des.defs[m] \in Definition
  BY LayoutFacts DEF CatchAllInsert
<1>2. extras = SubSeq(des.defs, n, m - 1)
  BY DEF Extras
<1>3. /\ extras \in Seq(Definition) /\ Len(extras) = m - n
      /\ \A i \in 1..Len(extras) : extras[i] = des.defs[n + i - 1]
  <2>1. n \in Nat \ {0} /\ m - 1 \in 0..Len(des.defs) /\ n <= m - 1
    BY <1>1
  <2> HIDE DEF extras, n, m
  <2> QED BY <1>1, <1>2, <2>1, SubSeqLemma DEF m
<1>4. last.name \in NamesOf(des)
  <2>1. DefEqual(last, des.defs[m])
    BY DEF CatchAllInsert
  <2>2. last.name = des.defs[m].name
    BY <1>1, <2>1 DEF DefEqual, Definition
  <2> QED BY <1>1, <2>2 DEF NamesOf
<1>5. s = Alter("Reorganize", n, <<last.name>>, Append(extras, last), 0)
  BY DEF CatchAllStmts
<1> HIDE DEF n, m, extras, last
<1> DEFINE into == Append(extras, last)
<1>6. /\ into \in Seq(Definition) /\ Len(into) = Len(extras) + 1 /\ into # <<>>
      /\ DOMAIN into = 1..(Len(extras) + 1)
      /\ \A i \in 1..Len(extras) : into[i] = extras[i]
      /\ into[Len(extras) + 1] = last
  <2>1. extras \in Seq(Definition) /\ last \in Definition /\ Len(extras) \in Nat
    BY <1>1, <1>3
  <2>2. into \in Seq(Definition) /\ Len(into) = Len(extras) + 1
    BY <2>1
  <2>3. \A i \in 1..Len(extras) : into[i] = extras[i]
    BY <2>1
  <2>4. into[Len(extras) + 1] = last
    BY <2>1
  <2> HIDE DEF into
  <2>5. into # <<>> /\ DOMAIN into = 1..(Len(extras) + 1)
    BY <2>1, <2>2
  <2> QED BY <2>2, <2>3, <2>4, <2>5
<1> HIDE DEF into
<1>7. \A k \in DOMAIN into : into[k].name \in NamesOf(des)
  <2> SUFFICES ASSUME NEW k \in DOMAIN into PROVE into[k].name \in NamesOf(des)
    OBVIOUS
  <2>1. CASE k = Len(extras) + 1
    BY <1>4, <1>6, <2>1
  <2>2. CASE k \in 1..Len(extras)
    <3>1. n + k - 1 \in Slots(des)
      BY <1>1, <1>3, <2>2
    <3> QED BY <1>3, <1>6, <2>2, <3>1 DEF NamesOf
  <2> QED BY <1>1, <1>3, <1>6, <2>1, <2>2
<1>8. <<last.name>> \in Seq(PartitionNames) /\ <<last.name>> # <<>>
  BY <1>1 DEF Definition
<1>9. /\ s \in PartitionStatement /\ s.op = "Reorganize"
      /\ s.names = <<last.name>> /\ s.into = into
  BY <1>1, <1>5, <1>6, <1>8 DEF Alter, PartitionStatement, into
<1>10. /\ Len(into) = m - n + 1 /\ into[m - n + 1] = last
       /\ \A i \in 1..(m - n) : into[i] = des.defs[n + i - 1]
  BY <1>3, <1>6
<1> QED BY <1>6, <1>7, <1>8, <1>9, <1>10 DEF n, m, last

-----------------------------------------------------------------------------
(***************************************************************************)
(* What holds of a statement as long as it is pending, whatever the clause *)
(* l has become since it was planned.  DROP names only what is not desired *)
(* any more, and is permitted; what is put into the clause is desired.     *)
(* By LIST a REORGANIZE gives slots that have the names of the desired     *)
(* ones what is desired of them, either all that still have to change or   *)
(* only such that lose no value, and never takes a value from everybody    *)
(* unless that is permitted.                                               *)
(***************************************************************************)
Extent(s) == s.at .. (s.at + Len(s.names) - 1)

InPlace(s, l, des) ==
  /\ HeaderEqual(l, des) /\ NameListEqual(l, des)
  /\ Extent(s) \subseteq Slots(l) /\ Len(s.into) = Len(s.names)
  /\ \A k \in DOMAIN s.names :
       /\ s.names[k] = l.defs[s.at + k - 1].name
       /\ DefEqual(s.into[k], des.defs[s.at + k - 1])

KeepsValues(s, l, des) ==
  \/ Changed(l, des) \subseteq Extent(s)
  \/ \A i \in Changed(l, des) \cap Extent(s) : l.defs[i].in \subseteq des.defs[i].in

Moves(s, l, des, allow) ==
  /\ InPlace(s, l, des) /\ KeepsValues(s, l, des)
  /\ ~ListOverlap(des)
  /\ PartitionAllowed(allow) \/ ~Discards(l, des)

Sound(s, l, des, allow) ==
  /\ s.op = "Drop" =>
       /\ PartitionAllowed(allow) /\ s.names # <<>>
       /\ Elements(s.names) \cap NamesOf(des) = {}
  /\ s.op \in {"Reorganize", "Add"} =>
       s.into # <<>> /\ \A k \in DOMAIN s.into : s.into[k].name \in NamesOf(des)
  /\ s.op = "Reorganize" =>
       s.names # <<>> /\ (l.kind = "LIST" => Moves(s, l, des, allow))

(***************************************************************************)
(* A rewrite of some slots leaves them as desired.                         *)
(***************************************************************************)
LEMMA RewriteInPlace ==
  ASSUME NEW cur \in Layout, NEW des \in Layout, NameListEqual(cur, des),
         NEW first \in Slots(cur), NEW last \in Slots(cur), first <= last,
         NEW s, s = ReorganizeRun(cur, des, first, last)
  PROVE  /\ s \in PartitionStatement /\ s.op = "Reorganize" /\ Extent(s) = first..last
         /\ s.names # <<>> /\ s.into # <<>>
         /\ \A k \in DOMAIN s.into : s.into[k].name \in NamesOf(des)
         /\ HeaderEqual(cur, des) => InPlace(s, cur, des)
<1> DEFINE size == last - first + 1
           Body(i) == IF i \in Changed(cur, des) THEN des.defs[i] ELSE cur.defs[i]
<1>1. /\ Slots(cur) = 1..Len(cur.defs) /\ Len(cur.defs) \in Nat /\ Slots(des) = Slots(cur)
      /\ \A i \in Slots(cur) : cur.defs[i] \in Definition /\ des.defs[i] \in Definition
  BY LayoutFacts DEF NameListEqual
<1>2. /\ s.op = "Reorganize" /\ s.at = first
      /\ s.names = [k \in 1..size |-> cur.defs[first + k - 1].name]
      /\ s.into = [k \in 1..size |-> Body(first + k - 1)]
  BY DEF ReorganizeRun, Alter
<1>3. s \in PartitionStatement /\ Len(s.names) = size /\ Len(s.into) = size
  BY ReorganizeRunType
<1>4. size \in Nat \ {0} /\ \A k \in 1..size : first + k - 1 \in Slots(cur)
  BY <1>1
<1>5. \A i \in Slots(cur) : DefEqual(Body(i), des.defs[i])
  <2> SUFFICES ASSUME NEW i \in Slots(cur) PROVE DefEqual(Body(i), des.defs[i])
    OBVIOUS
  <2>1. CASE i \in Changed(cur, des)
    BY <1>1, <2>1 DEF DefEqual, Definition
  <2>2. CASE i \notin Changed(cur, des)
    BY <1>1, <2>2 DEF Changed
  <2> QED BY <2>1, <2>2
<1>6. \A i \in Slots(cur) : Body(i) \in Definition /\ Body(i).name = des.defs[i].name
  BY <1>1 DEF NameListEqual
<1> HIDE DEF Body
<1>7. \A k \in 1..size : s.into[k].name \in NamesOf(des)
  <2> SUFFICES ASSUME NEW k \in 1..size PROVE s.into[k].name \in NamesOf(des)
    OBVIOUS
  <2>1. s.into[k] = Body(first + k - 1) /\ first + k - 1 \in Slots(cur)
    BY <1>2, <1>4
  <2> QED BY <1>1, <1>6, <2>1 DEF NamesOf
<1>8. Extent(s) = first..last
  BY <1>1, <1>2, <1>3 DEF Extent
<1>9. s.names \in Seq(PartitionNames) /\ s.into \in Seq(Definition)
  BY <1>3 DEF PartitionStatement
<1> HIDE DEF size
<1>10. s.names # <<>> /\ s.into # <<>> /\ DOMAIN s.names = 1..size /\ DOMAIN s.into = 1..size
  BY <1>3, <1>4, <1>9
<1>11. \A k \in 1..size : /\ s.names[k] = cur.defs[s.at + k - 1].name
                          /\ DefEqual(s.into[k], des.defs[s.at + k - 1])
  BY <1>2, <1>4, <1>5
<1>12. Extent(s) \subseteq Slots(cur)
  BY <1>1, <1>8
<1> QED BY <1>2, <1>3, <1>7, <1>8, <1>10, <1>11, <1>12 DEF InPlace

(***************************************************************************)
(* Every statement of a plan is sound for the clause it is made from.      *)
(***************************************************************************)
LEMMA PlanSound ==
  ASSUME NEW l \in Layout, NEW des \in Layout, NEW allow, Creatable(l),
         ~PartitionsRefused(l, des, allow), NEW s \in PartitionsPlanned(l, des, allow)
  PROVE  s \in PartitionStatement /\ Sound(s, l, des, allow)
<1>1. /\ s \in Ordered(l, des) /\ l # des
      /\ s.op \in {"Drop", "Coalesce"} => PartitionAllowed(allow)
  BY DEF PartitionsPlanned, Ordered, Gated
<1>2. /\ HeaderEqual(l, des) /\ ~ListOverlap(des) /\ ~Reshaped(l, des)
      /\ NameListEqual(l, des) => PartitionAllowed(allow) \/ ~Discards(l, des)
  BY <1>1 DEF PartitionsRefused
<1>3. CASE l.kind = "HASH"
  <2>1. s \in CountStmts(l, des)
    BY <1>1, <1>3 DEF Ordered
  <2>2. l.count \in Int /\ des.count \in Int
    BY LayoutFacts DEF Unset
  <2>3. PICK n \in Nat :
          \/ s = Alter("AddCount", 0, <<>>, <<>>, n)
          \/ s = Alter("Coalesce", 0, <<>>, <<>>, n)
    <3>1. CASE l.count < des.count
      <4>1. (des.count - l.count) \in Nat
        BY <2>2, <3>1
      <4> QED BY <2>1, <3>1, <4>1 DEF CountStmts
    <3>2. CASE ~(l.count < des.count)
      <4>1. des.count < l.count /\ l.count - des.count \in Nat
        BY <2>1, <2>2, <3>2 DEF CountStmts
      <4> QED BY <2>1, <3>2, <4>1 DEF CountStmts
    <3> QED BY <3>1, <3>2
  <2>4. ASSUME NEW none, none \in Seq(PartitionNames), none \in Seq(Definition)
        PROVE  /\ Alter("AddCount", 0, none, none, n) \in PartitionStatement
               /\ Alter("Coalesce", 0, none, none, n) \in PartitionStatement
    BY <2>4 DEF Alter, PartitionStatement
  <2>5. <<>> \in Seq(PartitionNames) /\ <<>> \in Seq(Definition)
    OBVIOUS
  <2>6. s \in PartitionStatement
    BY <2>3, <2>4, <2>5, Zenon
  <2>7. s.op \in {"AddCount", "Coalesce"}
    BY <2>3 DEF Alter
  <2> QED BY <2>6, <2>7 DEF Sound
<1>4. CASE l.kind # "HASH" /\ NameListEqual(l, des)
  <2>1. s \in Rewrites(l, des)
    BY <1>1, <1>4 DEF Ordered
  <2>2. PICK first, last \in Slots(l) :
          /\ first <= last /\ s = ReorganizeRun(l, des, first, last)
          /\ ByRange(l) \/ Changed(l, des) \subseteq first..last \/ ChangedAreSupersets(l, des)
    BY <1>4, <2>1, RewritesAre
  <2>3. /\ s \in PartitionStatement /\ s.op = "Reorganize" /\ Extent(s) = first..last
        /\ s.names # <<>> /\ s.into # <<>>
        /\ \A k \in DOMAIN s.into : s.into[k].name \in NamesOf(des)
        /\ InPlace(s, l, des)
    BY <1>2, <1>4, <2>2, RewriteInPlace
  <2>4. l.kind = "LIST" => KeepsValues(s, l, des)
    BY <2>2, <2>3 DEF ByRange, ChangedAreSupersets, KeepsValues
  <2> QED BY <1>2, <1>4, <2>3, <2>4 DEF Sound, Moves
<1>5. CASE l.kind # "HASH" /\ ~NameListEqual(l, des) /\ CatchAllInsert(l, des)
  <2>1. s \in CatchAllStmts(l, des) /\ l.kind = "RANGE"
    BY <1>1, <1>5 DEF Ordered, CatchAllInsert
  <2> QED BY <1>5, <2>1, CatchAllAre DEF Sound
<1>6. CASE l.kind # "HASH" /\ ~NameListEqual(l, des) /\ ~CatchAllInsert(l, des)
  <2>1. s \in AddStmts(l, des) \/ s \in DropStmts(l, des)
    BY <1>1, <1>6 DEF Ordered
  <2>2. CASE s \in AddStmts(l, des)
    BY <2>2, AddsAre DEF Sound
  <2>3. CASE s \in DropStmts(l, des)
    <3>1. Added(l, des) = <<>>
      BY <1>2, <1>6, <2>3 DEF Reshaped, DropStmts
    <3>2. DistinctNames(l)
      BY DEF Creatable
    <3> QED BY <1>1, <2>3, <3>1, <3>2, DropsAre DEF Sound
  <2> QED BY <2>1, <2>2, <2>3
<1> QED BY <1>3, <1>4, <1>5, <1>6

-----------------------------------------------------------------------------
(***************************************************************************)
(* Where a concatenation has the elements of both, by their lengths.       *)
(***************************************************************************)
LEMMA Joined ==
  ASSUME NEW S, NEW s \in Seq(S), NEW t \in Seq(S)
  PROVE  /\ s \o t \in Seq(S) /\ Len(s \o t) = Len(s) + Len(t)
         /\ \A i \in 1..Len(s) : (s \o t)[i] = s[i]
         /\ \A j \in 1..Len(t) : (s \o t)[Len(s) + j] = t[j]
<1> DEFINE u == s \o t
           a == Len(s)
           b == Len(t)
<1>1. /\ u \in Seq(S) /\ DOMAIN u = 1..(Len(s) + Len(t))
      /\ \A i \in 1..Len(s) : u[i] = s[i]
      /\ \A i \in (Len(s) + 1)..(Len(s) + Len(t)) : u[i] = t[i - Len(s)]
  BY JoinLemma
<1> HIDE DEF u
<1>2. a \in Nat /\ b \in Nat
  OBVIOUS
<1>3. Len(u) = a + b
  BY <1>1, <1>2
<1>4. ASSUME NEW j \in 1..b PROVE u[a + j] = t[j]
  <2>1. a + j \in (a + 1)..(a + b) /\ a + j - a = j
    BY <1>2
  <2> QED BY <1>1, <2>1
<1> QED BY <1>1, <1>3, <1>4 DEF u

(***************************************************************************)
(* What a splice puts where.                                               *)
(***************************************************************************)
LEMMA SpliceLemma ==
  ASSUME NEW l \in Layout, NEW into \in Seq(Definition),
         NEW first \in Slots(l), NEW last \in Slots(l), first <= last
  PROVE  LET r == Splice(l, first, last, into)
             n == Len(l.defs)
             w == Len(into)
         IN  /\ r \in Layout /\ r.kind = l.kind /\ r.scheme = l.scheme
             /\ Len(r.defs) = n - (last - first + 1) + w
             /\ Slots(r) = 1..(n - (last - first + 1) + w)
             /\ \A i \in 1..(first - 1) : r.defs[i] = l.defs[i]
             /\ \A k \in 1..w : r.defs[first + k - 1] = into[k]
             /\ \A i \in (last + 1)..n : r.defs[i - (last - first + 1) + w] = l.defs[i]
<1> DEFINE n == Len(l.defs)
           w == Len(into)
           head == SubSeq(l.defs, 1, first - 1)
           tail == SubSeq(l.defs, last + 1, n)
           all == (head \o into) \o tail
           r == Splice(l, first, last, into)
<1>1. /\ n \in Nat /\ w \in Nat /\ Slots(l) = 1..n /\ l.defs \in Seq(Definition)
      /\ first \in 1..n /\ last \in 1..n
  BY LayoutFacts
<1>2. /\ head \in Seq(Definition) /\ Len(head) = first - 1
      /\ \A i \in 1..(first - 1) : head[i] = l.defs[i]
  <2>1. first - 1 \in 0..Len(l.defs) /\ 1 \in Nat \ {0}
    BY <1>1
  <2>2. /\ head \in Seq(Definition)
        /\ Len(head) = IF 1 <= first - 1 THEN first - 1 - 1 + 1 ELSE 0
        /\ \A i \in 1..Len(head) : head[i] = l.defs[1 + i - 1]
    BY <1>1, <2>1, SubSeqLemma
  <2> HIDE DEF head
  <2>3. Len(head) = first - 1
    BY <1>1, <2>2
  <2> QED BY <1>1, <2>2, <2>3
<1>3. /\ tail \in Seq(Definition) /\ Len(tail) = n - last
      /\ \A i \in 1..(n - last) : tail[i] = l.defs[last + i]
  <2>1. last + 1 \in Nat \ {0} /\ n \in 0..Len(l.defs)
    BY <1>1
  <2>2. /\ tail \in Seq(Definition)
        /\ Len(tail) = IF last + 1 <= n THEN n - (last + 1) + 1 ELSE 0
        /\ \A i \in 1..Len(tail) : tail[i] = l.defs[last + 1 + i - 1]
    BY <1>1, <2>1, SubSeqLemma
  <2> HIDE DEF tail, n
  <2>3. Len(tail) = n - last
    BY <1>1, <2>2
  <2> QED BY <1>1, <2>2, <2>3
<1> HIDE DEF head, tail, n, w
<1> DEFINE front == head \o into
<1>4. /\ front \in Seq(Definition) /\ Len(front) = first - 1 + w
      /\ \A i \in 1..(first - 1) : front[i] = l.defs[i]
      /\ \A k \in 1..w : front[first - 1 + k] = into[k]
  <2>1. /\ front \in Seq(Definition) /\ Len(front) = Len(head) + w
        /\ \A i \in 1..Len(head) : front[i] = head[i]
        /\ \A k \in 1..w : front[Len(head) + k] = into[k]
    <3>1. head \in Seq(Definition) /\ into \in Seq(Definition)
      BY <1>2
    <3>2. /\ head \o into \in Seq(Definition) /\ Len(head \o into) = Len(head) + Len(into)
          /\ \A i \in 1..Len(head) : (head \o into)[i] = head[i]
          /\ \A k \in 1..Len(into) : (head \o into)[Len(head) + k] = into[k]
      BY <3>1, Joined, SMTT(30)
    <3> QED BY <3>2 DEF w
  <2> HIDE DEF front
  <2> QED BY <1>2, <2>1
<1> HIDE DEF front
<1>5. /\ all \in Seq(Definition) /\ Len(all) = (first - 1 + w) + (n - last)
      /\ \A i \in 1..(first - 1 + w) : all[i] = front[i]
      /\ \A j \in 1..(n - last) : all[(first - 1 + w) + j] = tail[j]
  <2>1. /\ all \in Seq(Definition) /\ Len(all) = Len(front) + Len(tail)
        /\ \A i \in 1..Len(front) : all[i] = front[i]
        /\ \A j \in 1..Len(tail) : all[Len(front) + j] = tail[j]
    <3>1. all = front \o tail
      BY DEF front
    <3>2. front \in Seq(Definition) /\ tail \in Seq(Definition)
      BY <1>3, <1>4
    <3> HIDE DEF all, tail
    <3> QED BY <3>1, <3>2, Joined
  <2> HIDE DEF all
  <2>2. Len(front) + Len(tail) = (first - 1 + w) + (n - last)
    BY <1>3, <1>4
  <2> QED BY <1>3, <1>4, <2>1, <2>2
<1>6. /\ r.defs = all /\ r \in Layout /\ r.kind = l.kind /\ r.scheme = l.scheme
  <2>1. r = [l EXCEPT !.defs = all]
    BY DEF Splice, head, tail, n
  <2> HIDE DEF all
  <2> QED BY <1>5, <2>1 DEF Layout
<1> HIDE DEF all, r
<1>7. Len(r.defs) = n - (last - first + 1) + w /\ Slots(r) = 1..(n - (last - first + 1) + w)
  <2>1. first - 1 + w + (n - last) = n - (last - first + 1) + w
    BY <1>1
  <2>2. Slots(r) = 1..Len(r.defs)
    BY <1>6, LayoutFacts
  <2> QED BY <1>5, <1>6, <2>1, <2>2
<1>8. \A i \in 1..(first - 1) : r.defs[i] = l.defs[i]
  <2>1. \A i \in 1..(first - 1) : i \in 1..(first - 1 + w)
    BY <1>1
  <2> QED BY <1>4, <1>5, <1>6, <2>1
<1>9. \A k \in 1..w : r.defs[first + k - 1] = into[k]
  <2>1. \A k \in 1..w : first + k - 1 = first - 1 + k /\ first - 1 + k \in 1..(first - 1 + w)
    BY <1>1
  <2> QED BY <1>4, <1>5, <1>6, <2>1
<1>10. \A i \in (last + 1)..n : r.defs[i - (last - first + 1) + w] = l.defs[i]
  <2> SUFFICES ASSUME NEW i \in (last + 1)..n PROVE r.defs[i - (last - first + 1) + w] = l.defs[i]
    OBVIOUS
  <2>1. /\ i - last \in 1..(n - last) /\ last + (i - last) = i
        /\ i - (last - first + 1) + w = first - 1 + w + (i - last)
    BY <1>1
  <2> QED BY <1>3, <1>5, <1>6, <2>1
<1> QED BY <1>6, <1>7, <1>8, <1>9, <1>10 DEF r, n, w

(***************************************************************************)
(* What a DROP leaves: the partitions it does not name, in their order.    *)
(***************************************************************************)
LEMMA AscendingLists ==
  ASSUME NEW n \in Nat, NEW S \in SUBSET (1..n)
  PROVE  Ascending(S) = Listings(S)
<1> DEFINE c == Cardinality(S)
<1>1. IsFiniteSet(S) /\ c \in Nat
  <2>1. IsFiniteSet(1..n)
    BY FS_Interval
  <2> QED BY <2>1, FS_Subset, FS_CardinalityType
<1>2. Listings(S) \subseteq Ascending(S)
  BY DEF Listings, Ascending
<1> SUFFICES ASSUME NEW a \in Ascending(S) PROVE \A i \in S : \E k \in 1..c : a[k] = i
  BY <1>2 DEF Listings, Ascending
<1>3. a \in [1..c -> S] /\ \A j, k \in 1..c : j < k => a[j] < a[k]
  BY DEF Ascending
<1> HIDE DEF c
<1>4. a \in Seq(S) /\ Len(a) = c /\ DOMAIN a = 1..c
  BY <1>1, <1>3, MappedSeq
<1>5. Injective(a)
  <2> SUFFICES ASSUME NEW j \in 1..c, NEW k \in 1..c, a[j] = a[k] PROVE j = k
    BY <1>4 DEF Injective
  <2>1. a[j] \in Int /\ a[k] = a[j]
    <3>1. \A i \in S : i \in Int
      OBVIOUS
    <3>2. a[j] \in S
      BY <1>3
    <3> QED BY <3>1, <3>2
  <2>2. ~(j < k) /\ ~(k < j)
    BY <1>3, <2>1
  <2> QED BY <1>1, <2>2
<1>6. Elems(a) = S
  BY <1>1, <1>4, <1>5, FullLemma DEF c
<1> QED BY <1>4, <1>6 DEF Elems

Survivors(l, names) == {i \in Slots(l) : l.defs[i].name \notin Elements(names)}

LEMMA KeptLemma ==
  ASSUME NEW l \in Layout, NEW set \in SUBSET Slots(l), NEW kept \in Ascending(set),
         NEW r, r = Pick(l, kept)
  PROVE  /\ r \in Layout /\ r.kind = l.kind /\ r.scheme = l.scheme
         /\ \A k \in Slots(r) : kept[k] \in set /\ r.defs[k] = l.defs[kept[k]]
         /\ \A j, k \in Slots(r) : j < k => kept[j] < kept[k]
         /\ \A i \in set : \E k \in Slots(r) : kept[k] = i
<1> DEFINE c == Cardinality(set)
           defs == [k \in DOMAIN kept |-> l.defs[kept[k]]]
<1>1. Slots(l) = 1..Len(l.defs) /\ Len(l.defs) \in Nat /\ \A i \in Slots(l) : l.defs[i] \in Definition
  BY LayoutFacts
<1>2. IsFiniteSet(set) /\ c \in Nat
  <2>1. IsFiniteSet(1..Len(l.defs))
    <3>1. 1 \in Int /\ Len(l.defs) \in Int
      BY <1>1
    <3> QED BY ONLY <3>1, FS_Interval
  <2> QED BY <1>1, <2>1, FS_Subset, FS_CardinalityType
<1>3. kept \in [1..c -> set] /\ \A j, k \in 1..c : j < k => kept[j] < kept[k]
  BY DEF Ascending
<1> HIDE DEF c
<1>4. defs \in [1..c -> Definition]
  BY <1>1, <1>3
<1> HIDE DEF defs
<1>5. defs \in Seq(Definition) /\ DOMAIN defs = 1..c
  BY <1>2, <1>4, MappedSeq
<1>6. r \in Layout /\ r.kind = l.kind /\ r.scheme = l.scheme /\ Slots(r) = 1..c /\ r.defs = defs
  <2>1. r = [l EXCEPT !.defs = defs]
    BY DEF defs, Pick
  <2> QED BY <1>5, <2>1 DEF Layout, Slots
<1>7. \A k \in 1..c : kept[k] \in set /\ r.defs[k] = l.defs[kept[k]]
  BY <1>3, <1>6 DEF defs
<1>8. \A i \in set : \E k \in 1..c : kept[k] = i
  <2>1. kept \in Listings(set)
    BY <1>1, AscendingLists
  <2> QED BY <1>3, <2>1 DEF Listings
<1> QED BY <1>3, <1>6, <1>7, <1>8

(***************************************************************************)
(* A statement changes neither the kind nor the scheme of a clause.        *)
(***************************************************************************)
LEMMA ResultType ==
  ASSUME NEW l \in Layout, NEW s \in PartitionStatement, NEW r \in Results(l, s),
         s.op = "Reorganize" => s.names # <<>>
  PROVE  r \in Layout /\ r.kind = l.kind /\ r.scheme = l.scheme
<1>1. /\ s.op \in {"Reorganize", "Add", "Drop", "AddCount", "Coalesce"}
      /\ s.names \in Seq(PartitionNames) /\ s.into \in Seq(Definition) /\ s.n \in Nat
  BY DEF PartitionStatement
<1>2. l.defs \in Seq(Definition) /\ Number(l) \in Nat
  BY LayoutFacts
<1>3. CASE s.op = "Reorganize"
  <2>1. PICK first \in Named(l, s.names) : r = Splice(l, first, first + Len(s.names) - 1, s.into)
    BY <1>3 DEF Results
  <2>2. first \in Slots(l) /\ first + Len(s.names) - 1 \in Slots(l)
    BY DEF Named
  <2>3. first <= first + Len(s.names) - 1
    BY <1>1, <1>3, <2>2, LayoutFacts
  <2> QED BY <1>1, <2>1, <2>2, <2>3, SpliceLemma
<1>4. CASE s.op = "Add"
  <2>1. r = [l EXCEPT !.defs = @ \o s.into]
    BY <1>4 DEF Results
  <2>2. l.defs \o s.into \in Seq(Definition)
    BY <1>1, <1>2
  <2> QED BY <2>1, <2>2 DEF Layout
<1>5. CASE s.op = "Drop"
  <2>1. PICK kept \in Ascending(Survivors(l, s.names)) : r = Pick(l, kept)
    BY <1>5 DEF Results, Survivors
  <2>2. Survivors(l, s.names) \in SUBSET Slots(l)
    BY DEF Survivors
  <2> QED BY <2>1, <2>2, KeptLemma
<1>6. CASE s.op = "AddCount"
  <2>1. r = [l EXCEPT !.count = Number(l) + s.n] /\ Number(l) + s.n \in Nat
    BY <1>1, <1>2, <1>6 DEF Results
  <2> QED BY <2>1 DEF Layout
<1>7. CASE s.op = "Coalesce"
  <2>1. r = [l EXCEPT !.count = Number(l) - s.n] /\ Number(l) - s.n \in Nat
    BY <1>1, <1>2, <1>7 DEF Results
  <2> QED BY <2>1 DEF Layout
<1> QED BY <1>1, <1>3, <1>4, <1>5, <1>6, <1>7

-----------------------------------------------------------------------------
(***************************************************************************)
(* By RANGE a value has a home when some bound is above it.                *)
(***************************************************************************)
LEMMA RangeHome ==
  ASSUME NEW l \in Layout, ByRange(l), NEW v \in Values
  PROVE  v \in Homed(l) <=> \E i \in Slots(l) : v < l.defs[i].to
<1> DEFINE T == {i \in Slots(l) : v < l.defs[i].to}
<1>1. /\ Slots(l) = 1..Len(l.defs) /\ Len(l.defs) \in Nat /\ v \in Int
      /\ \A i \in Slots(l) : l.defs[i].to \in Int
  BY LayoutFacts, BoundsAssumption
<1>2. l.kind \notin {"none", "HASH"}
  BY DEF ByRange
<1>3. ASSUME T # {} PROVE HomeOf(l, v) # {}
  <2>1. T \in SUBSET Nat
    BY <1>1
  <2>2. PICK i \in T : \A j \in T : i <= j
    <3> HIDE DEF T
    <3> QED BY <1>3, <2>1, LeastNumber
  <2>3. \A j \in 1..(i - 1) : l.defs[j].to <= v
    <3> SUFFICES ASSUME NEW j \in 1..(i - 1) PROVE l.defs[j].to <= v
      OBVIOUS
    <3>1. j \in Slots(l) /\ ~(i <= j)
      BY <1>1
    <3> QED BY <1>1, <2>2, <3>1
  <2> QED BY <2>3 DEF HomeOf, Takes
<1>4. ASSUME HomeOf(l, v) # {} PROVE T # {}
  BY <1>4 DEF HomeOf, Takes
<1> QED BY <1>2, <1>3, <1>4 DEF Homed

(***************************************************************************)
(* By LIST, and for a clause without values, the partition says it all.    *)
(***************************************************************************)
LEMMA ListHome ==
  ASSUME NEW l \in Layout, ~ByRange(l), NEW v \in Values
  PROVE  /\ HomeOf(l, v) = {i \in Slots(l) : v \in l.defs[i].in}
         /\ l.kind = "LIST" => (v \in Homed(l) <=> v \in ListValues(l))
         /\ l.kind # "LIST" => v \in Homed(l)
<1>1. HomeOf(l, v) = {i \in Slots(l) : v \in l.defs[i].in}
  BY DEF HomeOf, Takes
<1>2. CASE l.kind = "LIST"
  <2>1. v \in Homed(l) <=> HomeOf(l, v) # {}
    BY <1>2 DEF Homed
  <2>2. v \in ListValues(l) <=> \E i \in Slots(l) : v \in l.defs[i].in
    BY DEF ListValues
  <2> QED BY <1>1, <1>2, <2>1, <2>2
<1>3. CASE l.kind # "LIST"
  <2>1. l.kind \in {"none", "HASH"}
    BY <1>3 DEF Layout, Kinds, ByRange
  <2> QED BY <1>1, <1>3, <2>1 DEF Homed
<1> QED BY <1>2, <1>3

(***************************************************************************)
(* Where the partitions of a REORGANIZE are in its result.                 *)
(***************************************************************************)
LEMMA Reorganized ==
  ASSUME NEW l \in Layout, NEW s \in PartitionStatement, s.op = "Reorganize", s.names # <<>>,
         NEW r \in Results(l, s)
  PROVE  \E first, last \in Slots(l) :
           LET n == Len(l.defs)
               w == Len(s.into)
           IN  /\ first <= last /\ last = first + Len(s.names) - 1
               /\ \A k \in DOMAIN s.names : l.defs[first + k - 1].name = s.names[k]
               /\ KeepsTotalRange(l, last, s.into)
               /\ r \in Layout /\ r.kind = l.kind /\ r.scheme = l.scheme
               /\ Slots(r) = 1..(n - (last - first + 1) + w)
               /\ \A i \in 1..(first - 1) : r.defs[i] = l.defs[i]
               /\ \A k \in 1..w : r.defs[first + k - 1] = s.into[k]
               /\ \A i \in (last + 1)..n : r.defs[i - (last - first + 1) + w] = l.defs[i]
<1>1. s.names \in Seq(PartitionNames) /\ s.into \in Seq(Definition)
  BY DEF PartitionStatement
<1>2. PICK first \in Named(l, s.names) :
        /\ KeepsTotalRange(l, first + Len(s.names) - 1, s.into)
        /\ r = Splice(l, first, first + Len(s.names) - 1, s.into)
  BY DEF Results
<1> DEFINE last == first + Len(s.names) - 1
<1>3. /\ first \in Slots(l) /\ last \in Slots(l)
      /\ \A k \in DOMAIN s.names : l.defs[first + k - 1].name = s.names[k]
  BY DEF Named
<1>4. first <= last
  BY <1>1, <1>3, LayoutFacts
<1>5. LET n == Len(l.defs)
          w == Len(s.into)
      IN  /\ r \in Layout /\ r.kind = l.kind /\ r.scheme = l.scheme
          /\ Slots(r) = 1..(n - (last - first + 1) + w)
          /\ \A i \in 1..(first - 1) : r.defs[i] = l.defs[i]
          /\ \A k \in 1..w : r.defs[first + k - 1] = s.into[k]
          /\ \A i \in (last + 1)..n : r.defs[i - (last - first + 1) + w] = l.defs[i]
  BY <1>1, <1>2, <1>3, <1>4, SpliceLemma
<1> QED BY <1>2, <1>3, <1>4, <1>5

(***************************************************************************)
(* The total range never shrinks: by RANGE no REORGANIZE loses a value.    *)
(***************************************************************************)
LEMMA RangeKept ==
  ASSUME NEW l \in Layout, Creatable(l), ByRange(l), NEW s \in PartitionStatement,
         s.op = "Reorganize", s.names # <<>>, s.into # <<>>, NEW r \in Results(l, s)
  PROVE  Homed(l) \subseteq Homed(r)
<1> DEFINE n == Len(l.defs)
           w == Len(s.into)
<1>1. PICK first, last \in Slots(l) :
        /\ first <= last
        /\ KeepsTotalRange(l, last, s.into)
        /\ r \in Layout /\ r.kind = l.kind
        /\ Slots(r) = 1..(n - (last - first + 1) + w)
        /\ \A k \in 1..w : r.defs[first + k - 1] = s.into[k]
        /\ \A i \in (last + 1)..n : r.defs[i - (last - first + 1) + w] = l.defs[i]
  BY Reorganized
<1>2. s.into \in Seq(Definition)
  BY DEF PartitionStatement
<1>3. w \in Nat \ {0}
  BY <1>2
<1>4. /\ Slots(l) = 1..n /\ n \in Nat /\ ByRange(r)
      /\ \A i \in Slots(l) : l.defs[i].to \in Int
      /\ \A i \in Slots(r) : r.defs[i].to \in Int
  BY <1>1, LayoutFacts DEF ByRange
<1>5. \A i \in Slots(l) : l.defs[i].to <= l.defs[n].to
  <2>1. \A i, j \in Slots(l) : i < j => l.defs[i].to < l.defs[j].to
    BY DEF Creatable, Increasing
  <2>2. n \in Slots(l)
    BY <1>1, <1>4
  <2> SUFFICES ASSUME NEW i \in Slots(l) PROVE l.defs[i].to <= l.defs[n].to
    OBVIOUS
  <2>3. i < n \/ i = n
    BY <1>4
  <2>4. l.defs[i].to \in Int /\ l.defs[n].to \in Int
    BY <1>4, <2>2
  <2>5. l.defs[i].to < l.defs[n].to \/ i = n
    BY <2>1, <2>2, <2>3
  <2> QED BY <2>4, <2>5
<1>6. \E e \in Slots(r) : l.defs[n].to <= r.defs[e].to
  <2>1. CASE last = n
    <3>1. l.defs[n].to <= s.into[w].to
      BY <1>1, <2>1 DEF KeepsTotalRange
    <3>2. n - (last - first + 1) + w = first + w - 1 /\ first + w - 1 \in 1..(first + w - 1)
      BY <1>3, <1>4, <2>1, SMTT(30)
    <3>3. r.defs[first + w - 1] = s.into[w]
      BY <1>1, <1>3
    <3>4. first + w - 1 \in Slots(r)
      BY <1>1, <3>2
    <3> QED BY <3>1, <3>3, <3>4
  <2>2. CASE last # n
    <3>1. n \in (last + 1)..n /\ n - (last - first + 1) + w \in Slots(r)
      BY <1>1, <1>3, <1>4, <2>2
    <3>2. r.defs[n - (last - first + 1) + w] = l.defs[n]
      BY <1>1, <3>1
    <3>3. l.defs[n].to \in Int
      BY <1>4, <3>1, <1>1
    <3> QED BY <3>1, <3>2, <3>3
  <2> QED BY <2>1, <2>2
<1>7. PICK e \in Slots(r) : l.defs[n].to <= r.defs[e].to
  BY <1>6
<1> SUFFICES ASSUME NEW v \in Homed(l) PROVE v \in Homed(r)
  OBVIOUS
<1>8. v \in Values /\ v \in Int
  BY BoundsAssumption DEF Homed
<1>9. PICK i \in Slots(l) : v < l.defs[i].to
  BY <1>8, RangeHome
<1>10. v < r.defs[e].to
  <2>1. n \in Slots(l)
    BY <1>1, <1>4
  <2>2. l.defs[i].to \in Int /\ l.defs[n].to \in Int /\ r.defs[e].to \in Int
    BY <1>4, <2>1
  <2>3. l.defs[i].to <= l.defs[n].to
    BY <1>5
  <2> QED BY <1>7, <1>8, <1>9, <2>2, <2>3
<1> QED BY <1>1, <1>4, <1>8, <1>10, RangeHome

-----------------------------------------------------------------------------
(***************************************************************************)
(* A REORGANIZE in place leaves its slots as desired and the others alone. *)
(***************************************************************************)
LEMMA DefEqualFields ==
  ASSUME NEW a \in Definition, NEW b \in Definition, DefEqual(a, b)
  PROVE  a.name = b.name /\ a.to = b.to /\ a.in = b.in /\ a.option = b.option
BY DEF DefEqual, Definition

LEMMA InPlaceResult ==
  ASSUME NEW l \in Layout, DistinctNames(l), NEW des \in Layout,
         NEW s \in PartitionStatement, s.op = "Reorganize", s.names # <<>>, InPlace(s, l, des),
         NEW r \in Results(l, s)
  PROVE  /\ r \in Layout /\ r.kind = l.kind /\ r.scheme = l.scheme /\ Slots(r) = Slots(l)
         /\ \A i \in Extent(s) : DefEqual(r.defs[i], des.defs[i])
         /\ \A i \in Slots(l) \ Extent(s) : r.defs[i] = l.defs[i]
<1> DEFINE n == Len(l.defs)
           w == Len(s.into)
<1>1. PICK first, last \in Slots(l) :
        /\ first <= last /\ last = first + Len(s.names) - 1
        /\ \A k \in DOMAIN s.names : l.defs[first + k - 1].name = s.names[k]
        /\ r \in Layout /\ r.kind = l.kind /\ r.scheme = l.scheme
        /\ Slots(r) = 1..(n - (last - first + 1) + w)
        /\ \A i \in 1..(first - 1) : r.defs[i] = l.defs[i]
        /\ \A k \in 1..w : r.defs[first + k - 1] = s.into[k]
        /\ \A i \in (last + 1)..n : r.defs[i - (last - first + 1) + w] = l.defs[i]
  BY Reorganized
<1>2. s.names \in Seq(PartitionNames) /\ s.at \in Nat
  BY DEF PartitionStatement
<1>3. Len(s.names) \in Nat \ {0} /\ DOMAIN s.names = 1..Len(s.names)
  BY <1>2
<1>4. /\ Extent(s) \subseteq Slots(l) /\ w = Len(s.names)
      /\ \A k \in DOMAIN s.names :
           /\ s.names[k] = l.defs[s.at + k - 1].name
           /\ DefEqual(s.into[k], des.defs[s.at + k - 1])
  BY DEF InPlace
<1>5. Slots(l) = 1..n /\ n \in Nat
  BY LayoutFacts
<1>6. first = s.at
  <2>1. 1 \in DOMAIN s.names /\ s.at \in Extent(s) /\ first + 1 - 1 = first /\ s.at + 1 - 1 = s.at
    BY <1>2, <1>3, <1>5 DEF Extent
  <2>2. l.defs[first].name = l.defs[s.at].name /\ s.at \in Slots(l)
    BY <1>1, <1>4, <2>1
  <2> QED BY <2>2 DEF DistinctNames
<1>7. /\ Extent(s) = first..last /\ last - first + 1 = w /\ w \in Nat
      /\ n - (last - first + 1) + w = n
  BY <1>1, <1>2, <1>3, <1>4, <1>5, <1>6 DEF Extent
<1>8. Slots(r) = Slots(l)
  BY <1>1, <1>5, <1>7
<1>9. ASSUME NEW i \in Extent(s) PROVE DefEqual(r.defs[i], des.defs[i])
  <2> DEFINE k == i - first + 1
  <2>1. first \in Int /\ last \in Int /\ i \in first..last
    BY <1>5, <1>7
  <2>2. k \in 1..w /\ first + k - 1 = i
    BY <1>7, <2>1
  <2> HIDE DEF k
  <2>3. s.at + k - 1 = i /\ k \in DOMAIN s.names
    BY <1>3, <1>4, <1>6, <2>2
  <2>4. DefEqual(s.into[k], des.defs[s.at + k - 1])
    BY <1>4, <2>3
  <2>5. r.defs[first + k - 1] = s.into[k]
    BY <1>1, <2>2
  <2> QED BY <2>2, <2>3, <2>4, <2>5
<1>10. ASSUME NEW i \in Slots(l) \ Extent(s) PROVE r.defs[i] = l.defs[i]
  <2>1. i \in 1..(first - 1) \/ i \in (last + 1)..n
    BY <1>5, <1>7, SMTT(30)
  <2>2. i - (last - first + 1) + w = i
    BY <1>5, <1>7, SMTT(30)
  <2>3. CASE i \in 1..(first - 1)
    BY <1>1, <2>3
  <2>4. CASE i \in (last + 1)..n
    BY <1>1, <2>2, <2>4
  <2> QED BY <2>1, <2>3, <2>4
<1> QED BY <1>1, <1>8, <1>9, <1>10

(***************************************************************************)
(* By LIST such a statement keeps the values that are desired; and all of  *)
(* them unless dropping partitions is permitted.                           *)
(***************************************************************************)
LEMMA MovesKeep ==
  ASSUME NEW l \in Layout, Creatable(l), l.kind = "LIST", NEW des \in Layout, NEW allow,
         NEW s \in PartitionStatement, s.op = "Reorganize", s.names # <<>>,
         Moves(s, l, des, allow), NEW r \in Results(l, s), NEW v \in Homed(l),
         v \in Homed(des) \/ ~PartitionAllowed(allow)
  PROVE  v \in Homed(r)
<1>1. /\ HeaderEqual(l, des) /\ Slots(des) = Slots(l)
      /\ KeepsValues(s, l, des) /\ ~ListOverlap(des) /\ Extent(s) \subseteq Slots(l)
      /\ PartitionAllowed(allow) \/ ~Discards(l, des)
  BY DEF Moves, InPlace, NameListEqual
<1>2. /\ r \in Layout /\ r.kind = "LIST" /\ Slots(r) = Slots(l)
      /\ \A i \in Extent(s) : DefEqual(r.defs[i], des.defs[i])
      /\ \A i \in Slots(l) \ Extent(s) : r.defs[i] = l.defs[i]
  BY InPlaceResult DEF Creatable, Moves
<1>3. v \in Values /\ des.kind = "LIST" /\ ~ByRange(l) /\ ~ByRange(des) /\ ~ByRange(r)
  BY <1>1, <1>2 DEF Homed, HeaderEqual, ByRange
<1>4. v \in ListValues(l) /\ v \in ListValues(des)
  <2>1. v \in ListValues(l)
    BY <1>3, ListHome
  <2>2. v \in Homed(des) => v \in ListValues(des)
    BY <1>3, ListHome
  <2> QED BY <1>1, <2>1, <2>2 DEF Discards
<1>5. PICK i \in Slots(l) : v \in l.defs[i].in
  BY <1>4 DEF ListValues
<1>6. PICK j \in Slots(l) : v \in des.defs[j].in
  BY <1>1, <1>4 DEF ListValues
<1>7. \A k \in Slots(l) : /\ l.defs[k] \in Definition /\ des.defs[k] \in Definition
                          /\ r.defs[k] \in Definition
  BY <1>1, <1>2, LayoutFacts
<1>8. \A k \in Slots(l) : v \in r.defs[k].in => v \in Homed(r)
  <2>1. \A k \in Slots(r) : v \in r.defs[k].in => v \in ListValues(r)
    BY DEF ListValues
  <2> QED BY <1>2, <1>3, <2>1, ListHome
<1>9. CASE i \notin Extent(s)
  BY <1>2, <1>5, <1>8, <1>9
<1>10. CASE j \in Extent(s)
  <2>1. r.defs[j].in = des.defs[j].in
    BY <1>2, <1>7, <1>10, DefEqualFields
  <2> QED BY <1>6, <1>8, <2>1
<1>11. CASE i \in Extent(s) /\ j \notin Extent(s)
  <2>1. l.defs[j].in # des.defs[j].in
    <3>1. i # j /\ v \notin l.defs[j].in
      BY <1>3, <1>5, <1>11 DEF Creatable, Disjoint
    <3> QED BY <1>6, <3>1
  <2>2. j \in Changed(l, des)
    BY <1>7, <2>1, DefEqualFields DEF Changed
  <2>3. \A k \in Changed(l, des) \cap Extent(s) : l.defs[k].in \subseteq des.defs[k].in
    BY <1>1, <1>11, <2>2 DEF KeepsValues
  <2>4. v \in des.defs[i].in
    <3>1. CASE i \in Changed(l, des)
      BY <1>5, <1>11, <2>3, <3>1
    <3>2. CASE i \notin Changed(l, des)
      <4>1. l.defs[i].in = des.defs[i].in
        BY <1>7, <3>2, DefEqualFields DEF Changed
      <4> QED BY <1>5, <4>1
    <3> QED BY <3>1, <3>2
  <2> QED BY <1>1, <1>6, <1>11, <2>4 DEF ListOverlap
<1> QED BY <1>9, <1>10, <1>11

-----------------------------------------------------------------------------
(***************************************************************************)
(* A statement gives a value no new home but in what it puts into the      *)
(* clause, unless it drops the old one.                                    *)
(***************************************************************************)
LEMMA HomeOfReorganized ==
  ASSUME NEW l \in Layout, Creatable(l), NEW s \in PartitionStatement,
         s.op = "Reorganize", s.names # <<>>, s.into # <<>>,
         NEW r \in Results(l, s), NEW v \in Values, NEW i \in HomeOf(r, v)
  PROVE  \/ \E k \in DOMAIN s.into : r.defs[i] = s.into[k]
         \/ \E j \in HomeOf(l, v) : r.defs[i] = l.defs[j]
<1> DEFINE n == Len(l.defs)
           w == Len(s.into)
<1>1. PICK first, last \in Slots(l) :
        /\ first <= last /\ KeepsTotalRange(l, last, s.into)
        /\ r \in Layout /\ r.kind = l.kind
        /\ Slots(r) = 1..(n - (last - first + 1) + w)
        /\ \A k \in 1..(first - 1) : r.defs[k] = l.defs[k]
        /\ \A k \in 1..w : r.defs[first + k - 1] = s.into[k]
        /\ \A k \in (last + 1)..n : r.defs[k - (last - first + 1) + w] = l.defs[k]
  BY Reorganized
<1>2. s.into \in Seq(Definition)
  BY DEF PartitionStatement
<1>3. w \in Nat \ {0} /\ DOMAIN s.into = 1..w
  BY <1>2
<1>4. /\ Slots(l) = 1..n /\ n \in Nat /\ v \in Int
      /\ \A k \in Slots(l) : l.defs[k].to \in Int
      /\ \A k \in Slots(r) : r.defs[k].to \in Int
  BY <1>1, LayoutFacts, BoundsAssumption
<1>5. i \in Slots(r) /\ Takes(r, i, v) /\ (ByRange(r) <=> ByRange(l))
  BY <1>1 DEF HomeOf, ByRange
<1>6. /\ first \in Int /\ last \in Int /\ i \in Int /\ n \in Int /\ w \in Int /\ 1 <= w
      /\ 1 <= first /\ first <= last /\ last <= n
      /\ 1 <= i /\ i <= n - (last - first + 1) + w
  <2>1. first \in 1..n /\ last \in 1..n /\ i \in 1..(n - (last - first + 1) + w)
    BY <1>1, <1>4, <1>5
  <2>2. first <= last
    BY <1>1
  <2>3. n \in Nat
    BY <1>4
  <2> HIDE DEF n, w
  <2> QED BY <1>3, <2>1, <2>2, <2>3
<1> HIDE DEF n, w
<1>7. CASE i < first
  <2>1. i \in 1..(first - 1) /\ i \in Slots(l)
    BY <1>4, <1>6, <1>7
  <2>2. r.defs[i] = l.defs[i] /\ \A j \in 1..(i - 1) : r.defs[j] = l.defs[j]
    BY <1>1, <1>6, <2>1
  <2>3. Takes(l, i, v)
    BY <1>5, <2>2 DEF Takes
  <2> QED BY <2>1, <2>2, <2>3 DEF HomeOf
<1>8. CASE first <= i /\ i < first + w
  <2> DEFINE k == i - first + 1
  <2>1. k \in 1..w /\ first + k - 1 = i
    BY <1>6, <1>8
  <2> HIDE DEF k
  <2> QED BY <1>1, <1>3, <2>1
<1>9. CASE first + w <= i
  <2> DEFINE k == i + (last - first + 1) - w
  <2>1. /\ k \in (last + 1)..n /\ k - (last - first + 1) + w = i
        /\ k \in 1..n /\ k - 1 \in 1..n /\ k \in Int
    BY <1>6, <1>9
  <2>2. k \in Slots(l) /\ k - 1 \in Slots(l)
    BY <1>4, <2>1
  <2>3. r.defs[i] = l.defs[k]
    BY <1>1, <2>1
  <2>4. CASE ~ByRange(l)
    BY <1>5, <2>2, <2>3, <2>4 DEF HomeOf, Takes
  <2>5. CASE ByRange(l)
    <3>1. i - 1 \in 1..(i - 1)
      BY <1>6, <1>9
    <3>2. v < r.defs[i].to /\ r.defs[i - 1].to <= v
      BY <1>5, <2>5, <3>1 DEF Takes
    <3>3. r.defs[i - 1].to = l.defs[k - 1].to
      <4>1. CASE k - 1 = last
        <5>1. i - 1 = first + w - 1 /\ w \in 1..w
          BY <1>6, <4>1
        <5>2. r.defs[i - 1] = s.into[w]
          BY <1>1, <5>1
        <5>3. last # n
          BY <1>6, <2>1, <4>1
        <5>4. l.defs[last].to = s.into[w].to
          BY <1>1, <2>5, <5>3 DEF KeepsTotalRange, n, w
        <5> QED BY <4>1, <5>2, <5>4
      <4>2. CASE k - 1 # last
        <5>1. k - 1 \in (last + 1)..n /\ (k - 1) - (last - first + 1) + w = i - 1
          BY <1>6, <2>1, <4>2
        <5>2. r.defs[(k - 1) - (last - first + 1) + w] = l.defs[k - 1]
          BY <1>1, <5>1
        <5> QED BY <5>1, <5>2
      <4> QED BY <4>1, <4>2
    <3>4. \A j \in 1..(k - 1) : l.defs[j].to <= v
      <4> SUFFICES ASSUME NEW j \in 1..(k - 1) PROVE l.defs[j].to <= v
        OBVIOUS
      <4>0. j \in 1..n /\ (j < k - 1 \/ j = k - 1)
        BY <1>6, <2>1
      <4>1. j \in Slots(l) /\ (j < k - 1 \/ j = k - 1)
        BY <1>4, <4>0
      <4>2. l.defs[j].to < l.defs[k - 1].to \/ j = k - 1
        BY <2>2, <2>5, <4>1 DEF Creatable, Increasing
      <4>3. l.defs[j].to \in Int /\ l.defs[k - 1].to \in Int /\ l.defs[k - 1].to <= v
        BY <1>4, <2>2, <3>2, <3>3, <4>1
      <4> QED BY <1>4, <4>2, <4>3
    <3> QED BY <2>2, <2>3, <2>5, <3>2, <3>4 DEF HomeOf, Takes
  <2> QED BY <2>4, <2>5
<1>10. i < first \/ (first <= i /\ i < first + w) \/ first + w <= i
  BY <1>6
<1> QED BY <1>7, <1>8, <1>9, <1>10

LEMMA HomeOfAdded ==
  ASSUME NEW l \in Layout, NEW s \in PartitionStatement, s.op = "Add",
         NEW r \in Results(l, s), NEW v \in Values
  PROVE  /\ HomeOf(l, v) \subseteq HomeOf(r, v)
         /\ \A i \in HomeOf(r, v) :
              \/ \E k \in DOMAIN s.into : r.defs[i] = s.into[k]
              \/ i \in HomeOf(l, v) /\ r.defs[i] = l.defs[i]
<1> DEFINE n == Len(l.defs)
           w == Len(s.into)
           defs == l.defs \o s.into
<1>1. s.into \in Seq(Definition) /\ l.defs \in Seq(Definition)
  BY LayoutFacts DEF PartitionStatement
<1>2. r = [l EXCEPT !.defs = defs]
  BY DEF Results
<1>3. /\ defs \in Seq(Definition) /\ Len(defs) = n + w
      /\ \A i \in 1..n : defs[i] = l.defs[i]
      /\ \A j \in 1..w : defs[n + j] = s.into[j]
  <2>1. /\ defs \in Seq(Definition) /\ Len(defs) = Len(l.defs) + Len(s.into)
        /\ \A i \in 1..Len(l.defs) : defs[i] = l.defs[i]
        /\ \A j \in 1..Len(s.into) : defs[Len(l.defs) + j] = s.into[j]
    <3>1. \A a, b \in Seq(Definition) :
            /\ a \o b \in Seq(Definition) /\ Len(a \o b) = Len(a) + Len(b)
            /\ \A i \in 1..Len(a) : (a \o b)[i] = a[i]
            /\ \A j \in 1..Len(b) : (a \o b)[Len(a) + j] = b[j]
      BY Joined, SMTT(30)
    <3> QED BY <1>1, <3>1, Zenon
  <2> QED BY <2>1
<1>4. n \in Nat /\ w \in Nat /\ DOMAIN s.into = 1..w /\ Slots(l) = 1..n
  BY <1>1 DEF Slots
<1> HIDE DEF defs, n, w
<1>5. r.defs = defs /\ r.kind = l.kind /\ Slots(r) = 1..(n + w) /\ (ByRange(r) <=> ByRange(l))
  BY <1>2, <1>3, <1>4 DEF Layout, Slots, ByRange
<1>6. ASSUME NEW i \in 1..n PROVE i \in HomeOf(r, v) <=> i \in HomeOf(l, v)
  <2>1. i \in Slots(l) /\ i \in Slots(r) /\ r.defs[i] = l.defs[i]
    BY <1>3, <1>4, <1>5
  <2>2. \A j \in 1..(i - 1) : r.defs[j] = l.defs[j]
    BY <1>3, <1>4, <1>5
  <2> QED BY <1>5, <2>1, <2>2 DEF HomeOf, Takes
<1>7. HomeOf(l, v) \subseteq HomeOf(r, v)
  BY <1>4, <1>6 DEF HomeOf
<1>8. ASSUME NEW i \in HomeOf(r, v)
      PROVE  \/ \E k \in DOMAIN s.into : r.defs[i] = s.into[k]
             \/ i \in HomeOf(l, v) /\ r.defs[i] = l.defs[i]
  <2>1. i \in 1..(n + w)
    BY <1>5 DEF HomeOf
  <2>2. CASE i \in 1..n
    BY <1>3, <1>5, <1>6, <2>2
  <2>3. CASE i \notin 1..n
    <3>1. i - n \in 1..w /\ n + (i - n) = i
      BY <1>4, <2>1, <2>3
    <3>2. r.defs[i] = s.into[i - n]
      BY <1>3, <1>5, <3>1
    <3> QED BY <1>4, <3>1, <3>2
  <2> QED BY <2>2, <2>3
<1> QED BY <1>7, <1>8

LEMMA HomeOfKept ==
  ASSUME NEW l \in Layout, NEW s \in PartitionStatement, s.op = "Drop",
         NEW r \in Results(l, s), NEW v \in Values, HomeOf(l, v) \subseteq Survivors(l, s.names)
  PROVE  \A i \in HomeOf(r, v) : \E j \in HomeOf(l, v) : r.defs[i] = l.defs[j]
<1> DEFINE S == Survivors(l, s.names)
<1>1. PICK kept \in Ascending(S) : r = Pick(l, kept)
  BY DEF Results, Survivors
<1>2. S \in SUBSET Slots(l)
  BY DEF Survivors
<1> HIDE DEF S
<1>3. /\ r \in Layout /\ r.kind = l.kind
      /\ \A k \in Slots(r) : kept[k] \in S /\ r.defs[k] = l.defs[kept[k]]
      /\ \A j, k \in Slots(r) : j < k => kept[j] < kept[k]
      /\ \A i \in S : \E k \in Slots(r) : kept[k] = i
  BY <1>1, <1>2, KeptLemma
<1> SUFFICES ASSUME NEW i \in HomeOf(r, v)
             PROVE  \E j \in HomeOf(l, v) : r.defs[i] = l.defs[j]
  OBVIOUS
<1>4. /\ i \in Slots(r) /\ Takes(r, i, v) /\ (ByRange(r) <=> ByRange(l))
      /\ kept[i] \in Slots(l) /\ r.defs[i] = l.defs[kept[i]]
  BY <1>2, <1>3 DEF HomeOf, ByRange
<1>5. CASE ~ByRange(l)
  <2>1. Takes(l, kept[i], v)
    BY <1>4, <1>5 DEF Takes
  <2> QED BY <1>4, <2>1 DEF HomeOf
<1>6. CASE ByRange(l)
  <2>1. /\ Slots(l) = 1..Len(l.defs) /\ Len(l.defs) \in Nat /\ Slots(r) = 1..Len(r.defs)
        /\ Len(r.defs) \in Nat /\ v \in Int
        /\ \A k \in Slots(l) : l.defs[k].to \in Int
        /\ \A k \in Slots(r) : r.defs[k].to \in Int
    BY <1>3, LayoutFacts, BoundsAssumption
  <2>2. v < r.defs[i].to /\ \A k \in 1..(i - 1) : r.defs[k].to <= v
    BY <1>4, <1>6 DEF Takes
  <2>3. HomeOf(l, v) # {}
    <3>1. v \in Homed(l)
      BY <1>4, <1>6, <2>2, RangeHome
    <3> QED BY <1>6, <3>1 DEF Homed, ByRange
  <2>4. PICK h \in HomeOf(l, v) : TRUE
    BY <2>3
  <2>5. /\ h \in Slots(l) /\ v < l.defs[h].to
        /\ \A k \in 1..(h - 1) : l.defs[k].to <= v
    BY <1>6 DEF HomeOf, Takes
  <2>6. PICK e \in Slots(r) : kept[e] = h
    BY <1>3 DEF S
  <2>7. v < r.defs[e].to
    BY <1>3, <2>5, <2>6
  <2>8. ~(e < i)
    <3> SUFFICES ASSUME e < i PROVE FALSE
      OBVIOUS
    <3>1. e \in 1..(i - 1)
      BY <1>4, <2>1
    <3>2. r.defs[e].to <= v /\ r.defs[e].to \in Int
      BY <2>1, <2>2, <3>1
    <3> QED BY <2>1, <2>7, <3>2
  <2>9. ~(i < e)
    <3> SUFFICES ASSUME i < e PROVE FALSE
      OBVIOUS
    <3>1. kept[i] < kept[e]
      BY <1>3, <1>4
    <3>2. kept[i] \in 1..(h - 1)
      BY <1>4, <2>1, <2>5, <2>6, <3>1
    <3>3. l.defs[kept[i]].to <= v /\ l.defs[kept[i]].to \in Int /\ v < l.defs[kept[i]].to
      BY <1>4, <2>1, <2>2, <2>5, <3>2
    <3> QED BY <2>1, <3>3
  <2>10. i = e
    BY <1>4, <2>1, <2>8, <2>9
  <2> QED BY <1>4, <2>6, <2>10
<1> QED BY <1>5, <1>6

(***************************************************************************)
(* So a value whose home is desired keeps a home that is.                  *)
(***************************************************************************)
AtHome(l, v, des) == \A i \in HomeOf(l, v) : l.defs[i].name \in NamesOf(des)

LEMMA HomesStay ==
  ASSUME NEW l \in Layout, Creatable(l), NEW des \in Layout, NEW allow,
         NEW s \in PartitionStatement, Sound(s, l, des, allow),
         NEW r \in Results(l, s), NEW v \in Values, AtHome(l, v, des)
  PROVE  AtHome(r, v, des)
<1>1. s.op \in {"Reorganize", "Add", "Drop", "AddCount", "Coalesce"}
  BY DEF PartitionStatement
<1>2. CASE s.op = "Reorganize"
  BY <1>2, HomeOfReorganized DEF AtHome, Sound
<1>3. CASE s.op = "Add"
  BY <1>3, HomeOfAdded DEF AtHome, Sound
<1>4. CASE s.op = "Drop"
  <2>1. HomeOf(l, v) \subseteq Survivors(l, s.names)
    BY <1>4 DEF AtHome, Sound, Survivors, HomeOf
  <2> QED BY <1>4, <2>1, HomeOfKept DEF AtHome
<1>5. CASE s.op \in {"AddCount", "Coalesce"}
  <2>1. r.defs = l.defs /\ r.kind = l.kind
    BY <1>5 DEF Results, Layout
  <2>2. HomeOf(r, v) = HomeOf(l, v)
    BY <2>1 DEF HomeOf, Takes, Slots, ByRange
  <2> QED BY <2>1, <2>2 DEF AtHome
<1> QED BY <1>1, <1>2, <1>3, <1>4, <1>5

(***************************************************************************)
(* What a statement throws away: nothing unless that is permitted, and     *)
(* never a value that is desired and at home.                              *)
(***************************************************************************)
LEMMA LossPermitted ==
  ASSUME NEW l \in Layout, Creatable(l), NEW des \in Layout, NEW allow,
         NEW s \in PartitionStatement, Sound(s, l, des, allow),
         NEW r \in Results(l, s), NEW v \in Loss(l, s, r)
  PROVE  PartitionAllowed(allow) /\ ~(v \in Homed(des) /\ AtHome(l, v, des))
<1>1. s.op \in {"Reorganize", "Add", "Drop", "AddCount", "Coalesce"}
  BY DEF PartitionStatement
<1>2. CASE s.op = "Drop"
  BY <1>2 DEF Loss, HeldBy, AtHome, Sound
<1>3. CASE s.op # "Drop"
  <2>1. v \in Homed(l) /\ v \notin Homed(r) /\ v \in Values
    BY <1>3 DEF Loss, Homed
  <2>2. r \in Layout /\ r.kind = l.kind
    BY ResultType DEF Sound
  <2>3. l.kind \notin {"none", "HASH"}
    BY <2>1, <2>2 DEF Homed
  <2>4. s.op = "Reorganize"
    <3>1. CASE s.op = "Add"
      <4>1. HomeOf(l, v) # {} /\ HomeOf(l, v) \subseteq HomeOf(r, v)
        BY <2>1, <2>3, <3>1, HomeOfAdded DEF Homed
      <4> QED BY <2>1, <4>1 DEF Homed
    <3>2. CASE s.op \in {"AddCount", "Coalesce"}
      <4>1. r.defs = l.defs
        BY <3>2 DEF Results, Layout
      <4>2. Homed(r) = Homed(l)
        BY <2>2, <4>1 DEF Homed, HomeOf, Takes, Slots, ByRange
      <4> QED BY <2>1, <4>2
    <3> QED BY <1>1, <1>3, <3>1, <3>2
  <2>5. ~ByRange(l)
    BY <2>1, <2>4, RangeKept DEF Sound
  <2>6. l.kind = "LIST"
    BY <2>3, <2>5 DEF ByRange, Layout, Kinds
  <2> QED BY <2>1, <2>4, <2>6, MovesKeep DEF Sound
<1> QED BY <1>2, <1>3

-----------------------------------------------------------------------------
(***************************************************************************)
(* Another client's statement leaves what is pending sound.                *)
(***************************************************************************)
LEMMA SoundStays ==
  ASSUME NEW l \in Layout, Creatable(l), NEW des \in Layout, NEW allow,
         NEW t \in PartitionStatement, Sound(t, l, des, allow), NEW r \in Accepted(l, t),
         NEW s \in PartitionStatement, Sound(s, l, des, allow)
  PROVE  Sound(s, r, des, allow)
<1>1. r \in Results(l, t) /\ Creatable(r)
  BY DEF Accepted
<1>2. r \in Layout /\ r.kind = l.kind /\ r.scheme = l.scheme
  BY <1>1, ResultType DEF Sound
<1>3. SUFFICES ASSUME s.op = "Reorganize", l.kind = "LIST"
               PROVE  Moves(s, r, des, allow)
  BY <1>2 DEF Sound
<1>4. Moves(s, l, des, allow) /\ s.names # <<>>
  BY <1>3 DEF Sound
<1>5. /\ HeaderEqual(l, des) /\ NameListEqual(l, des) /\ Slots(des) = Slots(l)
      /\ NamesOf(l) = NamesOf(des) /\ DistinctNames(l)
  <2>1. HeaderEqual(l, des) /\ NameListEqual(l, des) /\ Slots(des) = Slots(l)
    BY <1>4 DEF Moves, InPlace, NameListEqual
  <2> QED BY <2>1 DEF NameListEqual, NamesOf, Creatable
<1>6. t.op \in {"Reorganize", "Add", "Drop", "AddCount", "Coalesce"}
  BY DEF PartitionStatement
<1>7. CASE t.op = "Drop"
  <2>1. t.names \in Seq(PartitionNames) /\ t.names # <<>>
    BY <1>7 DEF PartitionStatement, Sound
  <2>2. 1 \in DOMAIN t.names
    BY <2>1
  <2>3. t.names[1] \in Elements(t.names)
    BY <2>2 DEF Elements
  <2>4. Elements(t.names) \subseteq NamesOf(l)
    BY <1>1, <1>7 DEF Results
  <2> QED BY <1>5, <1>7, <2>3, <2>4 DEF Sound
<1>8. CASE t.op = "Add"
  <2>1. /\ t.into \in Seq(Definition) /\ t.into # <<>>
        /\ \A k \in DOMAIN t.into : t.into[k].name \in NamesOf(l)
    BY <1>5, <1>8 DEF PartitionStatement, Sound
  <2>2. 1 \in DOMAIN t.into /\ Len(t.into) \in Nat /\ 1 \in 1..Len(t.into)
    BY <2>1
  <2>3. PICK i \in Slots(l) : l.defs[i].name = t.into[1].name
    BY <2>1, <2>2 DEF NamesOf
  <2>4. l.defs \in Seq(Definition) /\ Slots(l) = 1..Len(l.defs) /\ Len(l.defs) \in Nat
    BY LayoutFacts
  <2>5. r.defs = l.defs \o t.into
    BY <1>1, <1>8 DEF Results, Layout
  <2>6. /\ Len(r.defs) = Len(l.defs) + Len(t.into)
        /\ r.defs[i] = l.defs[i] /\ r.defs[Len(l.defs) + 1] = t.into[1]
    <3>1. \A a, b \in Seq(Definition) :
            /\ a \o b \in Seq(Definition) /\ Len(a \o b) = Len(a) + Len(b)
            /\ \A k \in 1..Len(a) : (a \o b)[k] = a[k]
            /\ \A j \in 1..Len(b) : (a \o b)[Len(a) + j] = b[j]
      BY Joined, SMTT(30)
    <3>2. /\ Len(l.defs \o t.into) = Len(l.defs) + Len(t.into)
          /\ \A k \in 1..Len(l.defs) : (l.defs \o t.into)[k] = l.defs[k]
          /\ \A j \in 1..Len(t.into) : (l.defs \o t.into)[Len(l.defs) + j] = t.into[j]
      BY <2>1, <2>4, <3>1, Zenon
    <3>3. i \in 1..Len(l.defs) /\ 1 \in 1..Len(t.into)
      BY <2>2, <2>4
    <3> QED BY <2>5, <3>2, <3>3, Zenon
  <2>7. i \in Slots(r) /\ Len(l.defs) + 1 \in Slots(r) /\ i # Len(l.defs) + 1
    <3>1. Slots(r) = 1..Len(r.defs)
      BY <1>2, LayoutFacts
    <3>2. i \in 1..Len(l.defs) /\ Len(l.defs) \in Nat /\ Len(t.into) \in Nat /\ 1 <= Len(t.into)
      BY <2>2, <2>4
    <3>3. Len(r.defs) = Len(l.defs) + Len(t.into)
      BY <2>6
    <3>4. ASSUME NEW a \in Nat, NEW b \in Nat, 1 <= b, NEW j \in 1..a
          PROVE  j \in 1..(a + b) /\ a + 1 \in 1..(a + b) /\ j # a + 1
      BY <3>4
    <3> QED BY <3>1, <3>2, <3>3, <3>4, Zenon
  <2> QED BY <1>1, <2>3, <2>6, <2>7 DEF Creatable, DistinctNames
<1>9. CASE t.op \in {"AddCount", "Coalesce"}
  <2>1. r.defs = l.defs
    BY <1>1, <1>9 DEF Results, Layout
  <2>2. Changed(r, des) = Changed(l, des) /\ ListValues(r) = ListValues(l) /\ Slots(r) = Slots(l)
    BY <2>1 DEF Changed, ListValues, Slots
  <2>3. InPlace(s, r, des)
    BY <1>2, <1>4, <2>1, <2>2 DEF Moves, InPlace, HeaderEqual, NameListEqual
  <2>4. KeepsValues(s, r, des)
    BY <1>4, <2>1, <2>2 DEF Moves, KeepsValues
  <2>5. Discards(r, des) => Discards(l, des)
    BY <1>2, <2>2 DEF Discards
  <2> QED BY <1>4, <2>3, <2>4, <2>5 DEF Moves
<1>10. CASE t.op = "Reorganize"
  <2>1. Moves(t, l, des, allow) /\ t.names # <<>>
    BY <1>3, <1>10 DEF Sound
  <2>2. /\ Slots(r) = Slots(l)
        /\ \A i \in Extent(t) : DefEqual(r.defs[i], des.defs[i])
        /\ \A i \in Slots(l) \ Extent(t) : r.defs[i] = l.defs[i]
    BY <1>1, <1>5, <1>10, <2>1, InPlaceResult DEF Moves
  <2>3. \A i \in Slots(l) : /\ l.defs[i] \in Definition /\ r.defs[i] \in Definition
                            /\ des.defs[i] \in Definition
    BY <1>2, <1>5, <2>2, LayoutFacts
  <2>4. \A i \in Slots(l) : \/ r.defs[i] = l.defs[i]
                            \/ DefEqual(r.defs[i], des.defs[i])
    BY <2>2
  <2>5. \A i \in Slots(l) : r.defs[i].name = l.defs[i].name
    <3> SUFFICES ASSUME NEW i \in Slots(l) PROVE r.defs[i].name = l.defs[i].name
      OBVIOUS
    <3>1. l.defs[i].name = des.defs[i].name
      BY <1>5 DEF NameListEqual
    <3>2. DefEqual(r.defs[i], des.defs[i]) => r.defs[i].name = des.defs[i].name
      BY <2>3, DefEqualFields
    <3> QED BY <2>4, <3>1, <3>2
  <2>6. InPlace(s, r, des)
    <3>1. InPlace(s, l, des)
      BY <1>4 DEF Moves
    <3>2. HeaderEqual(r, des) /\ NameListEqual(r, des) /\ Extent(s) \subseteq Slots(r)
      BY <1>2, <1>5, <2>2, <2>5, <3>1 DEF HeaderEqual, NameListEqual, InPlace
    <3>3. \A k \in DOMAIN s.names : s.at + k - 1 \in Slots(l)
      <4>1. s.names \in Seq(PartitionNames) /\ s.at \in Nat
        BY DEF PartitionStatement
      <4>2. \A k \in DOMAIN s.names : s.at + k - 1 \in Extent(s)
        BY <4>1 DEF Extent
      <4> QED BY <3>1, <4>2 DEF InPlace
    <3> QED BY <2>5, <3>1, <3>2, <3>3 DEF InPlace
  <2>7. \A i \in Changed(r, des) : i \in Changed(l, des) /\ r.defs[i] = l.defs[i]
    BY <2>2, <2>4 DEF Changed
  <2>8. KeepsValues(s, r, des)
    BY <1>4, <2>7 DEF Moves, KeepsValues
  <2>9. Discards(r, des) => Discards(l, des)
    <3>1. \A i \in Slots(l) : r.defs[i].in \subseteq ListValues(l) \cup ListValues(des)
      <4> SUFFICES ASSUME NEW i \in Slots(l)
                   PROVE  r.defs[i].in \subseteq ListValues(l) \cup ListValues(des)
        OBVIOUS
      <4>1. CASE r.defs[i] = l.defs[i]
        BY <4>1 DEF ListValues
      <4>2. CASE DefEqual(r.defs[i], des.defs[i])
        <5>1. r.defs[i].in = des.defs[i].in
          BY <2>3, <4>2, DefEqualFields
        <5> QED BY <1>5, <5>1 DEF ListValues
      <4> QED BY <2>4, <4>1, <4>2
    <3>2. ListValues(r) \subseteq ListValues(l) \cup ListValues(des)
      BY <2>2, <3>1 DEF ListValues
    <3> QED BY <1>2, <3>2 DEF Discards
  <2> QED BY <1>4, <2>6, <2>8, <2>9 DEF Moves
<1> QED BY <1>6, <1>7, <1>8, <1>9, <1>10

-----------------------------------------------------------------------------
(***************************************************************************)
(* The inductive invariant: whatever is pending is sound for the clause    *)
(* there is now, and no claimed value is lost or has a home that is not    *)
(* desired.                                                                *)
(***************************************************************************)
PendingSound ==
  \A p \in Clients : \A s \in pending[p] : Sound(s, layout, job.des, job.allow)

ClaimedHome == \A v \in Claimed(job) : v \notin lost /\ AtHome(layout, v, job.des)

CustodyInv == TypeOK /\ PendingSound /\ ClaimedHome

(***************************************************************************)
(* A scenario has what the definitions need.                               *)
(***************************************************************************)
LEMMA ScenarioFacts ==
  ASSUME NEW x, PartitionScenario(x)
  PROVE  x.cur \in Layout /\ Creatable(x.cur) /\ x.des \in Layout
BY DEF PartitionScenario

LEMMA CustodyInvInit == Init => CustodyInv
<1> SUFFICES ASSUME Init PROVE CustodyInv
  OBVIOUS
<1>1. PartitionScenario(job)
  BY PartitionScenarioAssumption DEF Init
<1>2. job.cur \in Layout /\ Creatable(job.cur)
  BY <1>1, ScenarioFacts
<1>3. TypeOK
  BY <1>1, <1>2, PartitionBoundAssumption DEF Init, TypeOK
<1>4. PendingSound
  BY DEF Init, PendingSound
<1>5. ClaimedHome
  BY DEF Init, ClaimedHome, Claimed, AtHome
<1> QED BY <1>3, <1>4, <1>5 DEF CustodyInv

(***************************************************************************)
(* What is planned or skipped is a set of statements; what is planned is   *)
(* sound.                                                                  *)
(***************************************************************************)
LEMMA PlanFacts ==
  ASSUME NEW l \in Layout, NEW des \in Layout, NEW allow, Creatable(l),
         ~PartitionsRefused(l, des, allow)
  PROVE  /\ PartitionsPlanned(l, des, allow) \in SUBSET PartitionStatement
         /\ PartitionsSkipped(l, des, allow) \in SUBSET PartitionStatement
         /\ \A s \in PartitionsPlanned(l, des, allow) : Sound(s, l, des, allow)
<1>1. /\ PartitionsPlanned(l, des, allow) \in SUBSET PartitionStatement
      /\ \A s \in PartitionsPlanned(l, des, allow) : Sound(s, l, des, allow)
  BY PlanSound
<1>2. ASSUME NEW s \in PartitionsSkipped(l, des, allow) PROVE s \in PartitionStatement
  <2>1. PartitionAllowed({"partition"})
    BY DEF PartitionAllowed
  <2>2. ~PartitionsRefused(l, des, {"partition"}) /\ s \in PartitionsPlanned(l, des, {"partition"})
    BY <2>1 DEF PartitionsRefused, PartitionsSkipped, PartitionsPlanned
  <2> QED BY <2>2, PlanSound
<1> QED BY <1>1, <1>2

(***************************************************************************)
(* A statement keeps the invariant, and throws away only what nobody       *)
(* claims, when that is permitted.                                         *)
(***************************************************************************)
LEMMA ExecKeeps ==
  ASSUME CustodyInv, NEW p \in Clients, NEW s \in Ready(p), Exec(p, s)
  PROVE  /\ CustodyInv'
         /\ \A v \in lost' \ lost : PartitionAllowed(job.allow) /\ v \notin Claimed(job)
<1> DEFINE des == job.des
           allow == job.allow
<1>1. /\ layout \in Layout /\ Creatable(layout) /\ lost \subseteq Values /\ PartitionScenario(job)
      /\ pending \in [Clients -> SUBSET PartitionStatement]
  BY DEF CustodyInv, TypeOK
<1>2. des \in Layout
  BY <1>1, ScenarioFacts
<1>3. s \in pending[p] /\ s \in PartitionStatement
  BY <1>1 DEF Ready, NextOf
<1>4. PICK r \in Accepted(layout, s) : layout' = r /\ lost' = lost \cup Loss(layout, s, r)
  BY DEF Exec
<1>5. /\ pending' = [pending EXCEPT ![p] = @ \ {s}]
      /\ UNCHANGED <<job, pc, snap, skipped, crashes>>
  BY DEF Exec
<1>6. Sound(s, layout, des, allow)
  BY <1>3 DEF CustodyInv, PendingSound
<1>7. r \in Results(layout, s) /\ Creatable(r)
  BY <1>4 DEF Accepted
<1>8. r \in Layout
  BY <1>1, <1>3, <1>6, <1>7, ResultType DEF Sound
<1>9. \A v \in Loss(layout, s, r) :
        /\ v \in Values /\ PartitionAllowed(allow)
        /\ ~(v \in Homed(des) /\ AtHome(layout, v, des))
  <2>1. Loss(layout, s, r) \subseteq Values
    BY DEF Loss, HeldBy, Homed
  <2> QED BY <1>1, <1>2, <1>3, <1>6, <1>7, <2>1, LossPermitted
<1>10. \A v \in Claimed(job) : v \in Values /\ v \in Homed(des) /\ v \notin lost /\ AtHome(layout, v, des)
  BY DEF CustodyInv, ClaimedHome, Claimed, Homed
<1>11. TypeOK'
  <2>1. pending' \in [Clients -> SUBSET PartitionStatement]
    BY <1>1, <1>5
  <2>2. lost' \subseteq Values
    BY <1>1, <1>4, <1>9
  <2> QED BY <1>4, <1>5, <1>7, <1>8, <2>1, <2>2 DEF CustodyInv, TypeOK, PartitionScenario
<1>12. PendingSound'
  <2> SUFFICES ASSUME NEW q \in Clients, NEW t \in pending'[q]
               PROVE  Sound(t, r, des, allow)
    BY <1>4, <1>5 DEF PendingSound
  <2>1. t \in pending[q] /\ t \in PartitionStatement
    BY <1>1, <1>5
  <2>2. Sound(t, layout, des, allow)
    BY <2>1 DEF CustodyInv, PendingSound
  <2> QED BY <1>1, <1>2, <1>3, <1>4, <1>6, <2>1, <2>2, SoundStays
<1>13. ClaimedHome'
  <2> SUFFICES ASSUME NEW v \in Claimed(job)
               PROVE  v \notin lost' /\ AtHome(r, v, des)
    BY <1>4, <1>5 DEF ClaimedHome
  <2>1. v \notin lost'
    BY <1>4, <1>9, <1>10
  <2>2. AtHome(r, v, des)
    BY <1>1, <1>2, <1>3, <1>6, <1>7, <1>10, HomesStay
  <2> QED BY <2>1, <2>2
<1> QED BY <1>4, <1>9, <1>10, <1>11, <1>12, <1>13 DEF CustodyInv

LEMMA CustodyInvStep ==
  ASSUME CustodyInv, [Next]_vars
  PROVE  /\ CustodyInv'
         /\ UNCHANGED job /\ lost \subseteq lost'
         /\ \A v \in lost' \ lost : PartitionAllowed(job.allow) /\ v \notin Claimed(job)
<1> USE DEF CustodyInv
<1>1. CASE UNCHANGED vars
  BY <1>1 DEF vars, TypeOK, PartitionScenario, PendingSound, ClaimedHome
<1>2. CASE Next
  <2>1. PICK p \in Clients : Step(p) \/ Crash(p) \/ Rerun(p)
    BY <1>2 DEF Next
  <2>2. CASE \E s \in Ready(p) : Exec(p, s)
    <3>1. PICK s \in Ready(p) : Exec(p, s)
      BY <2>2
    <3>2. UNCHANGED job /\ lost \subseteq lost'
      BY <3>1 DEF Exec
    <3> QED BY <3>1, <3>2, ExecKeeps
  <2>3. CASE Plan(p)
    <3>1. /\ layout \in Layout /\ Creatable(layout) /\ job.des \in Layout
      BY ScenarioFacts DEF TypeOK
    <3>2. ~PartitionsRefused(layout, job.des, job.allow)
      BY <2>3 DEF Plan
    <3>3. /\ PartitionsPlanned(layout, job.des, job.allow) \in SUBSET PartitionStatement
          /\ PartitionsSkipped(layout, job.des, job.allow) \in SUBSET PartitionStatement
          /\ \A s \in PartitionsPlanned(layout, job.des, job.allow) : Sound(s, layout, job.des, job.allow)
      BY <3>1, <3>2, PlanFacts
    <3>4. UNCHANGED <<layout, lost, job, crashes>>
      BY <2>3 DEF Plan
    <3>5. TypeOK'
      BY <2>3, <3>1, <3>3, <3>4 DEF TypeOK, Plan, PartitionScenario
    <3>6. PendingSound'
      BY <2>3, <3>3, <3>4 DEF PendingSound, Plan, TypeOK
    <3>7. ClaimedHome'
      BY <3>4 DEF ClaimedHome
    <3> QED BY <3>4, <3>5, <3>6, <3>7
  <2>4. CASE Refuse(p) \/ Finish(p) \/ Rerun(p)
    <3>1. UNCHANGED <<layout, lost, job, snap, pending, skipped, crashes>>
      BY <2>4 DEF Refuse, Finish, Rerun
    <3>2. TypeOK'
      BY <2>4, <3>1 DEF TypeOK, PartitionScenario, Refuse, Finish, Rerun
    <3> QED BY <3>1, <3>2 DEF PendingSound, ClaimedHome
  <2>5. CASE Crash(p) \/ \E s \in Ready(p) : Reject(p, s)
    <3>1. /\ Fail(p)
          /\ \/ crashes' = crashes
             \/ crashes < MaxCrashes /\ crashes' = crashes + 1
      BY <2>5 DEF Crash, Reject
    <3>2. UNCHANGED <<layout, lost, job, snap>>
      BY <3>1 DEF Fail
    <3>3. crashes' \in 0..MaxCrashes
      BY <3>1, PartitionBoundAssumption DEF TypeOK
    <3>4. TypeOK'
      BY <3>1, <3>2, <3>3 DEF TypeOK, PartitionScenario, Fail
    <3>5. PendingSound'
      BY <3>1, <3>2 DEF PendingSound, Fail, TypeOK
    <3> QED BY <3>2, <3>4, <3>5 DEF ClaimedHome
  <2> QED BY <2>1, <2>2, <2>3, <2>4, <2>5 DEF Step
<1> QED BY <1>1, <1>2

LEMMA CustodyInvAlways == Spec => []CustodyInv
<1>1. CustodyInv /\ [Next]_vars => CustodyInv'
  BY CustodyInvStep
<1> QED BY <1>1, CustodyInvInit, PTL DEF Spec

(***************************************************************************)
(* Whatever the clauses, the clients and their interleaving: the server's  *)
(* clause is always a legal one, and plans are made of legal statements.   *)
(***************************************************************************)
THEOREM TypeCorrect == Spec => []TypeOK
<1>1. CustodyInv => TypeOK
  BY DEF CustodyInv
<1> QED BY <1>1, CustodyInvAlways, PTL

(***************************************************************************)
(* Applying a partition clause implements Custody: no run, crash or        *)
(* interleaving of any number of runs throws rows away that the files      *)
(* claim, nor any at all without --allow-drop=partition.                   *)
(***************************************************************************)
THEOREM PartitionCustody == Spec => ImplementsCustody
<1> DEFINE cell == [v \in Values |-> IF v \in lost THEN Nowhere ELSE v]
           deed == [claimed |-> Claimed(job), renames |-> {}, discard |-> PartitionAllowed(job.allow)]
<1>1. Init => Rows!Init
  <2> SUFFICES ASSUME Init PROVE Rows!Init
    OBVIOUS
  <2>1. deed \in Rows!Deed
    BY DEF Rows!Deed, Claimed, Homed, PartitionAllowed
  <2>2. cell = [v \in Values |-> v]
    BY DEF Init
  <2> QED BY <2>1, <2>2 DEF Rows!Init
<1>2. ASSUME CustodyInv, [Next]_vars PROVE [Rows!Next]_<<cell, deed>>
  <2>1. /\ UNCHANGED job /\ lost \subseteq lost'
        /\ \A v \in lost' \ lost : PartitionAllowed(job.allow) /\ v \notin Claimed(job)
    BY <1>2, CustodyInvStep
  <2>2. UNCHANGED deed
    BY <2>1
  <2>3. DOMAIN cell = Values /\ cell' \in [Values -> Values \cup {Nowhere}]
    OBVIOUS
  <2>4. ASSUME NEW v \in Values PROVE Rows!Keep(v) \/ Rows!Discard(v)
    <3>1. CASE v \in lost' \ lost
      <4>1. cell'[v] = Nowhere /\ deed.discard /\ v \notin deed.claimed
        BY <2>1, <3>1
      <4> QED BY <4>1 DEF Rows!Discard
    <3>2. CASE v \notin lost' \ lost
      <4>1. cell'[v] = cell[v]
        BY <2>1, <3>2
      <4> QED BY <4>1 DEF Rows!Keep
    <3> QED BY <3>1, <3>2
  <2> QED BY <2>2, <2>3, <2>4 DEF Rows!Next
<1> QED BY <1>1, <1>2, CustodyInvAlways, PTL DEF Spec, ImplementsCustody, Rows!Spec
-----------------------------------------------------------------------------
(***************************************************************************)
(* One run alone.  A clause that is the desired one, spelling apart, has   *)
(* nothing left to be done.                                                *)
(***************************************************************************)
Attained(r, des) ==
  /\ HeaderEqual(r, des) /\ Slots(r) = Slots(des)
  /\ \A i \in Slots(r) : DefEqual(r.defs[i], des.defs[i])

LEMMA NothingToRewrite ==
  ASSUME NEW r, NEW des, Changed(r, des) = {}
  PROVE  Rewrites(r, des) = {}
BY DEF Rewrites, Runs, Span

LEMMA AttainedFacts ==
  ASSUME NEW r \in Layout, NEW des \in Layout, Attained(r, des), r.kind # "HASH"
  PROVE  /\ NameListEqual(r, des) /\ Changed(r, des) = {}
         /\ Ordered(r, des) = {} /\ ~Discards(r, des)
         /\ Agrees(r, des)
<1>1. /\ r.kind = des.kind /\ r.scheme = des.scheme /\ Slots(r) = Slots(des)
      /\ \A i \in Slots(r) : DefEqual(r.defs[i], des.defs[i])
  BY DEF Attained, HeaderEqual
<1>2. \A i \in Slots(r) :
        /\ r.defs[i].name = des.defs[i].name /\ r.defs[i].to = des.defs[i].to
        /\ r.defs[i].in = des.defs[i].in /\ r.defs[i].option = des.defs[i].option
  <2> SUFFICES ASSUME NEW i \in Slots(r)
               PROVE  /\ r.defs[i].name = des.defs[i].name /\ r.defs[i].to = des.defs[i].to
                      /\ r.defs[i].in = des.defs[i].in /\ r.defs[i].option = des.defs[i].option
    OBVIOUS
  <2>1. r.defs[i] \in Definition /\ des.defs[i] \in Definition
    BY <1>1, LayoutFacts
  <2> QED BY <1>1, <2>1, DefEqualFields
<1>3. NameListEqual(r, des) /\ Changed(r, des) = {}
  BY <1>1, <1>2 DEF NameListEqual, Changed
<1>4. Ordered(r, des) = {}
  BY <1>3, NothingToRewrite DEF Ordered
<1>5. ~Discards(r, des)
  BY <1>1, <1>2 DEF Discards, ListValues
<1>6. Agrees(r, des)
  BY <1>1, <1>2 DEF Agrees, Folded
<1> QED BY <1>3, <1>4, <1>5, <1>6

LEMMA AttainedEnds ==
  ASSUME NEW l, NEW r \in Layout, NEW des \in Layout, NEW allow, l # des,
         ~PartitionsRefused(l, des, allow), Attained(r, des), r.kind # "HASH"
  PROVE  ~PartitionsRefused(r, des, allow) /\ Ordered(r, des) = {}
BY AttainedFacts DEF PartitionsRefused, Attained, Reshaped

(***************************************************************************)
(* It is also legal when the desired one is.                               *)
(***************************************************************************)
LEMMA AttainedCreatable ==
  ASSUME NEW r \in Layout, NEW des \in Layout, Attained(r, des), r.kind # "HASH",
         ByRange(des) => Increasing(des), ~ListOverlap(des), DistinctNames(des),
         r.kind # "none" => des.defs # <<>>
  PROVE  Creatable(r)
<1>1. /\ r.kind = des.kind /\ Slots(r) = Slots(des)
      /\ \A i \in Slots(r) : r.defs[i] \in Definition /\ des.defs[i] \in Definition
      /\ \A i \in Slots(r) : DefEqual(r.defs[i], des.defs[i])
  BY LayoutFacts DEF Attained, HeaderEqual
<1>2. \A i \in Slots(r) : /\ r.defs[i].name = des.defs[i].name
                          /\ r.defs[i].to = des.defs[i].to /\ r.defs[i].in = des.defs[i].in
  BY <1>1, DefEqualFields
<1>3. ByRange(r) => Increasing(r)
  BY <1>1, <1>2 DEF ByRange, Increasing
<1>4. Disjoint(r)
  BY <1>1, <1>2 DEF Disjoint, ListOverlap
<1>5. DistinctNames(r)
  BY <1>1, <1>2 DEF DistinctNames
<1>6. des.defs # <<>> => r.defs # <<>>
  BY <1>1 DEF Slots
<1> QED BY <1>3, <1>4, <1>5, <1>6 DEF Creatable

-----------------------------------------------------------------------------
(***************************************************************************)
(* Two runs of changed slots are the same or apart, so what is left when   *)
(* the slots of one have got their definitions is the other runs.          *)
(***************************************************************************)
IsRun(C, x, y) ==
  x \in C /\ y \in C /\ x <= y /\ x..y \subseteq C /\ x - 1 \notin C /\ y + 1 \notin C

LEMMA RunsApart ==
  ASSUME NEW C \in SUBSET Int, NEW a, NEW b, IsRun(C, a, b), NEW x, NEW y, IsRun(C, x, y)
  PROVE  (x = a /\ y = b) \/ y + 1 < a \/ b + 1 < x
<1>1. a \in Int /\ b \in Int /\ x \in Int /\ y \in Int /\ a <= b /\ x <= y
  BY DEF IsRun
<1>2. /\ a - 1 \notin x..y /\ b + 1 \notin x..y
      /\ x - 1 \notin a..b /\ y + 1 \notin a..b
  BY DEF IsRun
<1> QED BY <1>1, <1>2

LEMMA RunsLeft ==
  ASSUME NEW C \in SUBSET Int, NEW a, NEW b, IsRun(C, a, b), NEW x, NEW y
  PROVE  IsRun(C \ (a..b), x, y) <=> (IsRun(C, x, y) /\ ~(x = a /\ y = b))
<1>1. a \in Int /\ b \in Int /\ a <= b /\ a..b \subseteq C /\ a - 1 \notin C /\ b + 1 \notin C
  BY DEF IsRun
<1>2. ASSUME IsRun(C \ (a..b), x, y) PROVE IsRun(C, x, y) /\ ~(x = a /\ y = b)
  <2>1. /\ x \in C \ (a..b) /\ y \in C \ (a..b) /\ x <= y /\ x..y \subseteq C \ (a..b)
        /\ x - 1 \notin C \ (a..b) /\ y + 1 \notin C \ (a..b)
    BY <1>2 DEF IsRun
  <2>2. x \in Int /\ y \in Int /\ x # b + 1 /\ y # a - 1
    BY <1>1, <2>1
  <2>3. x - 1 \notin a..b /\ y + 1 \notin a..b
    BY <1>1, <2>1, <2>2
  <2>4. x # a
    BY <1>1, <2>1
  <2> QED BY <2>1, <2>3, <2>4 DEF IsRun
<1>3. ASSUME IsRun(C, x, y), ~(x = a /\ y = b) PROVE IsRun(C \ (a..b), x, y)
  <2>1. y + 1 < a \/ b + 1 < x
    BY <1>3, RunsApart
  <2>2. x \in Int /\ y \in Int /\ x <= y
    BY <1>3 DEF IsRun
  <2>3. \A k \in x..y : k \notin a..b
    BY <1>1, <2>1, <2>2
  <2>4. x \in x..y /\ y \in x..y
    BY <2>2
  <2> QED BY <1>3, <2>3, <2>4 DEF IsRun
<1> QED BY <1>2, <1>3

(***************************************************************************)
(* A statement depends on the slots it names, and these on nothing else.   *)
(***************************************************************************)
LEMMA SameRun ==
  ASSUME NEW l \in Layout, NEW r \in Layout, NEW des \in Layout, Slots(r) = Slots(l),
         NEW first \in Slots(l), NEW last \in Slots(l),
         \A i \in first..last : r.defs[i] = l.defs[i]
  PROVE  ReorganizeRun(r, des, first, last) = ReorganizeRun(l, des, first, last)
<1> DEFINE size == last - first + 1
           Body(c, i) == IF i \in Changed(c, des) THEN des.defs[i] ELSE c.defs[i]
<1>1. Slots(l) = 1..Len(l.defs) /\ Len(l.defs) \in Nat
  BY LayoutFacts
<1>2. ASSUME NEW k \in 1..size
      PROVE  /\ r.defs[first + k - 1].name = l.defs[first + k - 1].name
             /\ Body(r, first + k - 1) = Body(l, first + k - 1)
  <2>1. first + k - 1 \in first..last
    BY <1>1
  <2> QED BY <2>1 DEF Changed
<1>3. /\ [k \in 1..size |-> r.defs[first + k - 1].name] = [k \in 1..size |-> l.defs[first + k - 1].name]
      /\ [k \in 1..size |-> Body(r, first + k - 1)] = [k \in 1..size |-> Body(l, first + k - 1)]
  <2> HIDE DEF size, Body
  <2> QED BY <1>2
<1> QED BY <1>3 DEF ReorganizeRun

RunStmt(l, des, x, y) == ReorganizeRun(l, des, x, IF ByRange(l) THEN Cascade(l, des, y) ELSE y)

LEMMA RewritesByRuns ==
  ASSUME NEW l \in Layout, NEW des, ByRange(l) \/ ChangedAreSupersets(l, des)
  PROVE  /\ Changed(l, des) \in SUBSET Int
         /\ \A s : s \in Rewrites(l, des) <=>
              \E x, y \in Slots(l) : IsRun(Changed(l, des), x, y) /\ s = RunStmt(l, des, x, y)
<1> DEFINE C == Changed(l, des)
<1>1. C \subseteq Slots(l) /\ Slots(l) = 1..Len(l.defs)
  BY LayoutFacts DEF Changed
<1> HIDE DEF C
<1>2. Rewrites(l, des) = {RunStmt(l, des, q[1], q[2]) : q \in Runs(l, des)}
  BY DEF Rewrites, RunStmt
<1>3. \A q : q \in Runs(l, des) <=> \E x, y \in C : q = <<x, y>> /\ IsRun(C, x, y)
  BY DEF Runs, IsRun, C
<1>4. ASSUME NEW s \in Rewrites(l, des)
      PROVE  \E x, y \in Slots(l) : IsRun(C, x, y) /\ s = RunStmt(l, des, x, y)
  <2>1. PICK q \in Runs(l, des) : s = RunStmt(l, des, q[1], q[2])
    BY <1>2
  <2>2. PICK x, y \in C : q = <<x, y>> /\ IsRun(C, x, y)
    BY <1>3
  <2> QED BY <1>1, <2>1, <2>2
<1>5. ASSUME NEW s, NEW x \in Slots(l), NEW y \in Slots(l), IsRun(C, x, y), s = RunStmt(l, des, x, y)
      PROVE  s \in Rewrites(l, des)
  <2>1. <<x, y>> \in Runs(l, des)
    <3>1. x \in C /\ y \in C
      BY <1>5 DEF IsRun
    <3> QED BY <1>3, <1>5, <3>1
  <2> QED BY <1>2, <1>5, <2>1
<1>6. C \subseteq Int
  BY <1>1
<1> QED BY <1>4, <1>5, <1>6 DEF C

LEMMA RunEnds ==
  ASSUME NEW l \in Layout, NEW des \in Layout, NEW y \in Slots(l)
  PROVE  LET z == IF ByRange(l) THEN Cascade(l, des, y) ELSE y
         IN  z \in Slots(l) /\ (z = y \/ z = y + 1)
BY LayoutFacts DEF Cascade

LEMMA RunContinues ==
  ASSUME NEW l \in Layout, NEW des \in Layout, DistinctNames(l),
         HeaderEqual(l, des), NameListEqual(l, des),
         ByRange(l) \/ ChangedAreSupersets(l, des),
         NEW x \in Slots(l), NEW y \in Slots(l), IsRun(Changed(l, des), x, y),
         NEW s, s = RunStmt(l, des, x, y), NEW r \in Results(l, s)
  PROVE  /\ r \in Layout /\ r.kind = l.kind /\ HeaderEqual(r, des)
         /\ Slots(r) = Slots(l) /\ NameListEqual(r, des)
         /\ \A i \in Slots(l) : r.defs[i] = l.defs[i] \/ DefEqual(r.defs[i], des.defs[i])
         /\ Changed(r, des) = Changed(l, des) \ (x..y)
         /\ ByRange(r) \/ ChangedAreSupersets(r, des)
         /\ Rewrites(r, des) = Rewrites(l, des) \ {s}
<1> DEFINE C == Changed(l, des)
           z == IF ByRange(l) THEN Cascade(l, des, y) ELSE y
<1>1. Slots(l) = 1..Len(l.defs) /\ Len(l.defs) \in Nat
  BY LayoutFacts
<1>2. z \in Slots(l) /\ (z = y \/ z = y + 1)
  BY RunEnds
<1>3. s = ReorganizeRun(l, des, x, z)
  BY DEF RunStmt
<1> HIDE DEF z
<1>4. /\ x \in C /\ y \in C /\ x <= y /\ x..y \subseteq C /\ y + 1 \notin C
      /\ x \in Int /\ y \in Int /\ z \in Int /\ x <= z
  BY <1>1, <1>2 DEF IsRun
<1>5. /\ s \in PartitionStatement /\ s.op = "Reorganize" /\ Extent(s) = x..z
      /\ s.names # <<>> /\ InPlace(s, l, des)
  BY <1>2, <1>3, <1>4, RewriteInPlace
<1>6. /\ r \in Layout /\ r.kind = l.kind /\ r.scheme = l.scheme /\ Slots(r) = Slots(l)
      /\ \A i \in x..z : DefEqual(r.defs[i], des.defs[i])
      /\ \A i \in Slots(l) \ (x..z) : r.defs[i] = l.defs[i]
  <2>1. /\ r \in Layout /\ r.kind = l.kind /\ r.scheme = l.scheme /\ Slots(r) = Slots(l)
        /\ \A i \in Extent(s) : DefEqual(r.defs[i], des.defs[i])
        /\ \A i \in Slots(l) \ Extent(s) : r.defs[i] = l.defs[i]
    BY ONLY <1>5, l \in Layout, des \in Layout, DistinctNames(l), r \in Results(l, s),
       InPlaceResult, ZenonT(60)
  <2> QED BY <1>5, <2>1
<1>7. /\ HeaderEqual(r, des) /\ (ByRange(r) <=> ByRange(l))
      /\ Len(r.defs) = Len(l.defs)
  <2>1. Slots(r) = 1..Len(r.defs) /\ Len(r.defs) \in Nat
    BY <1>6, LayoutFacts
  <2>2. 1..Len(r.defs) = 1..Len(l.defs)
    BY <1>1, <1>6, <2>1
  <2>3. Len(r.defs) = Len(l.defs)
    BY <1>1, <2>1, <2>2
  <2> QED BY <1>6, <2>3 DEF HeaderEqual, ByRange
<1>8. NameListEqual(r, des)
  <2> SUFFICES ASSUME NEW i \in Slots(r) PROVE r.defs[i].name = des.defs[i].name
    BY <1>6 DEF NameListEqual
  <2>1. CASE i \in x..z
    <3>1. r.defs[i] \in Definition /\ des.defs[i] \in Definition
      BY <1>6, LayoutFacts DEF NameListEqual
    <3> QED BY <1>6, <2>1, <3>1, DefEqualFields
  <2>2. CASE i \notin x..z
    BY <1>6, <2>2 DEF NameListEqual
  <2> QED BY <2>1, <2>2
<1>9. Changed(r, des) = C \ (x..y)
  <2>1. \A i \in Slots(l) : i \in x..z => i \in x..y \/ i \notin C
    BY <1>1, <1>2, <1>4
  <2>2. \A i \in x..y : i \in x..z
    BY <1>2, <1>4
  <2> QED BY <1>6, <2>1, <2>2 DEF Changed
<1>10. \A i \in Slots(l) : r.defs[i] = l.defs[i] \/ DefEqual(r.defs[i], des.defs[i])
  BY <1>6
<1>11. ByRange(r) \/ ChangedAreSupersets(r, des)
  <2>1. \A i \in Changed(r, des) : i \in C /\ r.defs[i] = l.defs[i]
    BY <1>6, <1>9, <1>10 DEF Changed
  <2> QED BY <1>7, <2>1 DEF ChangedAreSupersets
<1>12. C \in SUBSET Int /\ IsRun(C, x, y)
  BY RewritesByRuns
<1>13. \A t : t \in Rewrites(l, des) <=> \E u, v \in Slots(l) : IsRun(C, u, v) /\ t = RunStmt(l, des, u, v)
  BY RewritesByRuns
<1>14. \A t : t \in Rewrites(r, des) <=>
         \E u, v \in Slots(r) : IsRun(Changed(r, des), u, v) /\ t = RunStmt(r, des, u, v)
  BY <1>6, <1>11, RewritesByRuns
<1> HIDE DEF C
<1>15. ASSUME NEW u \in Slots(l), NEW v \in Slots(l), IsRun(C, u, v), ~(u = x /\ v = y)
       PROVE  RunStmt(r, des, u, v) = RunStmt(l, des, u, v) /\ RunStmt(l, des, u, v) # s
  <2> DEFINE w == IF ByRange(l) THEN Cascade(l, des, v) ELSE v
  <2>1. v + 1 < x \/ y + 1 < u
    BY <1>12, <1>15, RunsApart
  <2>2. w \in Slots(l) /\ (w = v \/ w = v + 1)
    BY RunEnds
  <2>3. u <= v
    BY <1>15 DEF IsRun
  <2>4. r.defs[v] = l.defs[v]
    <3>1. v \notin x..z
      BY <1>1, <1>2, <1>4, <2>1, <2>3
    <3> QED BY <1>6, <3>1
  <2>5. Cascade(r, des, v) = Cascade(l, des, v)
    BY <1>7, <2>4 DEF Cascade
  <2>6. RunStmt(r, des, u, v) = ReorganizeRun(r, des, u, w) /\ RunStmt(l, des, u, v) = ReorganizeRun(l, des, u, w)
    BY <1>7, <2>5 DEF RunStmt
  <2> HIDE DEF w
  <2>7. \A i \in u..w : i \in Slots(l) \ (x..z)
    BY <1>1, <1>2, <1>4, <2>1, <2>2, <2>3
  <2>8. \A i \in u..w : r.defs[i] = l.defs[i]
    BY <1>6, <2>7
  <2>9. ReorganizeRun(r, des, u, w) = ReorganizeRun(l, des, u, w)
    BY <1>6, <2>2, <2>8, SameRun
  <2>10. u # x
    BY <1>1, <1>4, <2>1, <2>3
  <2>11. ReorganizeRun(l, des, u, w) # s
    BY <1>3, <2>10 DEF ReorganizeRun, Alter
  <2> QED BY <2>6, <2>9, <2>11
<1>16. \A u, v : IsRun(Changed(r, des), u, v) <=> (IsRun(C, u, v) /\ ~(u = x /\ v = y))
  BY <1>9, <1>12, RunsLeft DEF C
<1>17. Rewrites(r, des) \subseteq Rewrites(l, des) \ {s}
  BY <1>6, <1>13, <1>14, <1>15, <1>16
<1>18. Rewrites(l, des) \ {s} \subseteq Rewrites(r, des)
  BY <1>6, <1>13, <1>14, <1>15, <1>16
<1> QED BY <1>6, <1>7, <1>8, <1>9, <1>10, <1>11, <1>17, <1>18 DEF C

(***************************************************************************)
(* One statement over all changed slots attains the desired clause.        *)
(***************************************************************************)
LEMMA SpanAttains ==
  ASSUME NEW l \in Layout, NEW des \in Layout, DistinctNames(l),
         HeaderEqual(l, des), NameListEqual(l, des),
         ~ByRange(l), ~ChangedAreSupersets(l, des),
         NEW s \in Rewrites(l, des), NEW r \in Results(l, s)
  PROVE  r \in Layout /\ r.kind = l.kind /\ Attained(r, des) /\ Rewrites(l, des) = {s}
<1> DEFINE C == Changed(l, des)
<1>1. Slots(l) = 1..Len(l.defs) /\ Len(l.defs) \in Nat
  BY LayoutFacts
<1>2. Rewrites(l, des) = {ReorganizeRun(l, des, q[1], q[2]) : q \in Span(l, des)}
  BY DEF Rewrites
<1>3. PICK q \in Span(l, des) : s = ReorganizeRun(l, des, q[1], q[2])
  BY <1>2
<1>4. PICK x, y \in C : q = <<x, y>> /\ \A i \in C : x <= i /\ i <= y
  BY DEF Span
<1>5. x \in Slots(l) /\ y \in Slots(l) /\ x <= y /\ s = ReorganizeRun(l, des, x, y)
  BY <1>3, <1>4 DEF Changed
<1>6. ASSUME NEW p \in Span(l, des) PROVE p = <<x, y>>
  <2>1. PICK u, v \in C : p = <<u, v>> /\ \A i \in C : u <= i /\ i <= v
    BY DEF Span
  <2>2. u \in Int /\ v \in Int /\ x \in Int /\ y \in Int
    BY <1>1, <1>4, <2>1 DEF Changed
  <2>3. u <= x /\ x <= u /\ v <= y /\ y <= v
    BY <1>4, <2>1
  <2> QED BY <2>1, <2>2, <2>3
<1>7. Rewrites(l, des) = {s}
  BY <1>2, <1>3, <1>4, <1>6
<1>8. /\ s \in PartitionStatement /\ s.op = "Reorganize" /\ Extent(s) = x..y
      /\ s.names # <<>> /\ InPlace(s, l, des)
  BY <1>5, RewriteInPlace
<1>9. /\ r \in Layout /\ r.kind = l.kind /\ r.scheme = l.scheme /\ Slots(r) = Slots(l)
      /\ \A i \in x..y : DefEqual(r.defs[i], des.defs[i])
      /\ \A i \in Slots(l) \ (x..y) : r.defs[i] = l.defs[i]
  <2>1. /\ r \in Layout /\ r.kind = l.kind /\ r.scheme = l.scheme /\ Slots(r) = Slots(l)
        /\ \A i \in Extent(s) : DefEqual(r.defs[i], des.defs[i])
        /\ \A i \in Slots(l) \ Extent(s) : r.defs[i] = l.defs[i]
    BY <1>8, InPlaceResult, ZenonT(60)
  <2> QED BY <1>8, <2>1
<1>10. \A i \in Slots(l) \ (x..y) : DefEqual(l.defs[i], des.defs[i])
  BY <1>1, <1>4 DEF Changed
<1>11. Attained(r, des)
  BY <1>9, <1>10 DEF Attained, HeaderEqual, NameListEqual
<1> QED BY <1>7, <1>9, <1>11

(***************************************************************************)
(* So does every other change of the list of names.                        *)
(***************************************************************************)
LEMMA DefEqualSame == \A a \in Definition : DefEqual(a, a)
BY DEF DefEqual, Definition

LEMMA CatchAllAttains ==
  ASSUME NEW l \in Layout, NEW des \in Layout, DistinctNames(l), HeaderEqual(l, des),
         CatchAllInsert(l, des), NEW s \in CatchAllStmts(l, des), NEW r \in Results(l, s)
  PROVE  r \in Layout /\ r.kind = l.kind /\ Attained(r, des) /\ CatchAllStmts(l, des) = {s}
<1> DEFINE n == Len(l.defs)
           m == Len(des.defs)
<1>1. /\ n \in Nat /\ m \in Nat /\ Slots(l) = 1..n /\ Slots(des) = 1..m
      /\ \A i \in Slots(des) : des.defs[i] \in Definition
  BY LayoutFacts
<1>2. /\ 0 < n /\ n < m /\ DefEqual(l.defs[n], des.defs[m])
      /\ \A i \in 1..(n - 1) : DefEqual(l.defs[i], des.defs[i])
  BY DEF CatchAllInsert
<1>3. /\ s \in PartitionStatement /\ s.op = "Reorganize" /\ s.names # <<>>
      /\ s.names = <<l.defs[n].name>> /\ Len(s.into) = m - n + 1
      /\ \A i \in 1..(m - n) : s.into[i] = des.defs[n + i - 1]
      /\ s.into[m - n + 1] = l.defs[n]
  BY CatchAllAre
<1>4. PICK first, last \in Slots(l) :
        /\ first <= last /\ last = first + Len(s.names) - 1
        /\ \A k \in DOMAIN s.names : l.defs[first + k - 1].name = s.names[k]
        /\ r \in Layout /\ r.kind = l.kind /\ r.scheme = l.scheme
        /\ Slots(r) = 1..(n - (last - first + 1) + Len(s.into))
        /\ \A i \in 1..(first - 1) : r.defs[i] = l.defs[i]
        /\ \A k \in 1..Len(s.into) : r.defs[first + k - 1] = s.into[k]
  BY <1>3, Reorganized
<1> HIDE DEF n, m
<1>5. first = n /\ last = n
  <2>1. Len(s.names) = 1 /\ 1 \in DOMAIN s.names /\ s.names[1] = l.defs[n].name
    BY <1>3
  <2>2. first \in Nat /\ last \in Nat /\ n \in Slots(l)
    BY <1>1, <1>2
  <2>3. last = first /\ l.defs[first + 1 - 1].name = l.defs[n].name /\ first + 1 - 1 = first
    <3>1. last = first + 1 - 1 /\ first + 1 - 1 = first
      BY <1>4, <2>1, <2>2
    <3>2. l.defs[first + 1 - 1].name = s.names[1]
      BY <1>4, <2>1
    <3> QED BY <2>1, <3>1, <3>2
  <2>4. first = n
    BY <2>2, <2>3 DEF DistinctNames
  <2> QED BY <2>3, <2>4
<1>6. Slots(r) = 1..m
  <2>1. Slots(r) = 1..(n - (n - n + 1) + (m - n + 1))
    BY <1>3, <1>4, <1>5
  <2>2. n - (n - n + 1) + (m - n + 1) = m
    BY <1>1
  <2> QED BY <2>1, <2>2
<1>7. ASSUME NEW i \in 1..m PROVE DefEqual(r.defs[i], des.defs[i])
  <2>1. CASE i \in 1..(n - 1)
    BY <1>2, <1>4, <1>5, <2>1
  <2>2. CASE i \in n..(m - 1)
    <3>1. i - n + 1 \in 1..(m - n) /\ i - n + 1 \in 1..Len(s.into)
      BY <1>1, <1>2, <1>3, <2>2
    <3>2. n + (i - n + 1) - 1 = i
      BY <1>1, <2>2
    <3>3. r.defs[i] = des.defs[i]
      BY <1>3, <1>4, <1>5, <3>1, <3>2
    <3> QED BY <1>1, <3>3, DefEqualSame
  <2>3. CASE i = m
    <3>1. m - n + 1 \in 1..Len(s.into) /\ n + (m - n + 1) - 1 = m
      BY <1>1, <1>2, <1>3
    <3>2. r.defs[m] = l.defs[n]
      BY <1>3, <1>4, <1>5, <3>1
    <3> QED BY <1>2, <2>3, <3>2
  <2> QED BY <1>1, <1>2, <2>1, <2>2, <2>3
<1>8. Attained(r, des)
  BY <1>1, <1>4, <1>6, <1>7 DEF Attained, HeaderEqual
<1>9. CatchAllStmts(l, des) = {s}
  BY DEF CatchAllStmts
<1> QED BY <1>4, <1>8, <1>9

LEMMA NoneDropped ==
  ASSUME NEW l \in Layout, NEW des \in Layout, Dropped(l, des) = {}
  PROVE  /\ Consumed(l, des)[Len(l.defs)] = Len(l.defs) /\ Len(l.defs) <= Len(des.defs)
         /\ \A i \in Slots(l) : Consumed(l, des)[i] = i /\ DefEqual(l.defs[i], des.defs[i])
<1> DEFINE f == Consumed(l, des)
           n == Len(l.defs)
           m == Len(des.defs)
           T == {i \in Nat : i <= n => f[i] = i}
<1>1. n \in Nat /\ m \in Nat /\ Slots(l) = 1..n /\ Slots(des) = 1..m
  BY LayoutFacts
<1>2. /\ f[0] = 0 /\ \A i \in 0..n : f[i] \in 0..m
      /\ \A i \in Slots(l) :
           \/ f[i] = f[i - 1]
           \/ f[i] = f[i - 1] + 1 /\ f[i] \in Slots(des) /\ DefEqual(l.defs[i], des.defs[f[i]])
  BY ConsumedSteps
<1>3. \A i \in Slots(l) : f[i] # f[i - 1]
  BY DEF Dropped
<1> HIDE DEF f, n, m
<1>4. \A i \in 1..n : /\ f[i] = f[i - 1] + 1 /\ f[i] \in 1..m /\ DefEqual(l.defs[i], des.defs[f[i]])
  BY <1>1, <1>2, <1>3
<1>5. 0 \in T
  BY <1>2
<1>6. ASSUME NEW i \in T PROVE i + 1 \in T
  <2> SUFFICES ASSUME i + 1 <= n PROVE f[i + 1] = i + 1
    OBVIOUS
  <2>1. i + 1 \in 1..n /\ i + 1 - 1 = i /\ f[i] = i
    BY <1>1
  <2> QED BY <1>4, <2>1
<1>7. T = Nat
  <2> HIDE DEF T
  <2>1. T \in SUBSET Nat BY DEF T
  <2> QED BY <1>5, <1>6, <2>1, Induction
<1>8. \A i \in 0..n : f[i] = i
  <2> SUFFICES ASSUME NEW i \in 0..n PROVE f[i] = i
    OBVIOUS
  <2>1. i \in T /\ i <= n
    BY <1>1, <1>7
  <2> QED BY <2>1
<1>9. f[n] = n /\ n <= m
  BY <1>1, <1>2, <1>8
<1>10. \A i \in Slots(l) : f[i] = i /\ DefEqual(l.defs[i], des.defs[i])
  BY <1>1, <1>4, <1>8
<1> QED BY <1>9, <1>10 DEF f, n, m

LEMMA AddAttains ==
  ASSUME NEW l \in Layout, NEW des \in Layout, HeaderEqual(l, des), Dropped(l, des) = {},
         NEW s \in AddStmts(l, des), NEW r \in Results(l, s)
  PROVE  r \in Layout /\ r.kind = l.kind /\ Attained(r, des) /\ AddStmts(l, des) = {s}
<1> DEFINE n == Len(l.defs)
           m == Len(des.defs)
           rest == SubSeq(des.defs, n + 1, m)
<1>1. /\ n \in Nat /\ m \in Nat /\ Slots(l) = 1..n /\ Slots(des) = 1..m
      /\ l.defs \in Seq(Definition) /\ des.defs \in Seq(Definition)
      /\ \A i \in Slots(des) : des.defs[i] \in Definition
  BY LayoutFacts
<1>2. /\ Consumed(l, des)[n] = n /\ n <= m
      /\ \A i \in Slots(l) : DefEqual(l.defs[i], des.defs[i])
  BY NoneDropped
<1>3. s \in PartitionStatement /\ s.op = "Add"
  BY AddsAre
<1>4. s.into = Added(l, des) /\ Added(l, des) = rest /\ AddStmts(l, des) = {s}
  <2>1. Added(l, des) = rest
    BY <1>2 DEF Added
  <2>2. s = Alter("Add", n + 1, <<>>, Added(l, des), 0) /\ AddStmts(l, des) = {s}
    BY DEF AddStmts
  <2>3. s.into = Added(l, des)
    BY <2>2 DEF Alter
  <2> QED BY <2>1, <2>2, <2>3
<1>5. r \in Layout /\ r.kind = l.kind /\ r.scheme = l.scheme
  BY <1>3, ResultType
<1>6. r.defs = l.defs \o rest
  <2>1. r = [l EXCEPT !.defs = @ \o s.into]
    BY <1>3 DEF Results
  <2>2. s.into = rest
    BY <1>4
  <2> HIDE DEF rest
  <2> QED BY <2>1, <2>2 DEF Layout
<1>7. /\ rest \in Seq(Definition) /\ Len(rest) = m - n
      /\ \A i \in 1..Len(rest) : rest[i] = des.defs[n + 1 + i - 1]
  <2>1. n + 1 \in Nat \ {0} /\ m \in 0..Len(des.defs)
    BY <1>1
  <2> DEFINE a == n + 1
  <2>2. /\ SubSeq(des.defs, a, m) \in Seq(Definition)
        /\ Len(SubSeq(des.defs, a, m)) = IF a <= m THEN m - a + 1 ELSE 0
        /\ \A i \in 1..Len(SubSeq(des.defs, a, m)) : SubSeq(des.defs, a, m)[i] = des.defs[a + i - 1]
    <3> HIDE DEF a, n, m
    <3> QED BY <1>1, <2>1, SubSeqLemma DEF a
  <2> HIDE DEF rest
  <2>3. /\ rest \in Seq(Definition) /\ Len(rest) = IF n + 1 <= m THEN m - (n + 1) + 1 ELSE 0
        /\ \A i \in 1..Len(rest) : rest[i] = des.defs[n + 1 + i - 1]
    BY <2>2 DEF rest
  <2> HIDE DEF n, m
  <2> QED BY <1>1, <1>2, <2>3
<1> HIDE DEF rest
<1>8. /\ Len(r.defs) = n + (m - n)
      /\ \A i \in 1..n : r.defs[i] = l.defs[i]
      /\ \A j \in 1..(m - n) : r.defs[n + j] = rest[j]
  BY <1>1, <1>6, <1>7, Joined
<1> HIDE DEF n, m
<1>9. Slots(r) = 1..m
  <2>1. Slots(r) = 1..Len(r.defs)
    BY <1>5, LayoutFacts
  <2> QED BY <1>1, <1>8, <2>1
<1>10. ASSUME NEW i \in 1..m PROVE DefEqual(r.defs[i], des.defs[i])
  <2>1. CASE i \in 1..n
    BY <1>1, <1>2, <1>8, <2>1
  <2>2. CASE i \in (n + 1)..m
    <3>1. i - n \in 1..(m - n) /\ n + (i - n) = i /\ n + 1 + (i - n) - 1 = i
      BY <1>1, <2>2
    <3>2. r.defs[i] = des.defs[i]
      BY <1>7, <1>8, <3>1
    <3> QED BY <1>1, <3>2, DefEqualSame
  <2> QED BY <1>1, <2>1, <2>2
<1>11. Attained(r, des)
  BY <1>1, <1>5, <1>9, <1>10 DEF Attained, HeaderEqual
<1> QED BY <1>4, <1>5, <1>11

LEMMA ConsumedGrows ==
  ASSUME NEW l \in Layout, NEW des \in Layout
  PROVE  \A i, j \in 0..Len(l.defs) : i <= j => Consumed(l, des)[i] <= Consumed(l, des)[j]
<1> DEFINE f == Consumed(l, des)
           n == Len(l.defs)
           m == Len(des.defs)
<1>1. n \in Nat /\ m \in Nat /\ Slots(l) = 1..n
  BY LayoutFacts
<1>2. /\ \A i \in 0..n : f[i] \in 0..m
      /\ \A i \in 1..n : f[i] = f[i - 1] \/ f[i] = f[i - 1] + 1
  BY <1>1, ConsumedSteps
<1> HIDE DEF f, n, m
<1> SUFFICES ASSUME NEW i \in 0..n PROVE \A j \in 0..n : i <= j => f[i] <= f[j]
  BY DEF f, n
<1> DEFINE T == {k \in Nat : i + k <= n => f[i] <= f[i + k]}
<1>3. 0 \in T
  BY <1>1, <1>2
<1>4. ASSUME NEW k \in T PROVE k + 1 \in T
  <2> SUFFICES ASSUME i + (k + 1) <= n PROVE f[i] <= f[i + (k + 1)]
    OBVIOUS
  <2>1. i + (k + 1) \in 1..n /\ i + (k + 1) - 1 = i + k /\ i + k \in 0..n /\ i + k <= n
    BY <1>1
  <2>2. f[i] <= f[i + k] /\ f[i] \in Nat /\ f[i + k] \in Nat
    BY <1>1, <1>2, <2>1
  <2> QED BY <1>2, <2>1, <2>2
<1>5. T = Nat
  <2> HIDE DEF T
  <2>1. T \in SUBSET Nat BY DEF T
  <2> QED BY <1>3, <1>4, <2>1, Induction
<1>6. ASSUME NEW j \in 0..n, i <= j PROVE f[i] <= f[j]
  <2> DEFINE k == j - i
  <2>1. k \in Nat /\ i + k = j /\ j <= n
    BY <1>1, <1>6
  <2> HIDE DEF k
  <2>2. i + k <= n => f[i] <= f[i + k]
    BY <1>5, <2>1
  <2> QED BY <2>1, <2>2
<1> QED BY <1>6

LEMMA DropAttains ==
  ASSUME NEW l \in Layout, NEW des \in Layout, DistinctNames(l), HeaderEqual(l, des),
         Added(l, des) = <<>>, NEW s \in DropStmts(l, des), NEW r \in Results(l, s)
  PROVE  r \in Layout /\ r.kind = l.kind /\ Attained(r, des)
<1> DEFINE f == Consumed(l, des)
           n == Len(l.defs)
           m == Len(des.defs)
           D == Dropped(l, des)
<1>1. /\ n \in Nat /\ m \in Nat /\ Slots(l) = 1..n /\ Slots(des) = 1..m
      /\ D \subseteq Slots(l)
  BY LayoutFacts DEF Dropped
<1>2. s \in PartitionStatement /\ s.op = "Drop"
  BY DropsAre
<1>3. r \in Layout /\ r.kind = l.kind /\ r.scheme = l.scheme
  BY <1>2, ResultType
<1>4. Elements(s.names) = {l.defs[i].name : i \in D}
  <2>1. PICK gone \in Ascending(D) :
          s = Alter("Drop", 0, [k \in DOMAIN gone |-> l.defs[gone[k]].name], <<>>, 0)
    BY DEF DropStmts
  <2>2. s.names = [k \in DOMAIN gone |-> l.defs[gone[k]].name]
    BY <2>1 DEF Alter
  <2>3. /\ \A k \in DOMAIN gone : gone[k] \in D
        /\ \A i \in D : \E k \in DOMAIN gone : gone[k] = i
    <3>1. D \in SUBSET Slots(l)
      BY <1>1
    <3> HIDE DEF D
    <3> DEFINE q == Pick(l, gone)
    <3>2. /\ \A k \in Slots(q) : gone[k] \in D
          /\ \A i \in D : \E k \in Slots(q) : gone[k] = i
      BY <3>1, KeptLemma
    <3>3. Slots(q) = DOMAIN gone
      BY DEF Slots, Pick, Layout
    <3> QED BY <3>2, <3>3
  <2> QED BY <2>2, <2>3 DEF Elements
<1>5. Survivors(l, s.names) = Slots(l) \ D
  <2>1. ASSUME NEW i \in Slots(l), l.defs[i].name \in Elements(s.names) PROVE i \in D
    <3>1. PICK j \in D : l.defs[j].name = l.defs[i].name
      BY <1>4, <2>1
    <3> QED BY <1>1, <3>1 DEF DistinctNames
  <2>2. \A i \in D : l.defs[i].name \in Elements(s.names)
    BY <1>4
  <2> QED BY <1>1, <2>1, <2>2 DEF Survivors
<1>6. PICK kept \in Ascending(Survivors(l, s.names)) : r = Pick(l, kept)
  BY <1>2 DEF Results, Survivors
<1>7. /\ \A k \in Slots(r) : kept[k] \in Slots(l) \ D /\ r.defs[k] = l.defs[kept[k]]
      /\ \A j, k \in Slots(r) : j < k => kept[j] < kept[k]
      /\ \A i \in Slots(l) \ D : \E k \in Slots(r) : kept[k] = i
  <2>1. Survivors(l, s.names) \in SUBSET Slots(l)
    BY DEF Survivors
  <2> HIDE DEF D
  <2> QED BY <1>5, <1>6, <2>1, KeptLemma
<1>8. /\ \A i \in 0..n : f[i] \in 0..m
      /\ \A i \in Slots(l) \ D :
           f[i] = f[i - 1] + 1 /\ f[i] \in Slots(des) /\ DefEqual(l.defs[i], des.defs[f[i]])
  <2>1. /\ \A i \in 0..n : f[i] \in 0..m
        /\ \A i \in Slots(l) :
             \/ f[i] = f[i - 1]
             \/ f[i] = f[i - 1] + 1 /\ f[i] \in Slots(des) /\ DefEqual(l.defs[i], des.defs[f[i]])
    BY ConsumedSteps
  <2>2. \A i \in Slots(l) \ D : f[i] # f[i - 1]
    BY DEF Dropped
  <2> HIDE DEF f, n, m, D
  <2> QED BY <2>1, <2>2
<1>9. \A i, j \in 0..n : i <= j => f[i] <= f[j]
  BY ConsumedGrows
<1>10. \A k \in Slots(des) : \E i \in Slots(l) \ D : f[i] = k
  BY AllFound
<1>11. Slots(r) = 1..Len(r.defs) /\ Len(r.defs) \in Nat
  BY <1>3, LayoutFacts
<1> DEFINE c == Len(r.defs)
           g == [k \in 1..c |-> f[kept[k]]]
<1> HIDE DEF f, n, m, D, c
<1>12. c \in Nat /\ Slots(r) = 1..c
  BY <1>11 DEF c
<1>13. g \in [1..c -> 1..m]
  BY <1>1, <1>7, <1>8, <1>12
<1>14. ASSUME NEW j \in 1..c, NEW k \in 1..c, j < k PROVE g[j] < g[k]
  <2>1. kept[j] \in 1..n /\ kept[k] \in 1..n /\ kept[j] < kept[k] /\ kept[k] \in Slots(l) \ D
    BY <1>1, <1>7, <1>12, <1>14
  <2>2. kept[j] \in 0..n /\ kept[k] - 1 \in 0..n /\ kept[j] <= kept[k] - 1
    BY <1>1, <2>1
  <2>3. f[kept[j]] <= f[kept[k] - 1] /\ f[kept[k]] = f[kept[k] - 1] + 1
    BY <1>8, <1>9, <2>1, <2>2
  <2>4. f[kept[j]] \in Nat /\ f[kept[k] - 1] \in Nat
    BY <1>1, <1>8, <2>2
  <2> QED BY <2>3, <2>4
<1>15. ASSUME NEW k \in 1..m PROVE \E j \in 1..c : g[j] = k
  <2>1. PICK i \in Slots(l) \ D : f[i] = k
    BY <1>1, <1>10
  <2>2. PICK j \in 1..c : kept[j] = i
    BY <1>7, <1>12
  <2> QED BY <2>1, <2>2
<1>16. c = m /\ \A k \in 1..c : g[k] = k
  <2>1. /\ \A j, k \in 1..c : j < k => g[j] < g[k]
        /\ \A k \in 1..m : \E j \in 1..c : g[j] = k
    BY <1>14, <1>15
  <2>2. c \in Nat /\ m \in Nat /\ g \in [1..c -> 1..m]
    BY <1>1, <1>12, <1>13
  <2> HIDE DEF g
  <2>3. CountsUp(g, c, m)
    BY <2>1, <2>2 DEF CountsUp
  <2> QED BY <2>2, <2>3, CountedUp
<1>17. ASSUME NEW k \in Slots(r) PROVE DefEqual(r.defs[k], des.defs[k])
  <2>1. k \in 1..c /\ f[kept[k]] = k
    BY <1>12, <1>16
  <2> QED BY <1>7, <1>8, <2>1
<1> QED BY <1>1, <1>3, <1>12, <1>16, <1>17 DEF Attained, HeaderEqual

(***************************************************************************)
(* The number of HASH partitions, once it is spelled out, is the desired   *)
(* one after one statement.                                                *)
(***************************************************************************)
LEMMA CountAttains ==
  ASSUME NEW l \in Layout, NEW des \in Layout, WellFormed(l), WellFormed(des),
         l.kind = "HASH", HeaderEqual(l, des), NEW s \in CountStmts(l, des), NEW r \in Results(l, s)
  PROVE  /\ r \in Layout /\ r.kind = "HASH" /\ r.scheme = l.scheme /\ r.defs = <<>> /\ ~Uncounted(r)
         /\ CountStmts(l, des) = {s}
         /\ ~Uncounted(l) => r = des
<1> DEFINE n == IF l.count < des.count THEN des.count - l.count ELSE l.count - des.count
<1>1. /\ l.count \in Nat \cup {Unset} /\ des.count \in Nat \cup {Unset} /\ Unset = -1
      /\ l.defs = <<>> /\ des.defs = <<>> /\ des.kind = "HASH" /\ des.scheme = l.scheme
  BY DEF Layout, WellFormed, HeaderEqual, Unset
<1>2. /\ CountStmts(l, des) = {s} /\ s.n = n
      /\ \/ s.op = "AddCount" /\ l.count < des.count
         \/ s.op = "Coalesce" /\ des.count < l.count
  <2>1. CASE l.count < des.count
    <3>1. CountStmts(l, des) = {Alter("AddCount", 0, <<>>, <<>>, des.count - l.count)}
      BY <2>1 DEF CountStmts
    <3> QED BY <2>1, <3>1 DEF Alter
  <2>2. CASE ~(l.count < des.count)
    <3>1. /\ des.count < l.count
          /\ CountStmts(l, des) = {Alter("Coalesce", 0, <<>>, <<>>, l.count - des.count)}
      BY <2>2 DEF CountStmts
    <3> QED BY <2>2, <3>1 DEF Alter
  <2> QED BY <2>1, <2>2
<1>3. n \in Nat
  BY <1>1, <1>2
<1>4. Number(l) \in Nat /\ (~Uncounted(l) => Number(l) = l.count /\ l.count \in Nat)
  BY <1>1 DEF Number, Uncounted
<1>5. PICK c \in Nat : /\ r = [l EXCEPT !.count = c]
                       /\ \/ s.op = "AddCount" /\ c = Number(l) + s.n
                          \/ s.op = "Coalesce" /\ c = Number(l) - s.n
  <2>1. CASE s.op = "AddCount"
    <3>1. r = [l EXCEPT !.count = Number(l) + s.n]
      BY <2>1 DEF Results
    <3>2. Number(l) + s.n \in Nat
      BY <1>2, <1>3, <1>4
    <3> QED BY <2>1, <3>1, <3>2
  <2>2. CASE s.op = "Coalesce"
    <3>1. s.n < Number(l) /\ r = [l EXCEPT !.count = Number(l) - s.n]
      BY <2>2 DEF Results
    <3>2. Number(l) - s.n \in Nat
      BY <1>2, <1>3, <1>4, <3>1
    <3> QED BY <2>2, <3>1, <3>2
  <2> QED BY <1>2, <2>1, <2>2
<1>6. r \in Layout /\ r.kind = "HASH" /\ r.scheme = l.scheme /\ r.defs = <<>> /\ r.count = c
  BY <1>1, <1>5 DEF Layout
<1>7. ASSUME ~Uncounted(l) PROVE r = des
  <2>1. c = des.count
    BY <1>1, <1>2, <1>4, <1>5, <1>7
  <2> QED BY <1>1, <1>6, <2>1 DEF Layout
<1>8. ~Uncounted(r)
  BY <1>1, <1>6 DEF Uncounted
<1> QED BY <1>2, <1>6, <1>7, <1>8

(***************************************************************************)
(* After any statement of a plan, the plan made anew is what is left of it.*)
(***************************************************************************)
Continues(s, l, r, des, allow) ==
  /\ r \in Layout /\ WellFormed(r) /\ ~Uncounted(r)
  /\ Uncounted(l) => Ordered(l, des) = {s}
  /\ ~Uncounted(l) => /\ ~PartitionsRefused(r, des, allow)
                      /\ Ordered(r, des) = Ordered(l, des) \ {s}
  /\ EndShrinks(r, des) => EndShrinks(l, des)

LEMMA SameLength ==
  ASSUME NEW l \in Layout, NEW r \in Layout, Slots(l) = Slots(r)
  PROVE  Len(l.defs) = Len(r.defs)
<1>1. 1..Len(l.defs) = 1..Len(r.defs) /\ Len(l.defs) \in Nat /\ Len(r.defs) \in Nat
  BY LayoutFacts
<1> QED BY <1>1

LEMMA AttainedContinues ==
  ASSUME NEW l \in Layout, NEW r \in Layout, NEW des \in Layout, NEW allow, NEW s,
         WellFormed(l), WellFormed(des), l # des, ~PartitionsRefused(l, des, allow),
         Creatable(r), r.kind = l.kind, l.kind \notin {"none", "HASH"},
         Attained(r, des), Ordered(l, des) = {s}
  PROVE  Continues(s, l, r, des, allow)
<1>1. ~PartitionsRefused(r, des, allow) /\ Ordered(r, des) = {}
  BY AttainedEnds
<1>2. /\ Slots(r) = Slots(des) /\ r.kind = des.kind
      /\ \A i \in Slots(r) : r.defs[i] \in Definition /\ des.defs[i] \in Definition
                             /\ DefEqual(r.defs[i], des.defs[i])
  BY LayoutFacts DEF Attained, HeaderEqual
<1>3. \A i \in Slots(r) : r.defs[i].in = des.defs[i].in /\ r.defs[i].to = des.defs[i].to
  BY <1>2, DefEqualFields
<1>4. WellFormed(r)
  BY <1>2, <1>3 DEF WellFormed, ByRange
<1>5. ~EndShrinks(r, des)
  <2> SUFFICES ASSUME EndShrinks(r, des) PROVE FALSE
    OBVIOUS
  <2>1. des.defs[Len(des.defs)].to < r.defs[Len(r.defs)].to
    BY DEF EndShrinks
  <2>2. /\ Slots(r) = 1..Len(r.defs) /\ Len(r.defs) \in Nat
        /\ Slots(des) = 1..Len(des.defs) /\ Len(des.defs) \in Nat
    BY LayoutFacts
  <2>3. Len(r.defs) = Len(des.defs)
    BY <1>2, SameLength
  <2>4. Len(r.defs) # 0
    <3>1. r.defs \in Seq(Definition) /\ r.defs # <<>>
      BY LayoutFacts DEF Creatable
    <3> QED BY <3>1
  <2>5. Len(r.defs) \in Slots(r) /\ r.defs[Len(r.defs)].to \in Int
    BY <2>2, <2>4, LayoutFacts
  <2>6. r.defs[Len(r.defs)].to = des.defs[Len(des.defs)].to
    BY <1>3, <2>3, <2>5
  <2> QED BY <2>1, <2>5, <2>6
<1>6. ~Uncounted(l) /\ ~Uncounted(r)
  BY DEF Uncounted
<1> QED BY <1>1, <1>4, <1>5, <1>6 DEF Continues

(***************************************************************************)
(* There is one way to list slots in ascending order, so one DROP at most. *)
(***************************************************************************)
LEMMA OneDrop ==
  ASSUME NEW l \in Layout, NEW des, NEW s \in DropStmts(l, des)
  PROVE  DropStmts(l, des) = {s}
<1> DEFINE D == Dropped(l, des)
           c == Cardinality(D)
           Stmt(gone) == Alter("Drop", 0, [k \in DOMAIN gone |-> l.defs[gone[k]].name], <<>>, 0)
<1>1. DropStmts(l, des) = {Stmt(gone) : gone \in Ascending(D)}
  BY DEF DropStmts
<1>2. ASSUME NEW a \in Ascending(D), NEW b \in Ascending(D) PROVE a = b
  <2>1. Len(l.defs) \in Nat /\ D \in SUBSET (1..Len(l.defs))
    BY LayoutFacts DEF Dropped
  <2> HIDE DEF D
  <2>2. a \in Listings(D) /\ b \in Listings(D)
    BY <2>1, AscendingLists
  <2> QED BY <2>1, <2>2, OneListing
<1> HIDE DEF Stmt
<1> QED BY <1>1, <1>2

LEMMA RunKeepsPlan ==
  ASSUME NEW l \in Layout, NEW r \in Layout, NEW des \in Layout, NEW allow, NEW s,
         WellFormed(l), WellFormed(des), Creatable(l), Creatable(r), l # des,
         ~PartitionsRefused(l, des, allow), l.kind \notin {"none", "HASH"},
         NameListEqual(l, des), ByRange(l) \/ ChangedAreSupersets(l, des),
         s \in Rewrites(l, des), r \in Results(l, s)
  PROVE  Continues(s, l, r, des, allow)
<1>1. HeaderEqual(l, des) /\ DistinctNames(l) /\ ~ListOverlap(des) /\ ~NotMonotonic(des)
  BY DEF PartitionsRefused, Creatable
<1>2. PICK x, y \in Slots(l) : IsRun(Changed(l, des), x, y) /\ s = RunStmt(l, des, x, y)
  BY RewritesByRuns
<1>3. /\ r.kind = l.kind /\ HeaderEqual(r, des) /\ Slots(r) = Slots(l) /\ NameListEqual(r, des)
      /\ \A i \in Slots(l) : r.defs[i] = l.defs[i] \/ DefEqual(r.defs[i], des.defs[i])
      /\ Rewrites(r, des) = Rewrites(l, des) \ {s}
  BY <1>1, <1>2, RunContinues
<1>4. ASSUME NEW i \in Slots(l)
      PROVE  \/ r.defs[i] = l.defs[i]
             \/ r.defs[i].in = des.defs[i].in /\ r.defs[i].to = des.defs[i].to
  <2>1. r.defs[i] \in Definition /\ des.defs[i] \in Definition
    BY <1>3, LayoutFacts DEF NameListEqual
  <2> QED BY <1>3, <2>1, DefEqualFields
<1>5. WellFormed(r)
  BY <1>1, <1>3, <1>4 DEF WellFormed, ByRange, HeaderEqual, NameListEqual
<1>6. ~Uncounted(l) /\ ~Uncounted(r)
  BY <1>3 DEF Uncounted
<1>7. Discards(r, des) => Discards(l, des)
  <2>1. \A i \in Slots(r) : r.defs[i].in \subseteq ListValues(l) \cup ListValues(des)
    BY <1>3, <1>4 DEF ListValues, NameListEqual
  <2>2. ListValues(r) \subseteq ListValues(l) \cup ListValues(des)
    BY <2>1 DEF ListValues
  <2> QED BY <1>3, <2>2 DEF Discards
<1>8. ~PartitionsRefused(r, des, allow)
  BY <1>1, <1>3, <1>7 DEF PartitionsRefused, Reshaped
<1>9. Ordered(l, des) = Rewrites(l, des)
  BY DEF Ordered
<1>10. Ordered(r, des) = Rewrites(r, des)
  <2>1. CASE r = des
    <3>1. Changed(r, des) = {}
      BY <2>1, LayoutFacts, DefEqualSame DEF Changed
    <3> QED BY <2>1, <3>1, NothingToRewrite DEF Ordered
  <2>2. CASE r # des
    BY <1>3, <2>2 DEF Ordered
  <2> QED BY <2>1, <2>2
<1>11. ASSUME EndShrinks(r, des) PROVE EndShrinks(l, des)
  <2>1. ByRange(l) /\ Len(r.defs) = Len(l.defs) /\ Len(des.defs) = Len(l.defs)
    BY <1>3, <1>11, SameLength DEF EndShrinks, ByRange, NameListEqual
  <2>2. Len(l.defs) \in Slots(l) /\ r.defs[Len(l.defs)].to \in Int
    <3>1. Slots(l) = 1..Len(l.defs) /\ Len(l.defs) \in Nat /\ l.defs \in Seq(Definition) /\ l.defs # <<>>
      BY LayoutFacts DEF Creatable
    <3>2. Len(l.defs) \in Slots(l)
      BY <3>1
    <3> QED BY <1>3, <3>2, LayoutFacts
  <2>3. des.defs[Len(l.defs)].to < r.defs[Len(l.defs)].to
    BY <1>11, <2>1 DEF EndShrinks
  <2>4. r.defs[Len(l.defs)] = l.defs[Len(l.defs)]
    BY <1>4, <2>2, <2>3
  <2> QED BY <2>1, <2>3, <2>4 DEF EndShrinks
<1> QED BY <1>3, <1>5, <1>6, <1>8, <1>9, <1>10, <1>11 DEF Continues

LEMMA PlanContinues ==
  ASSUME NEW l \in Layout, NEW des \in Layout, NEW allow, WellFormed(l), WellFormed(des),
         Creatable(l), ~PartitionsRefused(l, des, allow),
         NEW s \in PartitionsPlanned(l, des, allow), NEW r \in Accepted(l, s)
  PROVE  Continues(s, l, r, des, allow)
<1>1. l # des /\ s \in Ordered(l, des)
  BY DEF PartitionsPlanned, Ordered
<1>2. HeaderEqual(l, des) /\ DistinctNames(l)
  BY <1>1 DEF PartitionsRefused, Creatable
<1>3. r \in Results(l, s) /\ Creatable(r)
  BY DEF Accepted
<1>4. CASE l.kind = "HASH"
  <2>1. Ordered(l, des) = CountStmts(l, des)
    BY <1>1, <1>4 DEF Ordered
  <2>2. /\ r \in Layout /\ r.kind = "HASH" /\ r.scheme = l.scheme /\ r.defs = <<>> /\ ~Uncounted(r)
        /\ CountStmts(l, des) = {s}
        /\ ~Uncounted(l) => r = des
    BY <1>1, <1>2, <1>3, <1>4, <2>1, CountAttains
  <2>3. WellFormed(r) /\ ~EndShrinks(r, des)
    BY <2>2 DEF WellFormed, EndShrinks, ByRange
  <2>4. r = des => ~PartitionsRefused(r, des, allow) /\ Ordered(r, des) = {}
    BY DEF PartitionsRefused, Ordered
  <2> QED BY <2>1, <2>2, <2>3, <2>4 DEF Continues
<1>5. CASE l.kind # "HASH" /\ NameListEqual(l, des)
  <2>1. Ordered(l, des) = Rewrites(l, des)
    BY <1>1, <1>5 DEF Ordered
  <2>2. l.kind # "none"
    <3>1. PICK first, last \in Slots(l) : first <= last
      BY <1>1, <1>5, <2>1, RewritesAre
    <3> QED BY <3>1 DEF WellFormed, Slots
  <2>3. CASE ByRange(l) \/ ChangedAreSupersets(l, des)
    <3>1. r \in Layout
      <4>1. PICK x, y \in Slots(l) : IsRun(Changed(l, des), x, y) /\ s = RunStmt(l, des, x, y)
        BY <1>1, <2>1, <2>3, RewritesByRuns
      <4> QED BY <1>2, <1>3, <1>5, <2>3, <4>1, RunContinues
    <3> QED BY <1>1, <1>3, <1>5, <2>1, <2>2, <2>3, <3>1, RunKeepsPlan
  <2>4. CASE ~ByRange(l) /\ ~ChangedAreSupersets(l, des)
    <3>1. r \in Layout /\ r.kind = l.kind /\ Attained(r, des) /\ Rewrites(l, des) = {s}
      BY <1>1, <1>2, <1>3, <1>5, <2>1, <2>4, SpanAttains
    <3> QED BY <1>1, <1>3, <1>5, <2>1, <2>2, <3>1, AttainedContinues
  <2> QED BY <2>3, <2>4
<1>6. CASE l.kind # "HASH" /\ ~NameListEqual(l, des)
  <2>1. l.kind # "none"
    BY <1>2, <1>6 DEF WellFormed, HeaderEqual, NameListEqual, Slots
  <2>2. CASE CatchAllInsert(l, des)
    <3>1. Ordered(l, des) = CatchAllStmts(l, des)
      BY <1>1, <1>6, <2>2 DEF Ordered
    <3>2. r \in Layout /\ r.kind = l.kind /\ Attained(r, des) /\ CatchAllStmts(l, des) = {s}
      BY <1>1, <1>2, <1>3, <2>2, <3>1, CatchAllAttains
    <3> QED BY <1>1, <1>3, <1>6, <2>1, <3>1, <3>2, AttainedContinues
  <2>3. CASE ~CatchAllInsert(l, des)
    <3>1. Ordered(l, des) = AddStmts(l, des) \cup DropStmts(l, des)
      BY <1>1, <1>6, <2>3 DEF Ordered
    <3>2. Dropped(l, des) = {} \/ Added(l, des) = <<>>
      BY <1>1, <1>6, <2>3 DEF PartitionsRefused, Reshaped
    <3>3. CASE s \in AddStmts(l, des)
      <4>1. Added(l, des) # <<>> /\ Dropped(l, des) = {} /\ DropStmts(l, des) = {}
        BY <3>2, <3>3 DEF AddStmts, DropStmts
      <4>2. r \in Layout /\ r.kind = l.kind /\ Attained(r, des) /\ AddStmts(l, des) = {s}
        BY <1>2, <1>3, <3>3, <4>1, AddAttains
      <4> QED BY <1>1, <1>3, <1>6, <2>1, <3>1, <4>1, <4>2, AttainedContinues
    <3>4. CASE s \in DropStmts(l, des)
      <4>1. Added(l, des) = <<>> /\ AddStmts(l, des) = {}
        BY <3>2, <3>4 DEF AddStmts, DropStmts
      <4>2. r \in Layout /\ r.kind = l.kind /\ Attained(r, des)
        BY <1>2, <1>3, <3>4, <4>1, DropAttains
      <4>3. DropStmts(l, des) = {s}
        BY <3>4, OneDrop
      <4> QED BY <1>1, <1>3, <1>6, <2>1, <3>1, <4>1, <4>2, <4>3, AttainedContinues
    <3> QED BY <1>1, <3>1, <3>3, <3>4
  <2> QED BY <2>2, <2>3
<1> QED BY <1>4, <1>5, <1>6

(***************************************************************************)
(* A clause with something to change has a statement ordered for it.       *)
(***************************************************************************)
LEMMA RunExists ==
  ASSUME NEW n \in Nat, NEW C \in SUBSET (1..n), C # {}
  PROVE  \E x, y \in C : IsRun(C, x, y)
<1>1. C \in SUBSET Nat
  OBVIOUS
<1>2. PICK x \in C : \A i \in C : x <= i
  BY <1>1, LeastNumber
<1> DEFINE T == {k \in Nat : x <= k /\ k + 1 \notin C}
<1>3. x \in Nat /\ n \in T
  BY <1>2
<1>4. PICK y \in T : \A k \in T : y <= k
  <2>1. T \in SUBSET Nat /\ T # {}
    BY <1>3
  <2> HIDE DEF T
  <2> QED BY <2>1, LeastNumber
<1>5. ASSUME NEW k \in x..y PROVE k \in C
  <2>1. CASE k = x
    BY <1>2, <2>1
  <2>2. CASE k # x
    <3>1. k - 1 \in Nat /\ x <= k - 1 /\ k - 1 < y /\ k - 1 + 1 = k
      BY <1>3, <1>4, <1>5, <2>2
    <3>2. k - 1 \notin T
      BY <1>4, <3>1
    <3> QED BY <3>1, <3>2
  <2> QED BY <2>1, <2>2
<1>6. x - 1 \notin C /\ y + 1 \notin C /\ x <= y /\ y \in x..y
  BY <1>2, <1>3, <1>4
<1> QED BY <1>5, <1>6 DEF IsRun

LEMMA SpanExists ==
  ASSUME NEW n \in Nat, NEW C \in SUBSET (1..n), C # {}
  PROVE  \E x, y \in C : \A i \in C : x <= i /\ i <= y
<1>1. C \in SUBSET Nat
  OBVIOUS
<1>2. PICK x \in C : \A i \in C : x <= i
  BY <1>1, LeastNumber
<1> DEFINE T == {n - i : i \in C}
<1>3. PICK k \in T : \A j \in T : k <= j
  <2>1. T \in SUBSET Nat /\ T # {}
    OBVIOUS
  <2> HIDE DEF T
  <2> QED BY <2>1, LeastNumber
<1>4. PICK y \in C : k = n - y
  OBVIOUS
<1>5. ASSUME NEW i \in C PROVE i <= y
  <2>1. k <= n - i
    BY <1>3
  <2>2. i \in Nat /\ y \in Nat
    BY <1>1, <1>4
  <2> QED BY <1>4, <2>1, <2>2
<1> QED BY <1>2, <1>5

LEMMA RewritesExist ==
  ASSUME NEW l \in Layout, NEW des, Changed(l, des) # {}
  PROVE  Rewrites(l, des) # {}
<1> DEFINE C == Changed(l, des)
<1>1. Len(l.defs) \in Nat /\ C \in SUBSET (1..Len(l.defs)) /\ Slots(l) = 1..Len(l.defs)
  BY LayoutFacts DEF Changed
<1>2. CASE ByRange(l) \/ ChangedAreSupersets(l, des)
  <2>1. PICK x, y \in C : IsRun(C, x, y)
    <3> HIDE DEF C
    <3> QED BY <1>1, RunExists DEF C
  <2>2. RunStmt(l, des, x, y) \in Rewrites(l, des)
    BY <1>1, <1>2, <2>1, RewritesByRuns
  <2> QED BY <2>2
<1>3. CASE ~ByRange(l) /\ ~ChangedAreSupersets(l, des)
  <2>1. PICK x, y \in C : \A i \in C : x <= i /\ i <= y
    <3> HIDE DEF C
    <3> QED BY <1>1, SpanExists DEF C
  <2>2. <<x, y>> \in Span(l, des)
    BY <2>1 DEF Span
  <2> QED BY <1>3, <2>2 DEF Rewrites
<1> QED BY <1>2, <1>3

LEMMA DropExists ==
  ASSUME NEW l \in Layout, NEW des, Dropped(l, des) # {}
  PROVE  DropStmts(l, des) # {}
<1> DEFINE D == Dropped(l, des)
<1>1. Len(l.defs) \in Nat /\ D \in SUBSET (1..Len(l.defs))
  BY LayoutFacts DEF Dropped
<1>2. Ascending(D) # {}
  <2> HIDE DEF D
  <2> QED BY <1>1, Enumerated, AscendingLists
<1> QED BY <1>2 DEF DropStmts

LEMMA NoneLeftOver ==
  ASSUME NEW l \in Layout, NEW des \in Layout, Added(l, des) = <<>>, Dropped(l, des) = {}
  PROVE  Slots(des) \subseteq Slots(l)
<1>1. \A i \in Slots(l) : Consumed(l, des)[i] = i
  BY NoneDropped
<1> QED BY <1>1, AllFound

LEMMA EmptyAgrees ==
  ASSUME NEW l \in Layout, NEW des \in Layout, NEW allow, WellFormed(l), WellFormed(des),
         ~PartitionsRefused(l, des, allow), Ordered(l, des) = {}
  PROVE  Agrees(l, des)
<1> SUFFICES ASSUME l # des PROVE Agrees(l, des)
  BY DEF Agrees
<1>1. HeaderEqual(l, des)
  BY DEF PartitionsRefused
<1>2. CASE l.kind = "HASH"
  <2>1. CountStmts(l, des) = {}
    BY <1>2 DEF Ordered
  <2>2. l.count \in Int /\ des.count \in Int
    BY LayoutFacts DEF Unset
  <2>3. l.count = des.count
    BY <2>1, <2>2 DEF CountStmts
  <2>4. l.defs = <<>> /\ des.defs = <<>> /\ l.kind = des.kind /\ l.scheme = des.scheme
    BY <1>1, <1>2 DEF WellFormed, HeaderEqual
  <2> QED BY <2>3, <2>4 DEF Layout
<1>3. CASE l.kind # "HASH" /\ NameListEqual(l, des)
  <2>1. Changed(l, des) = {}
    BY <1>3, RewritesExist DEF Ordered
  <2>2. Attained(l, des)
    BY <1>1, <1>3, <2>1 DEF Attained, Changed, NameListEqual
  <2> QED BY <1>3, <2>2, AttainedFacts
<1>4. CASE l.kind # "HASH" /\ ~NameListEqual(l, des)
  <2>1. ~CatchAllInsert(l, des) /\ AddStmts(l, des) = {} /\ DropStmts(l, des) = {}
    BY <1>4 DEF Ordered, CatchAllStmts
  <2>2. Added(l, des) = <<>> /\ Dropped(l, des) = {}
    BY <2>1, DropExists DEF AddStmts
  <2>3. /\ Slots(l) = 1..Len(l.defs) /\ Len(l.defs) \in Nat
        /\ Slots(des) = 1..Len(des.defs) /\ Len(des.defs) \in Nat
    BY LayoutFacts
  <2>4. Slots(des) \subseteq Slots(l)
    BY <2>2, NoneLeftOver
  <2>5. /\ Len(l.defs) <= Len(des.defs)
        /\ \A i \in Slots(l) : DefEqual(l.defs[i], des.defs[i])
    BY <2>2, NoneDropped
  <2>6. Slots(l) = Slots(des)
    <3>1. Slots(l) \subseteq Slots(des)
      BY <2>3, <2>5
    <3> QED BY <2>4, <3>1
  <2>7. Attained(l, des)
    BY <1>1, <2>5, <2>6 DEF Attained
  <2> QED BY <1>4, <2>7, AttainedFacts
<1> QED BY <1>2, <1>3, <1>4

-----------------------------------------------------------------------------
(***************************************************************************)
(* The inductive invariant of a run that nobody interferes with: what is   *)
(* pending is the plan for the clause there is now, or there is none left  *)
(* after the one statement that gave an uncounted clause its number.       *)
(***************************************************************************)
OnPlan(l, p) ==
  /\ ~PartitionsRefused(l, job.des, job.allow)
  /\ PartitionsPlanned(l, job.des, job.allow) = pending[p]
  /\ PartitionsSkipped(l, job.des, job.allow) = skipped[p]

Executing(p) ==
  /\ \/ OnPlan(layout, p)
     \/ Uncounted(job.cur) /\ pending[p] = {}
  /\ EndShrinks(layout, job.des) => EndShrinks(snap[p], job.des)

Finished(p) ==
  \/ Uncounted(job.cur)
  \/ Agrees(layout, job.des)
  \/ skipped[p] # {} /\ PartitionsPlanned(layout, job.des, job.allow) = {}

Bystanders == \A p \in Clients : p \notin job.runs => pc[p] = "absent"

RunInv ==
  Alone =>
    /\ WellFormed(layout)
    /\ Uncounted(layout) => Uncounted(job.cur)
    /\ \A p \in Clients : pc[p] = "exec" => Executing(p)
    /\ \A p \in Clients : pc[p] = "done" => Finished(p)

AloneInv == CustodyInv /\ Bystanders /\ RunInv

LEMMA AloneInvInit == Init => AloneInv
<1> SUFFICES ASSUME Init PROVE Bystanders /\ RunInv
  BY CustodyInvInit DEF AloneInv
<1>1. PartitionScenario(job) /\ layout = job.cur
  BY PartitionScenarioAssumption DEF Init
<1>2. WellFormed(layout)
  BY <1>1 DEF PartitionScenario
<1>3. \A p \in Clients : pc[p] \in {"start", "absent"} /\ (p \notin job.runs => pc[p] = "absent")
  BY DEF Init
<1> QED BY <1>1, <1>2, <1>3 DEF Bystanders, RunInv

(***************************************************************************)
(* One statement.                                                          *)
(***************************************************************************)
LEMMA ExecOnPlan ==
  ASSUME TypeOK, Bystanders, RunInv, Alone, NEW p \in Clients, NEW s \in Ready(p), Exec(p, s)
  PROVE  /\ Continues(s, layout, layout', job.des, job.allow)
         /\ OnPlan(layout, p) /\ pending'[p] = pending[p] \ {s}
<1>1. /\ layout \in Layout /\ Creatable(layout) /\ PartitionScenario(job)
      /\ pending \in [Clients -> SUBSET PartitionStatement]
  BY DEF TypeOK
<1>2. job.des \in Layout /\ WellFormed(job.des) /\ WellFormed(layout)
  BY <1>1 DEF PartitionScenario, RunInv
<1>3. pc[p] = "exec" /\ s \in pending[p]
  BY DEF Ready, NextOf
<1>4. OnPlan(layout, p)
  BY <1>3 DEF RunInv, Executing
<1>5. ~PartitionsRefused(layout, job.des, job.allow) /\ s \in PartitionsPlanned(layout, job.des, job.allow)
  BY <1>3, <1>4 DEF OnPlan
<1>6. layout' \in Accepted(layout, s)
  BY DEF Exec
<1>7. Continues(s, layout, layout', job.des, job.allow)
  BY <1>1, <1>2, <1>5, <1>6, PlanContinues
<1>8. pending'[p] = pending[p] \ {s}
  BY <1>1 DEF Exec
<1> QED BY <1>4, <1>7, <1>8

LEMMA AloneInvStep ==
  ASSUME AloneInv, [Next]_vars
  PROVE  AloneInv'
<1>1. CustodyInv' /\ UNCHANGED job
  BY CustodyInvStep DEF AloneInv
<1>2. TypeOK /\ Bystanders /\ RunInv /\ PartitionScenario(job) /\ TypeOK'
  BY <1>1 DEF AloneInv, CustodyInv, TypeOK
<1>3. CASE UNCHANGED vars
  BY <1>1, <1>2, <1>3 DEF vars, AloneInv, Bystanders, RunInv, Alone, Executing, Finished, OnPlan
<1>4. CASE Next
  <2>1. PICK p \in Clients : Step(p) \/ Crash(p) \/ Rerun(p)
    BY <1>4 DEF Next
  <2>2. p \in job.runs
    BY <1>2, <2>1 DEF Bystanders, Step, Refuse, Plan, Ready, Finish, Crash, Rerun
  <2>3. \E x \in {"start", "exec", "done", "failed", "refused"} :
          pc' = [pc EXCEPT ![p] = x] \/ (x = pc[p] /\ pc' = pc)
    BY <1>2, <2>1 DEF Step, Refuse, Plan, Ready, Exec, Reject, Fail, Finish, Crash, Rerun
  <2>4. Bystanders'
    BY <1>1, <1>2, <2>2, <2>3 DEF Bystanders, TypeOK
  <2>5. RunInv'
    <3> SUFFICES ASSUME Alone
                 PROVE  /\ WellFormed(layout')
                        /\ Uncounted(layout') => Uncounted(job.cur)
                        /\ pc'[p] = "exec" => Executing(p)'
                        /\ pc'[p] = "done" => Finished(p)'
      <4>1. Alone' => Alone
        BY <1>1 DEF Alone
      <4>2. Alone => \A q \in Clients : pc'[q] \in {"exec", "done"} => q = p
        BY <1>1, <2>2, <2>4 DEF Alone, Bystanders
      <4> QED BY <1>1, <4>1, <4>2 DEF RunInv
    <3>1. CASE \E s \in Ready(p) : Exec(p, s)
      <4>1. PICK s \in Ready(p) : Exec(p, s)
        BY <3>1
      <4>2. /\ Continues(s, layout, layout', job.des, job.allow)
            /\ OnPlan(layout, p) /\ pending'[p] = pending[p] \ {s}
        BY <1>2, <4>1, ExecOnPlan
      <4>3. pc' = pc /\ pc[p] = "exec" /\ snap' = snap /\ skipped' = skipped
        BY <4>1 DEF Exec, Ready
      <4>4. s \in pending[p]
        BY <4>1, <4>3 DEF Ready, NextOf
      <4>5. CASE Uncounted(layout)
        <5>1. pending'[p] = {}
          BY <4>2, <4>5 DEF Continues, OnPlan, PartitionsPlanned
        <5>2. Uncounted(job.cur)
          BY <1>2, <4>5 DEF RunInv
        <5> QED BY <1>1, <1>2, <4>2, <4>3, <5>1, <5>2 DEF Executing, Continues, RunInv
      <4>6. CASE ~Uncounted(layout)
        <5>1. /\ ~PartitionsRefused(layout', job.des, job.allow)
              /\ Ordered(layout', job.des) = Ordered(layout, job.des) \ {s}
          BY <4>2, <4>6 DEF Continues
        <5>2. s \in PartitionsPlanned(layout, job.des, job.allow)
          BY <4>2, <4>4 DEF OnPlan
        <5>3. /\ PartitionsPlanned(layout', job.des, job.allow) = pending'[p]
              /\ PartitionsSkipped(layout', job.des, job.allow) = skipped[p]
          BY <4>2, <5>1, <5>2 DEF OnPlan, PartitionsPlanned, PartitionsSkipped
        <5>4. OnPlan(layout, p)'
          BY <1>1, <4>3, <5>1, <5>3 DEF OnPlan
        <5> QED BY <1>1, <1>2, <4>2, <4>3, <5>4 DEF Executing, Continues, RunInv
      <4> QED BY <4>5, <4>6
    <3>2. CASE Plan(p)
      <4>1. /\ layout' = layout /\ pc'[p] = "exec" /\ snap'[p] = layout
            /\ ~PartitionsRefused(layout, job.des, job.allow)
            /\ pending'[p] = PartitionsPlanned(layout, job.des, job.allow)
            /\ skipped'[p] = PartitionsSkipped(layout, job.des, job.allow)
        BY <1>2, <3>2 DEF Plan, TypeOK
      <4>2. Executing(p)'
        BY <1>1, <4>1 DEF Executing, OnPlan
      <4> QED BY <1>2, <4>1, <4>2 DEF RunInv
    <3>3. CASE Finish(p)
      <4>1. /\ UNCHANGED <<layout, pending, skipped>> /\ pc'[p] = "done"
            /\ pc[p] = "exec" /\ pending[p] = {}
        BY <1>2, <3>3 DEF Finish, TypeOK
      <4>2. OnPlan(layout, p) \/ Uncounted(job.cur)
        BY <1>2, <4>1 DEF RunInv, Executing
      <4>3. ASSUME OnPlan(layout, p), skipped[p] = {} PROVE Agrees(layout, job.des)
        <5>1. Ordered(layout, job.des) = {}
          BY <4>1, <4>3 DEF OnPlan, PartitionsPlanned, PartitionsSkipped
        <5>2. /\ layout \in Layout /\ job.des \in Layout /\ WellFormed(layout) /\ WellFormed(job.des)
          BY <1>2 DEF TypeOK, PartitionScenario, RunInv
        <5> QED BY <4>3, <5>1, <5>2, EmptyAgrees DEF OnPlan
      <4>4. Finished(p)
        BY <4>1, <4>2, <4>3 DEF Finished, OnPlan
      <4>5. Finished(p)'
        BY <1>1, <4>1, <4>4 DEF Finished
      <4> QED BY <1>2, <4>1, <4>5 DEF RunInv
    <3>4. CASE Refuse(p) \/ Crash(p) \/ Rerun(p) \/ \E s \in Ready(p) : Reject(p, s)
      <4>1. layout' = layout /\ pc'[p] \notin {"exec", "done"}
        BY <1>2, <3>4 DEF Refuse, Crash, Rerun, Reject, Fail, TypeOK
      <4> QED BY <1>2, <4>1 DEF RunInv
    <3> QED BY <2>1, <3>1, <3>2, <3>3, <3>4 DEF Step
  <2> QED BY <1>1, <2>4, <2>5 DEF AloneInv
<1> QED BY <1>3, <1>4

LEMMA AloneInvAlways == Spec => []AloneInv
<1>1. AloneInv /\ [Next]_vars => AloneInv'
  BY AloneInvStep
<1> QED BY <1>1, AloneInvInit, PTL DEF Spec

(***************************************************************************)
(* A run that nobody interferes with can stop after any statement: a plan  *)
(* made then is not refused, and consists of what was left of the first.   *)
(***************************************************************************)
THEOREM PlansResume == Spec => []Resumes
<1>1. AloneInv => Resumes
  <2> SUFFICES ASSUME AloneInv, Alone, ~Uncounted(job.cur), NEW p \in Clients, pc[p] = "exec"
               PROVE  OnPlan(layout, p)
    BY DEF Resumes, OnPlan
  <2> QED BY DEF AloneInv, RunInv, Executing
<1> QED BY <1>1, AloneInvAlways, PTL

(***************************************************************************)
(* A run that ends well leaves the desired clause, or has reported every   *)
(* statement it lacks.                                                     *)
(***************************************************************************)
THEOREM RunsConverge == Spec => []DoneConverged
<1>1. AloneInv => DoneConverged
  BY DEF AloneInv, RunInv, Finished, DoneConverged
<1> QED BY <1>1, AloneInvAlways, PTL

-----------------------------------------------------------------------------
(***************************************************************************)
(* What a REORGANIZE reads and writes.  A name has one slot.               *)
(***************************************************************************)
LEMMA SlotIs ==
  ASSUME NEW l, DistinctNames(l), NEW i \in Slots(l)
  PROVE  Slot(l, l.defs[i].name) = i
<1>1. \E k \in Slots(l) : l.defs[k].name = l.defs[i].name
  OBVIOUS
<1>2. /\ Slot(l, l.defs[i].name) \in Slots(l)
      /\ l.defs[Slot(l, l.defs[i].name)].name = l.defs[i].name
  BY <1>1 DEF Slot
<1> QED BY <1>2 DEF DistinctNames

LEMMA SameSlot ==
  ASSUME NEW l, NEW des, DistinctNames(l), NameListEqual(l, des), NEW i \in Slots(l)
  PROVE  /\ Slot(l, l.defs[i].name) = i /\ Slot(des, l.defs[i].name) = i
         /\ l.defs[i].name \in NamesOf(des) /\ i \in Slots(des)
<1>1. DistinctNames(des) /\ i \in Slots(des) /\ des.defs[i].name = l.defs[i].name
  BY DEF NameListEqual, DistinctNames
<1>2. Slot(des, des.defs[i].name) = i /\ Slot(l, l.defs[i].name) = i
  BY <1>1, SlotIs
<1> QED BY <1>1, <1>2 DEF NamesOf

LEMMA RunProportional ==
  ASSUME NEW l \in Layout, NEW des \in Layout, DistinctNames(l), NameListEqual(l, des),
         NEW x \in Slots(l), NEW y \in Slots(l), IsRun(Changed(l, des), x, y),
         NEW s, s = RunStmt(l, des, x, y), NEW n \in Elements(s.names)
  PROVE  ToChange(l, des, n)
<1> DEFINE z == IF ByRange(l) THEN Cascade(l, des, y) ELSE y
<1>1. Slots(l) = 1..Len(l.defs) /\ Len(l.defs) \in Nat
  BY LayoutFacts
<1>2. /\ z \in Slots(l)
      /\ z = y \/ (z = y + 1 /\ ByRange(l) /\ l.defs[y].to # des.defs[y].to)
  BY <1>1 DEF Cascade
<1>3. s = ReorganizeRun(l, des, x, z)
  BY DEF RunStmt
<1> HIDE DEF z
<1>4. s.names = [k \in 1..(z - x + 1) |-> l.defs[x + k - 1].name]
  BY <1>3 DEF ReorganizeRun, Alter
<1>5. PICK i \in x..z : n = l.defs[i].name
  <2>1. PICK k \in 1..(z - x + 1) : n = l.defs[x + k - 1].name
    BY <1>4 DEF Elements
  <2>2. x + k - 1 \in x..z
    BY <1>1, <1>2
  <2> QED BY <2>1, <2>2
<1>6. i \in Slots(l) /\ i \in Int /\ x \in Int /\ y \in Int /\ x <= i /\ i <= z
  BY <1>1, <1>2
<1>7. Slot(l, n) = i /\ Slot(des, n) = i /\ n \in NamesOf(des)
  BY <1>5, <1>6, SameSlot
<1>8. CASE i <= y
  <2>1. i \in Changed(l, des)
    BY <1>6, <1>8 DEF IsRun
  <2> QED BY <1>7, <2>1 DEF ToChange, Changed
<1>9. CASE ~(i <= y)
  <2>1. i = y + 1 /\ i # 1 /\ i - 1 = y /\ ByRange(l) /\ l.defs[y].to # des.defs[y].to
    BY <1>1, <1>2, <1>6, <1>9
  <2>2. BoundBelow(l, n) = {l.defs[y].to} /\ BoundBelow(des, n) = {des.defs[y].to}
    BY <1>7, <2>1 DEF BoundBelow
  <2> QED BY <2>1, <2>2 DEF ToChange
<1> QED BY <1>8, <1>9

LEMMA CatchAllProportional ==
  ASSUME NEW l \in Layout, NEW des \in Layout, DistinctNames(l), HeaderEqual(l, des),
         CatchAllInsert(l, des), NEW s \in CatchAllStmts(l, des),
         NEW r \in Accepted(l, s), NEW n \in Elements(s.names)
  PROVE  ToChange(l, des, n)
<1> DEFINE a == Len(l.defs)
           b == Len(des.defs)
<1>1. /\ a \in Nat /\ b \in Nat /\ Slots(l) = 1..a /\ Slots(des) = 1..b
      /\ 0 < a /\ a < b /\ ByRange(l)
      /\ DefEqual(l.defs[a], des.defs[b])
      /\ \A i \in 1..(a - 1) : DefEqual(l.defs[i], des.defs[i])
      /\ \A i \in Slots(l) : l.defs[i] \in Definition
      /\ \A i \in Slots(des) : des.defs[i] \in Definition
  BY LayoutFacts DEF CatchAllInsert, ByRange
<1>2. r \in Layout /\ r.kind = l.kind /\ Attained(r, des) /\ Creatable(r)
  BY CatchAllAttains DEF Accepted
<1>3. s.names = <<l.defs[a].name>>
  BY CatchAllAre
<1> HIDE DEF a, b
<1>4. n = l.defs[a].name
  BY <1>3 DEF Elements
<1>5. Increasing(r) /\ DistinctNames(r) /\ Slots(r) = Slots(des)
  BY <1>1, <1>2 DEF Creatable, ByRange, Attained
<1>6. \A i \in Slots(des) : r.defs[i].name = des.defs[i].name /\ r.defs[i].to = des.defs[i].to
  <2>1. \A i \in Slots(des) : r.defs[i] \in Definition /\ DefEqual(r.defs[i], des.defs[i])
    BY <1>2, <1>5, LayoutFacts DEF Attained
  <2> QED BY <1>1, <2>1, DefEqualFields
<1>7. DistinctNames(des) /\ Increasing(des)
  BY <1>5, <1>6 DEF DistinctNames, Increasing
<1>8. a \in Slots(l) /\ b \in Slots(des) /\ l.defs[a].name = des.defs[b].name
  BY <1>1, DefEqualFields
<1>9. Slot(l, n) = a /\ Slot(des, n) = b
  BY <1>4, <1>7, <1>8, SlotIs
<1>10. BoundBelow(des, n) = {des.defs[b - 1].to}
  BY <1>1, <1>9 DEF BoundBelow
<1>11. CASE a = 1
  BY <1>1, <1>9, <1>10, <1>11 DEF BoundBelow, ToChange
<1>12. CASE a # 1
  <2>1. /\ a - 1 \in 1..(a - 1) /\ a - 1 \in Slots(l) /\ a - 1 \in Slots(des)
        /\ b - 1 \in Slots(des) /\ a - 1 < b - 1
    BY <1>1, <1>12
  <2>2. l.defs[a - 1].to = des.defs[a - 1].to
    BY <1>1, <2>1, DefEqualFields
  <2>3. des.defs[a - 1].to < des.defs[b - 1].to
    BY <1>7, <2>1 DEF Increasing
  <2>4. des.defs[a - 1].to \in Int /\ des.defs[b - 1].to \in Int
    BY <2>1, LayoutFacts
  <2>5. BoundBelow(l, n) = {l.defs[a - 1].to}
    BY <1>9, <1>12 DEF BoundBelow
  <2>6. BoundBelow(l, n) # BoundBelow(des, n)
    BY <1>10, <2>2, <2>3, <2>4, <2>5
  <2> QED BY <1>1, <2>6 DEF ToChange
<1> QED BY <1>11, <1>12

LEMMA PlanProportional ==
  ASSUME NEW l \in Layout, NEW des \in Layout, NEW allow, Creatable(l),
         ~PartitionsRefused(l, des, allow), NEW s \in PartitionsPlanned(l, des, allow),
         s.op = "Reorganize", NEW r \in Accepted(l, s), ~SomeValueMoves(l, des),
         NEW n \in Elements(s.names)
  PROVE  ToChange(l, des, n)
<1>1. l # des /\ s \in Ordered(l, des)
  BY DEF PartitionsPlanned, Ordered
<1>2. HeaderEqual(l, des) /\ DistinctNames(l)
  BY <1>1 DEF PartitionsRefused, Creatable
<1>3. CASE l.kind = "HASH"
  BY <1>1, <1>3 DEF Ordered, CountStmts, Alter
<1>4. CASE l.kind # "HASH" /\ NameListEqual(l, des)
  <2>1. s \in Rewrites(l, des)
    BY <1>1, <1>4 DEF Ordered
  <2>2. ByRange(l) \/ ChangedAreSupersets(l, des)
    <3> SUFFICES ASSUME ~ByRange(l), NEW i \in Changed(l, des)
                 PROVE  l.defs[i].in \subseteq des.defs[i].in
      BY DEF ChangedAreSupersets
    <3>1. i \in Slots(l)
      BY DEF Changed
    <3>2. /\ Slot(l, l.defs[i].name) = i /\ Slot(des, l.defs[i].name) = i
          /\ l.defs[i].name \in NamesOf(des) /\ l.defs[i].name \in NamesOf(l)
      BY <1>2, <1>4, <3>1, SameSlot DEF NamesOf
    <3> QED BY <3>2 DEF SomeValueMoves
  <2>3. PICK x, y \in Slots(l) : IsRun(Changed(l, des), x, y) /\ s = RunStmt(l, des, x, y)
    BY <2>1, <2>2, RewritesByRuns
  <2> QED BY <1>2, <1>4, <2>3, RunProportional
<1>5. CASE l.kind # "HASH" /\ ~NameListEqual(l, des)
  <2>1. s \notin AddStmts(l, des) /\ s \notin DropStmts(l, des)
    BY DEF AddStmts, DropStmts, Alter
  <2>2. CatchAllInsert(l, des) /\ s \in CatchAllStmts(l, des)
    BY <1>1, <1>5, <2>1 DEF Ordered
  <2> QED BY <1>2, <2>2, CatchAllProportional
<1> QED BY <1>3, <1>4, <1>5

(***************************************************************************)
(* What is ready to be executed is planned for the clause there is now.    *)
(***************************************************************************)
LEMMA ReadyPlanned ==
  ASSUME AloneInv, Alone, NEW p \in Clients, NEW s \in Ready(p)
  PROVE  /\ layout \in Layout /\ Creatable(layout) /\ WellFormed(layout)
         /\ job.des \in Layout /\ WellFormed(job.des)
         /\ ~PartitionsRefused(layout, job.des, job.allow)
         /\ s \in PartitionsPlanned(layout, job.des, job.allow)
         /\ EndShrinks(layout, job.des) => EndShrinks(snap[p], job.des)
<1>1. TypeOK /\ RunInv
  BY DEF AloneInv, CustodyInv
<1>2. pc[p] = "exec" /\ s \in pending[p]
  BY DEF Ready, NextOf
<1>3. Executing(p) /\ WellFormed(layout)
  BY <1>1, <1>2 DEF RunInv
<1> QED BY <1>1, <1>2, <1>3 DEF TypeOK, PartitionScenario, Executing, OnPlan

(***************************************************************************)
(* A REORGANIZE that the server carries out for a run alone touches only   *)
(* partitions that are to change, unless a list is to lose a value.        *)
(***************************************************************************)
THEOREM NoIdleRewrite == Spec => []RewritesOnlyChanged
<1>1. ASSUME AloneInv PROVE RewritesOnlyChanged
  <2> SUFFICES ASSUME Alone, NEW p \in Clients, NEW s \in Ready(p),
                      s.op = "Reorganize", Accepted(layout, s) # {},
                      ~SomeValueMoves(layout, job.des), NEW n \in Elements(s.names)
               PROVE  ToChange(layout, job.des, n)
    BY DEF RewritesOnlyChanged
  <2>1. /\ layout \in Layout /\ Creatable(layout) /\ job.des \in Layout
        /\ ~PartitionsRefused(layout, job.des, job.allow)
        /\ s \in PartitionsPlanned(layout, job.des, job.allow)
    BY <1>1, ReadyPlanned
  <2> QED BY <2>1, PlanProportional
<1> QED BY <1>1, AloneInvAlways, PTL

-----------------------------------------------------------------------------
(***************************************************************************)
(* Bounds that increase from each slot to the next one increase.           *)
(***************************************************************************)
LEMMA StepsIncrease ==
  ASSUME NEW l \in Layout, \A i \in Slots(l) : i > 1 => l.defs[i - 1].to < l.defs[i].to
  PROVE  Increasing(l)
<1> DEFINE n == Len(l.defs)
           to(i) == l.defs[i].to
<1>1. /\ n \in Nat /\ Slots(l) = 1..n
      /\ \A i \in 1..n : to(i) \in Int
      /\ \A i \in 1..n : i > 1 => to(i - 1) < to(i)
  BY LayoutFacts
<1> HIDE DEF n, to
<1> SUFFICES ASSUME NEW i \in 1..n PROVE \A j \in 1..n : i < j => to(i) < to(j)
  BY <1>1 DEF Increasing, to
<1> DEFINE T == {k \in Nat : i + k + 1 <= n => to(i) < to(i + k + 1)}
<1>2. 0 \in T
  <2> SUFFICES ASSUME i + 0 + 1 <= n PROVE to(i) < to(i + 0 + 1)
    OBVIOUS
  <2>1. i + 0 + 1 \in 1..n /\ i + 0 + 1 > 1 /\ i + 0 + 1 - 1 = i
    BY <1>1
  <2>2. to(i + 0 + 1 - 1) < to(i + 0 + 1)
    BY <1>1, <2>1
  <2> QED BY <2>1, <2>2
<1>3. ASSUME NEW k \in T PROVE k + 1 \in T
  <2> SUFFICES ASSUME i + (k + 1) + 1 <= n PROVE to(i) < to(i + (k + 1) + 1)
    OBVIOUS
  <2> DEFINE j == i + (k + 1) + 1
  <2>1. j \in 1..n /\ j > 1 /\ j - 1 = i + k + 1 /\ i + k + 1 \in 1..n /\ i + k + 1 <= n
    BY <1>1
  <2>2. to(j - 1) < to(j) /\ to(i) < to(i + k + 1)
    BY <1>1, <2>1
  <2>3. to(i) \in Int /\ to(j) \in Int /\ to(i + k + 1) \in Int
    BY <1>1, <2>1
  <2> HIDE DEF j
  <2>4. to(i) < to(j)
    BY <2>1, <2>2, <2>3
  <2> QED BY <2>4 DEF j
<1>4. T = Nat
  <2> HIDE DEF T
  <2>1. T \in SUBSET Nat BY DEF T
  <2> QED BY <1>2, <1>3, <2>1, Induction
<1>5. ASSUME NEW j \in 1..n, i < j PROVE to(i) < to(j)
  <2> DEFINE k == j - i - 1
  <2>1. k \in Nat /\ i + k + 1 = j /\ j <= n
    BY <1>1, <1>5
  <2> HIDE DEF k
  <2>2. i + k + 1 <= n => to(i) < to(i + k + 1)
    BY <1>4, <2>1
  <2> QED BY <2>1, <2>2
<1> QED BY <1>5

(***************************************************************************)
(* What the diff lets pass increases, expressions apart.                   *)
(***************************************************************************)
LEMMA AcceptedBounds ==
  ASSUME NEW des \in Layout, ByRange(des), ~NotMonotonic(des), ~UnorderedExpressions(des)
  PROVE  Increasing(des)
<1> SUFFICES ASSUME ~Increasing(des) PROVE FALSE
  OBVIOUS
<1>1. \A i \in Slots(des) : des.defs[i].to \in Literals \cup {MaxValue}
  BY DEF UnorderedExpressions, Elements, Slots
<1>2. ASSUME NEW i \in Slots(des), i > 1 PROVE des.defs[i - 1].to < des.defs[i].to
  <2> DEFINE a == des.defs[i - 1].to
             b == des.defs[i].to
  <2>1. i - 1 \in Slots(des)
    BY <1>2, LayoutFacts
  <2>2. a \in Literals \cup {MaxValue} /\ b \in Literals \cup {MaxValue} /\ a \in Int /\ b \in Int
    BY <1>1, <2>1, LayoutFacts
  <2>3. ~NotAfter(a, b)
    BY <1>2 DEF NotMonotonic
  <2>4. a # MaxValue /\ (b = MaxValue \/ (b # MaxValue /\ {a, b} \subseteq Literals /\ ~(b <= a)))
    BY <2>2, <2>3 DEF NotAfter
  <2>5. a \in Bounds
    BY <2>2, <2>4, BoundsAssumption
  <2>6. a < MaxValue
    BY <2>5, BoundsAssumption
  <2> QED BY <2>2, <2>4, <2>6
<1> QED BY <1>2, StepsIncrease

(***************************************************************************)
(* The slots that a plan names are there, so a REORGANIZE is refused only  *)
(* for the range it would cover.                                           *)
(***************************************************************************)
LEMMA RunNamed ==
  ASSUME NEW l \in Layout, NEW des \in Layout, NameListEqual(l, des),
         NEW x \in Slots(l), NEW z \in Slots(l), x <= z,
         NEW s, s = ReorganizeRun(l, des, x, z),
         ByRange(l) => IF z = Len(l.defs)
                       THEN l.defs[z].to <= (IF z \in Changed(l, des) THEN des.defs[z].to ELSE l.defs[z].to)
                       ELSE z \notin Changed(l, des) \/ l.defs[z].to = des.defs[z].to
  PROVE  Results(l, s) # {}
<1> DEFINE size == z - x + 1
           Body(i) == IF i \in Changed(l, des) THEN des.defs[i] ELSE l.defs[i]
<1>1. /\ s.op = "Reorganize"
      /\ s.names = [k \in 1..size |-> l.defs[x + k - 1].name]
      /\ s.into = [k \in 1..size |-> Body(x + k - 1)]
  BY DEF ReorganizeRun, Alter
<1>2. Len(s.names) = size /\ Len(s.into) = size
  BY ReorganizeRunType
<1>3. size \in 1..size /\ x + size - 1 = z /\ x \in Int /\ z \in Int
  <2>1. x \in Int /\ z \in Int
    BY LayoutFacts
  <2> QED BY <2>1
<1>4. s.into[Len(s.into)] = Body(z)
  <2> HIDE DEF Body, size
  <2> QED BY <1>1, <1>2, <1>3
<1>5. x \in Named(l, s.names)
  <2>1. \A k \in DOMAIN s.names : l.defs[x + k - 1].name = s.names[k]
    <3> HIDE DEF size
    <3> QED BY <1>1
  <2> QED BY <1>2, <1>3, <2>1 DEF Named
<1>6. KeepsTotalRange(l, x + Len(s.names) - 1, s.into)
  BY <1>2, <1>3, <1>4 DEF KeepsTotalRange
<1> QED BY <1>1, <1>5, <1>6 DEF Results

LEMMA RunTaken ==
  ASSUME NEW l \in Layout, NEW des \in Layout, NameListEqual(l, des), ~EndShrinks(l, des),
         ByRange(l) \/ ChangedAreSupersets(l, des),
         NEW x \in Slots(l), NEW y \in Slots(l), IsRun(Changed(l, des), x, y),
         NEW s, s = RunStmt(l, des, x, y)
  PROVE  Results(l, s) # {}
<1> DEFINE z == IF ByRange(l) THEN Cascade(l, des, y) ELSE y
<1>1. /\ Slots(l) = 1..Len(l.defs) /\ Len(l.defs) \in Nat
      /\ Slots(des) = Slots(l) /\ Len(des.defs) = Len(l.defs)
  BY LayoutFacts, SameLength DEF NameListEqual
<1>2. z \in Slots(l) /\ x <= z
  <2>1. x <= y /\ z \in Slots(l) /\ (z = y \/ z = y + 1)
    BY RunEnds DEF IsRun
  <2> HIDE DEF z
  <2> QED BY <1>1, <2>1
<1>3. s = ReorganizeRun(l, des, x, z)
  BY DEF RunStmt
<1>4. l.defs[z].to \in Int /\ des.defs[z].to \in Int
  BY <1>1, <1>2, LayoutFacts
<1>5. ASSUME ByRange(l), z = Len(l.defs) PROVE l.defs[z].to <= des.defs[z].to
  <2>1. ~(des.defs[z].to < l.defs[z].to)
    BY <1>1, <1>5 DEF EndShrinks
  <2> HIDE DEF z
  <2> QED BY <1>4, <2>1
<1>6. ASSUME ByRange(l), z # Len(l.defs), z \in Changed(l, des) PROVE l.defs[z].to = des.defs[z].to
  <2>1. y + 1 \notin Changed(l, des)
    BY DEF IsRun
  <2>2. z = y
    BY <1>6, <2>1 DEF Cascade
  <2>3. y < Len(l.defs)
    BY <1>1, <1>2, <1>6, <2>2
  <2>4. Cascade(l, des, y) = y /\ y # y + 1
    BY <1>1, <1>6, <2>2
  <2>5. l.defs[y].to = des.defs[y].to
    BY <2>3, <2>4 DEF Cascade
  <2> QED BY <2>2, <2>5
<1> HIDE DEF z
<1> QED BY <1>2, <1>3, <1>4, <1>5, <1>6, RunNamed

(***************************************************************************)
(* What lies between two runs is as in the files and as it was.            *)
(***************************************************************************)
LEMMA RunLegal ==
  ASSUME NEW l \in Layout, NEW des \in Layout, Creatable(l), WellFormed(l), WellFormed(des),
         HeaderEqual(l, des), NameListEqual(l, des), ByRange(l) \/ ChangedAreSupersets(l, des),
         l.kind # "HASH", ByRange(des) => Increasing(des), ~ListOverlap(des),
         NEW x \in Slots(l), NEW y \in Slots(l), IsRun(Changed(l, des), x, y),
         NEW s, s = RunStmt(l, des, x, y), NEW r \in Results(l, s)
  PROVE  Creatable(r)
<1> DEFINE C == Changed(l, des)
           z == IF ByRange(l) THEN Cascade(l, des, y) ELSE y
<1>1. /\ Slots(l) = 1..Len(l.defs) /\ Len(l.defs) \in Nat /\ Slots(des) = Slots(l)
      /\ DistinctNames(l) /\ (ByRange(l) => Increasing(l)) /\ l.kind = des.kind
  BY LayoutFacts DEF NameListEqual, HeaderEqual, Creatable
<1>2. /\ r \in Layout /\ r.kind = l.kind /\ Slots(r) = Slots(l) /\ NameListEqual(r, des)
      /\ \A i \in Slots(l) : r.defs[i] = l.defs[i] \/ DefEqual(r.defs[i], des.defs[i])
  <2>1. DistinctNames(l)
    BY <1>1
  <2>2. /\ r \in Layout /\ r.kind = l.kind /\ HeaderEqual(r, des)
        /\ Slots(r) = Slots(l) /\ NameListEqual(r, des)
        /\ \A i \in Slots(l) : r.defs[i] = l.defs[i] \/ DefEqual(r.defs[i], des.defs[i])
        /\ Changed(r, des) = Changed(l, des) \ (x..y)
        /\ ByRange(r) \/ ChangedAreSupersets(r, des)
        /\ Rewrites(r, des) = Rewrites(l, des) \ {s}
    BY <2>1, RunContinues
  <2> QED BY <2>2
<1>3. \A i \in Slots(l) :
        /\ r.defs[i] \in Definition /\ l.defs[i] \in Definition /\ des.defs[i] \in Definition
        /\ r.defs[i].to \in Int /\ l.defs[i].to \in Int /\ des.defs[i].to \in Int
  BY <1>1, <1>2, LayoutFacts
<1>4. DistinctNames(r)
  BY <1>1, <1>2 DEF DistinctNames, NameListEqual
<1>5. r.kind # "none" => r.defs # <<>>
  BY <1>1, <1>2 DEF Slots
<1>6. CASE ByRange(l)
  <2>1. ASSUME NEW i \in Slots(l) PROVE r.defs[i].in = {}
    <3>1. l.defs[i].in = {} /\ des.defs[i].in = {}
      BY <1>1, <1>6 DEF WellFormed, ByRange
    <3> QED BY <1>2, <1>3, <3>1, DefEqualFields
  <2>2. Disjoint(r)
    BY <1>2, <2>1 DEF Disjoint
  <2>3. /\ z \in Slots(l) /\ x <= y /\ (z = y \/ z = y + 1)
        /\ x \in Int /\ y \in Int /\ z \in Int /\ x - 1 \notin C /\ y + 1 \notin C
    BY <1>1, RunEnds DEF IsRun
  <2>4. /\ \A i \in x..z : DefEqual(r.defs[i], des.defs[i])
        /\ \A i \in Slots(l) \ (x..z) : r.defs[i] = l.defs[i]
    <3>1. s = ReorganizeRun(l, des, x, z) /\ x <= z
      BY <2>3 DEF RunStmt
    <3> HIDE DEF z
    <3>2. /\ s \in PartitionStatement /\ s.op = "Reorganize" /\ Extent(s) = x..z
          /\ s.names # <<>> /\ InPlace(s, l, des)
      BY <2>3, <3>1, RewriteInPlace
    <3>3. /\ \A i \in Extent(s) : DefEqual(r.defs[i], des.defs[i])
          /\ \A i \in Slots(l) \ Extent(s) : r.defs[i] = l.defs[i]
      BY ONLY <3>2, l \in Layout, des \in Layout, <1>1, r \in Results(l, s),
         InPlaceResult, ZenonT(60)
    <3> QED BY <3>2, <3>3
  <2>5. z < Len(l.defs) => l.defs[z].to = des.defs[z].to
    <3>1. CASE z = y
      BY <1>6, <3>1, <2>3 DEF Cascade
    <3>2. CASE z = y + 1
      <4>1. DefEqual(l.defs[z], des.defs[z])
        BY <2>3, <3>2 DEF Changed
      <4> QED BY <1>3, <2>3, <4>1, DefEqualFields
    <3> QED BY <2>3, <3>1, <3>2
  <2>6. x # 1 => x - 1 \in Slots(l) /\ l.defs[x - 1].to = des.defs[x - 1].to
    <3> HAVE x # 1
    <3>1. x - 1 \in Slots(l)
      BY <1>1
    <3>2. DefEqual(l.defs[x - 1], des.defs[x - 1])
      BY <2>3, <3>1 DEF Changed
    <3> QED BY <1>3, <3>1, <3>2, DefEqualFields
  <2> HIDE DEF z, C
  <2>7. \A i \in Slots(l) : r.defs[i].to = IF i \in x..z THEN des.defs[i].to ELSE l.defs[i].to
    BY <1>3, <2>4, DefEqualFields
  <2>8. /\ \A i, j \in Slots(l) : i < j => l.defs[i].to < l.defs[j].to
        /\ \A i, j \in Slots(l) : i < j => des.defs[i].to < des.defs[j].to
    BY <1>1, <1>6 DEF ByRange, Increasing
  <2>9. ASSUME NEW i \in Slots(l), NEW j \in Slots(l), i < j PROVE r.defs[i].to < r.defs[j].to
    <3>1. i \in Int /\ j \in Int /\ j <= Len(l.defs)
      BY <1>1
    <3>2. CASE i \in x..z /\ j \in x..z
      BY <2>7, <2>8, <2>9, <3>2
    <3>3. CASE i \notin x..z /\ j \notin x..z
      BY <2>7, <2>8, <2>9, <3>3
    <3>4. CASE i \notin x..z /\ j \in x..z
      <4>1. x # 1 /\ i <= x - 1 /\ x - 1 < j
        BY <1>1, <2>3, <2>9, <3>1, <3>4
      <4>2. l.defs[i].to <= l.defs[x - 1].to
        <5>1. CASE i = x - 1
          BY <1>3, <5>1
        <5>2. CASE i # x - 1
          <6>1. i < x - 1 /\ x - 1 \in Slots(l)
            BY <2>3, <2>6, <3>1, <4>1, <5>2
          <6>2. l.defs[i].to < l.defs[x - 1].to
            BY <2>8, <6>1
          <6> QED BY <1>3, <6>1, <6>2
        <5> QED BY <5>1, <5>2
      <4>3. des.defs[x - 1].to < des.defs[j].to /\ l.defs[x - 1].to = des.defs[x - 1].to
        BY <2>6, <2>8, <4>1
      <4>4. r.defs[i].to = l.defs[i].to /\ r.defs[j].to = des.defs[j].to
        BY <2>7, <3>4
      <4>5. l.defs[i].to \in Int /\ des.defs[x - 1].to \in Int /\ des.defs[j].to \in Int
        BY <1>3, <2>6, <4>1
      <4> QED BY <4>2, <4>3, <4>4, <4>5
    <3>5. CASE i \in x..z /\ j \notin x..z
      <4>1. i <= z /\ z < j /\ z < Len(l.defs)
        BY <1>1, <2>3, <2>9, <3>1, <3>5
      <4>2. des.defs[i].to <= des.defs[z].to
        <5>1. CASE i = z
          BY <1>3, <5>1
        <5>2. CASE i # z
          <6>1. i < z
            BY <2>3, <3>1, <4>1, <5>2
          <6>2. des.defs[i].to < des.defs[z].to
            BY <2>3, <2>8, <6>1
          <6> QED BY <1>3, <2>3, <6>2
        <5> QED BY <5>1, <5>2
      <4>3. l.defs[z].to < l.defs[j].to /\ l.defs[z].to = des.defs[z].to
        BY <2>3, <2>5, <2>8, <4>1
      <4>4. r.defs[i].to = des.defs[i].to /\ r.defs[j].to = l.defs[j].to
        BY <2>7, <3>5
      <4>5. des.defs[i].to \in Int /\ des.defs[z].to \in Int /\ l.defs[j].to \in Int
        BY <1>3, <2>3
      <4> QED BY <4>2, <4>3, <4>4, <4>5
    <3> QED BY <3>2, <3>3, <3>4, <3>5
  <2>10. Increasing(r)
    BY <1>2, <2>9 DEF Increasing
  <2> QED BY <1>1, <1>2, <1>4, <1>5, <2>2, <2>10 DEF Creatable
<1>7. CASE ~ByRange(l)
  <2>1. ASSUME NEW i \in Slots(l) PROVE r.defs[i].in \subseteq des.defs[i].in
    <3>1. CASE DefEqual(r.defs[i], des.defs[i])
      BY <1>3, <3>1, DefEqualFields
    <3>2. CASE r.defs[i] = l.defs[i]
      <4>1. CASE i \in C
        BY <1>7, <3>2, <4>1 DEF ChangedAreSupersets
      <4>2. CASE i \notin C
        <5>1. DefEqual(l.defs[i], des.defs[i])
          BY <4>2 DEF Changed
        <5> QED BY <1>3, <3>2, <5>1, DefEqualFields
      <4> QED BY <4>1, <4>2
    <3> QED BY <1>2, <3>1, <3>2
  <2>2. Disjoint(r)
    BY <1>1, <1>2, <2>1 DEF Disjoint, ListOverlap
  <2> QED BY <1>2, <1>4, <1>5, <1>7, <2>2 DEF Creatable, ByRange
<1> QED BY <1>6, <1>7

(***************************************************************************)
(* The server takes every statement of a plan.                             *)
(***************************************************************************)
LEMMA CountTaken ==
  ASSUME NEW l \in Layout, NEW des \in Layout, Creatable(l), l.kind = "HASH", des.count \in Nat \ {0},
         NEW s \in CountStmts(l, des)
  PROVE  Accepted(l, s) # {}
<1> DEFINE Counted(c) == [l EXCEPT !.count = c]
<1>1. l.count \in Nat \cup {Unset} /\ Unset = -1 /\ Number(l) \in Nat /\ Number(l) > 0
  BY LayoutFacts DEF Unset, Creatable
<1>2. ASSUME NEW c \in Nat \ {0} PROVE Creatable(Counted(c))
  <2> DEFINE r == Counted(c)
  <2>1. r.kind = "HASH" /\ r.defs = l.defs /\ r.count = c
    BY DEF Layout
  <2> HIDE DEF r
  <2>2. Number(r) > 0 /\ ~ByRange(r)
    BY <2>1 DEF Number, Unset, ByRange
  <2>3. Disjoint(r) /\ DistinctNames(r)
    BY <2>1 DEF Creatable, Disjoint, DistinctNames, Slots
  <2>4. Creatable(r)
    BY <2>1, <2>2, <2>3 DEF Creatable
  <2> QED BY <2>4 DEF r
<1> HIDE DEF Counted
<1>3. CASE l.count < des.count
  <2>1. s.op = "AddCount" /\ s.n = des.count - l.count
    BY <1>3 DEF CountStmts, Alter
  <2>2. Number(l) + s.n \in Nat \ {0}
    BY <1>1, <1>3, <2>1
  <2>3. Results(l, s) = {Counted(Number(l) + s.n)}
    BY <2>1 DEF Results, Counted
  <2> QED BY <1>2, <2>2, <2>3 DEF Accepted
<1>4. CASE ~(l.count < des.count)
  <2>1. des.count < l.count /\ s.op = "Coalesce" /\ s.n = l.count - des.count
    BY <1>4 DEF CountStmts, Alter
  <2>2. Number(l) = l.count
    BY <1>1, <2>1 DEF Number
  <2>3. Number(l) - s.n \in Nat \ {0} /\ s.n < Number(l)
    BY <1>1, <2>1, <2>2
  <2>4. Results(l, s) = {Counted(Number(l) - s.n)}
    BY <2>1, <2>3 DEF Results, Counted
  <2> QED BY <1>2, <2>3, <2>4 DEF Accepted
<1> QED BY <1>3, <1>4

LEMMA SpanTaken ==
  ASSUME NEW l \in Layout, NEW des \in Layout, NameListEqual(l, des),
         ~ByRange(l), ~ChangedAreSupersets(l, des), NEW s \in Rewrites(l, des)
  PROVE  Results(l, s) # {}
<1>1. PICK first, last \in Slots(l) : first <= last /\ s = ReorganizeRun(l, des, first, last)
  BY RewritesAre
<1> QED BY <1>1, RunNamed

LEMMA CatchAllTaken ==
  ASSUME NEW l \in Layout, NEW des \in Layout, CatchAllInsert(l, des), NEW s \in CatchAllStmts(l, des)
  PROVE  Results(l, s) # {}
<1> DEFINE n == Len(l.defs)
           m == Len(des.defs)
<1>1. /\ n \in Nat /\ m \in Nat /\ Slots(l) = 1..n /\ 0 < n /\ n < m /\ l.defs[n].to = MaxValue
  BY LayoutFacts DEF CatchAllInsert
<1>2. /\ s.op = "Reorganize" /\ s.names = <<l.defs[n].name>> /\ Len(s.into) = m - n + 1
      /\ s.into[m - n + 1] = l.defs[n]
  BY CatchAllAre
<1> HIDE DEF n, m
<1>3. n \in Slots(l) /\ Len(s.names) = 1 /\ DOMAIN s.names = {1} /\ n + Len(s.names) - 1 = n /\ n + 1 - 1 = n
  BY <1>1, <1>2
<1>4. n \in Named(l, s.names)
  BY <1>2, <1>3 DEF Named
<1>5. l.defs[n].to <= s.into[Len(s.into)].to
  BY <1>1, <1>2, BoundsAssumption
<1>6. KeepsTotalRange(l, n, s.into)
  BY <1>5 DEF KeepsTotalRange, n
<1> QED BY <1>2, <1>3, <1>4, <1>6 DEF Results

LEMMA DropTaken ==
  ASSUME NEW l \in Layout, NEW des, NEW s \in DropStmts(l, des)
  PROVE  Results(l, s) # {}
<1>1. PICK gone \in Ascending(Dropped(l, des)) :
        s = Alter("Drop", 0, [k \in DOMAIN gone |-> l.defs[gone[k]].name], <<>>, 0)
  BY DEF DropStmts
<1>2. s.op = "Drop" /\ s.names = [k \in DOMAIN gone |-> l.defs[gone[k]].name]
  BY <1>1 DEF Alter
<1>3. \A k \in DOMAIN gone : gone[k] \in Slots(l)
  BY DEF Ascending, Dropped
<1>4. Elements(s.names) \subseteq NamesOf(l)
  BY <1>2, <1>3 DEF Elements, NamesOf
<1>5. Len(l.defs) \in Nat /\ Survivors(l, s.names) \in SUBSET (1..Len(l.defs))
  BY LayoutFacts DEF Survivors
<1>6. Ascending(Survivors(l, s.names)) # {}
  BY <1>5, Enumerated, AscendingLists
<1> QED BY <1>2, <1>4, <1>6 DEF Results, Survivors

LEMMA PlanAccepted ==
  ASSUME NEW l \in Layout, NEW des \in Layout, NEW allow, WellFormed(l), WellFormed(des),
         Creatable(l), ~PartitionsRefused(l, des, allow), NEW s \in PartitionsPlanned(l, des, allow),
         ~UnorderedExpressions(des), DistinctNames(des), ~EndShrinks(l, des), ~Emptied(des)
  PROVE  Accepted(l, s) # {}
<1>1. l # des /\ s \in Ordered(l, des)
  BY DEF PartitionsPlanned, Ordered
<1>2. /\ HeaderEqual(l, des) /\ l.kind = des.kind /\ DistinctNames(l)
      /\ ~ListOverlap(des) /\ ~NotMonotonic(des)
  BY <1>1 DEF PartitionsRefused, Creatable, HeaderEqual
<1>3. ByRange(des) => Increasing(des)
  BY <1>2, AcceptedBounds
<1>4. CASE l.kind = "HASH"
  <2>1. des.count \in Nat \ {0}
    BY <1>2, <1>4, LayoutFacts DEF Emptied, Unset
  <2>2. s \in CountStmts(l, des)
    BY <1>1, <1>4 DEF Ordered
  <2> QED BY <1>4, <2>1, <2>2, CountTaken
<1>5. ASSUME l.kind # "HASH", Results(l, s) # {},
             \A r \in Results(l, s) : r \in Layout /\ r.kind = l.kind /\ Attained(r, des)
      PROVE  Accepted(l, s) # {}
  <2>1. des.defs # <<>>
    BY <1>2, <1>5 DEF Emptied
  <2>2. \A r \in Results(l, s) : Creatable(r)
    BY <1>2, <1>3, <1>5, <2>1, AttainedCreatable
  <2> QED BY <1>5, <2>2 DEF Accepted
<1>6. CASE l.kind # "HASH" /\ NameListEqual(l, des)
  <2>1. s \in Rewrites(l, des)
    BY <1>1, <1>6 DEF Ordered
  <2>2. CASE ByRange(l) \/ ChangedAreSupersets(l, des)
    <3>1. PICK x, y \in Slots(l) : IsRun(Changed(l, des), x, y) /\ s = RunStmt(l, des, x, y)
      BY <2>1, <2>2, RewritesByRuns
    <3>2. Results(l, s) # {}
      BY <1>6, <2>2, <3>1, RunTaken
    <3>3. \A r \in Results(l, s) : Creatable(r)
      BY <1>2, <1>3, <1>6, <2>2, <3>1, RunLegal
    <3> QED BY <3>2, <3>3 DEF Accepted
  <2>3. CASE ~ByRange(l) /\ ~ChangedAreSupersets(l, des)
    <3>1. Results(l, s) # {}
      BY <1>6, <2>1, <2>3, SpanTaken
    <3>2. \A r \in Results(l, s) : r \in Layout /\ r.kind = l.kind /\ Attained(r, des)
      BY <1>2, <1>6, <2>1, <2>3, SpanAttains
    <3> QED BY <1>5, <1>6, <3>1, <3>2
  <2> QED BY <2>2, <2>3
<1>7. CASE l.kind # "HASH" /\ ~NameListEqual(l, des) /\ CatchAllInsert(l, des)
  <2>1. s \in CatchAllStmts(l, des)
    BY <1>1, <1>7 DEF Ordered
  <2>2. \A r \in Results(l, s) : r \in Layout /\ r.kind = l.kind /\ Attained(r, des)
    BY <1>2, <1>7, <2>1, CatchAllAttains
  <2> QED BY <1>5, <1>7, <2>1, <2>2, CatchAllTaken
<1>8. CASE l.kind # "HASH" /\ ~NameListEqual(l, des) /\ ~CatchAllInsert(l, des)
  <2>1. s \in AddStmts(l, des) \/ s \in DropStmts(l, des)
    BY <1>1, <1>8 DEF Ordered
  <2>2. Dropped(l, des) = {} \/ Added(l, des) = <<>>
    BY <1>1, <1>8 DEF PartitionsRefused, Reshaped
  <2>3. CASE s \in AddStmts(l, des)
    <3>1. s.op = "Add" /\ Dropped(l, des) = {}
      BY <2>2, <2>3 DEF AddStmts, Alter
    <3>2. Results(l, s) # {}
      BY <3>1 DEF Results
    <3>3. \A r \in Results(l, s) : r \in Layout /\ r.kind = l.kind /\ Attained(r, des)
      BY <1>2, <2>3, <3>1, AddAttains
    <3> QED BY <1>5, <1>8, <3>2, <3>3
  <2>4. CASE s \in DropStmts(l, des)
    <3>1. Added(l, des) = <<>>
      BY <2>2, <2>4 DEF DropStmts
    <3>2. \A r \in Results(l, s) : r \in Layout /\ r.kind = l.kind /\ Attained(r, des)
      BY <1>2, <2>4, <3>1, DropAttains
    <3> QED BY <1>5, <1>8, <2>4, <3>2, DropTaken
  <2> QED BY <2>1, <2>3, <2>4
<1> QED BY <1>4, <1>6, <1>7, <1>8

(***************************************************************************)
(* The server takes every statement of a run that nobody interferes with,  *)
(* whatever the clauses, apart from the files listed at NeverRejected.     *)
(***************************************************************************)
THEOREM PartitionsAccepted == Spec => []NeverRejected
<1>1. ASSUME AloneInv PROVE NeverRejected
  <2> SUFFICES ASSUME Alone, NEW p \in Clients, NEW s \in Ready(p),
                      ~UnorderedExpressions(job.des), DistinctNames(job.des),
                      ~EndShrinks(snap[p], job.des), ~Emptied(job.des)
               PROVE  Accepted(layout, s) # {}
    BY DEF NeverRejected
  <2>1. /\ layout \in Layout /\ Creatable(layout) /\ WellFormed(layout)
        /\ job.des \in Layout /\ WellFormed(job.des)
        /\ ~PartitionsRefused(layout, job.des, job.allow)
        /\ s \in PartitionsPlanned(layout, job.des, job.allow)
        /\ ~EndShrinks(layout, job.des)
    BY <1>1, ReadyPlanned
  <2> QED BY <2>1, PlanAccepted
<1> QED BY <1>1, AloneInvAlways, PTL
=============================================================================
