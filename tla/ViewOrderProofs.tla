--------------------------- MODULE ViewOrderProofs ---------------------------
(***************************************************************************)
(* topoSortViews sorts, whatever the views are: the invariants Ordered and *)
(* StuckOnCycle of ViewOrder, for every set of names and every map.        *)
(***************************************************************************)
EXTENDS ViewOrder, SequenceLemmas

(***************************************************************************)
(* What keeps the order right: a counter is the number of references that  *)
(* are not placed, and a view is in the queue or placed exactly when its   *)
(* counter is zero.                                                        *)
(***************************************************************************)
Shape ==
  /\ views \in ViewMaps
  /\ indeg \in [DOMAIN views -> Int]
  /\ queue \in Seq(DOMAIN views)
  /\ out \in Seq(DOMAIN views)

Counters == \A k \in DOMAIN views : indeg[k] = Cardinality(Dep(views, k) \ Placed)

Zeros == \A k \in DOMAIN views : k \in Elems(queue) \cup Placed <=> indeg[k] = 0

Once ==
  /\ Injective(queue) /\ Injective(out)
  /\ Elems(queue) \cap Placed = {}

ReadsFirst == \A i \in DOMAIN out : Dep(views, out[i]) \subseteq {out[j] : j \in 1..(i - 1)}

SortInv == Shape /\ Counters /\ Zeros /\ Once /\ ReadsFirst

-----------------------------------------------------------------------------
LEMMA SortedLemma ==
  ASSUME NEW S \in SUBSET Int, IsFiniteSet(S), NEW s \in Sorted(S)
  PROVE  s \in Seq(S) /\ Elems(s) = S /\ Injective(s)
<1>1. /\ Cardinality(S) \in Nat /\ s \in [1..Cardinality(S) -> S]
      /\ \A k \in S : \E i \in DOMAIN s : s[i] = k
      /\ \A i, j \in DOMAIN s : i < j => s[i] < s[j]
  BY FS_CardinalityType DEF Sorted
<1>2. s \in Seq(S)
  BY <1>1
<1>3. Elems(s) = S
  BY <1>1 DEF Elems
<1>4. Injective(s)
  <2>1. ASSUME NEW i \in DOMAIN s, NEW j \in DOMAIN s, i # j PROVE s[i] # s[j]
    <3>1. s[i] \in Int /\ s[j] \in Int /\ i \in Int /\ j \in Int
      <4>1. i \in 1..Cardinality(S) /\ j \in 1..Cardinality(S)
        BY <1>1
      <4>2. s[i] \in S /\ s[j] \in S
        BY <1>1, <4>1
      <4>3. S \subseteq Int /\ Cardinality(S) \in Nat
        BY <1>1
      <4>4. s[i] \in Int /\ s[j] \in Int
        BY <4>2, <4>3
      <4> QED BY <4>1, <4>3, <4>4
    <3>2. i < j \/ j < i
      BY <2>1, <3>1
    <3> QED BY <1>1, <3>1, <3>2
  <2> QED BY <2>1 DEF Injective
<1> QED BY <1>2, <1>3, <1>4

(***************************************************************************)
(* Any set of numbers up to some one can be sorted.                        *)
(***************************************************************************)
LEMMA SortedExists ==
  ASSUME NEW n \in Nat, NEW S \in SUBSET (1..n)
  PROVE  Sorted(S) # {}
BY Enumerated DEF Sorted, Listings

-----------------------------------------------------------------------------
(***************************************************************************)
(* References are names, and there are finitely many.                      *)
(***************************************************************************)
LEMMA DepLemma ==
  ASSUME NEW g \in ViewMaps, NEW k \in DOMAIN g
  PROVE  /\ DOMAIN g \subseteq Int /\ IsFiniteSet(DOMAIN g)
         /\ Dep(g, k) \subseteq DOMAIN g /\ IsFiniteSet(Dep(g, k)) /\ k \notin Dep(g, k)
<1>1. DOMAIN g \subseteq Views
  BY DEF ViewMaps
<1>2. IsFiniteSet(DOMAIN g)
  BY <1>1, ViewsAssumption, FS_Subset
<1>3. Dep(g, k) \subseteq DOMAIN g /\ k \notin Dep(g, k)
  BY DEF Dep
<1> QED BY <1>1, <1>2, <1>3, ViewsAssumption, FS_Subset

LEMMA InitSorts == Init => SortInv
<1> SUFFICES ASSUME Init PROVE SortInv
  OBVIOUS
<1>1. views = [k \in {} |-> {}] /\ indeg = [k \in {} |-> 0] /\ queue = <<>> /\ out = <<>>
  BY DEF Init
<1>2. DOMAIN views = {} /\ views \in [{} -> SUBSET Views]
  BY <1>1
<1>3. views \in ViewMaps
  BY <1>2 DEF ViewMaps
<1>4. DOMAIN queue = {} /\ DOMAIN out = {}
  BY <1>1
<1> QED BY <1>1, <1>2, <1>3, <1>4
        DEF SortInv, Shape, Counters, Zeros, Once, ReadsFirst, Elems, Injective, Placed

(***************************************************************************)
(* A new map: nothing is placed, and what reads nothing is queued.         *)
(***************************************************************************)
LEMMA LoadSorts ==
  ASSUME NEW g \in ViewMaps, Load(g)
  PROVE  SortInv'
<1> DEFINE first == {k \in DOMAIN g : Dep(g, k) = {}}
<1>1. /\ views' = g /\ out' = <<>> /\ queue' \in Sorted(first)
      /\ indeg' = [k \in DOMAIN g |-> Cardinality(Dep(g, k))]
  BY DEF Load
<1>2. \A k \in DOMAIN g : IsFiniteSet(Dep(g, k)) /\ Cardinality(Dep(g, k)) \in Nat
                           /\ (Cardinality(Dep(g, k)) = 0 <=> Dep(g, k) = {})
  BY DepLemma, FS_CardinalityType, FS_EmptySet
<1>3. queue' \in Seq(first) /\ Elems(queue') = first /\ Injective(queue')
  <2>1. first \in SUBSET Int /\ IsFiniteSet(first)
    <3>1. CASE DOMAIN g = {}
      BY <3>1, FS_EmptySet
    <3>2. CASE DOMAIN g # {}
      <4>1. DOMAIN g \subseteq Int /\ IsFiniteSet(DOMAIN g)
        BY <3>2, DepLemma
      <4> QED BY <4>1, FS_Subset
    <3> QED BY <3>1, <3>2
  <2> QED BY <1>1, <2>1, SortedLemma
<1>4. out' \in Seq(DOMAIN g) /\ DOMAIN out' = {} /\ Placed' = {}
  BY <1>1 DEF Placed
<1>5. queue' \in Seq(DOMAIN g)
  BY <1>3
<1>6. Shape'
  BY <1>1, <1>2, <1>4, <1>5 DEF Shape
<1>7. Counters'
  BY <1>1, <1>4 DEF Counters
<1>8. Zeros'
  BY <1>1, <1>2, <1>3, <1>4 DEF Zeros, Elems
<1>9. Once' /\ ReadsFirst'
  BY <1>3, <1>4 DEF Once, ReadsFirst, Injective
<1> QED BY <1>6, <1>7, <1>8, <1>9 DEF SortInv

(***************************************************************************)
(* One turn of the loop.                                                   *)
(***************************************************************************)
LEMMA VisitSorts ==
  ASSUME SortInv, Visit
  PROVE  SortInv'
<1> DEFINE n == Head(queue)
           D == DOMAIN views
<1>1. /\ queue # <<>> /\ out' = Append(out, n) /\ indeg' = Counted(n) /\ views' = views
      /\ \E next \in Sorted(Released(n)) : queue' = Tail(queue) \o next
  BY DEF Visit
<1>2. /\ Shape /\ Counters /\ Zeros /\ Once /\ ReadsFirst
      /\ Placed = Elems(out)
  BY DEF SortInv, Placed, Elems
<1>3. /\ n \in D /\ Tail(queue) \in Seq(D) /\ Elems(queue) = {n} \cup Elems(Tail(queue))
      /\ Injective(Tail(queue)) /\ n \notin Elems(Tail(queue))
  BY <1>1, <1>2, PopLemma DEF Shape, Once
<1>4. n \notin Placed
  BY <1>2, <1>3 DEF Once
<1>5. out' \in Seq(D) /\ Placed' = Placed \cup {n} /\ Injective(out')
  <2>1. Placed' = Elems(out')
    BY DEF Placed, Elems
  <2> QED BY <1>1, <1>2, <1>3, <1>4, <2>1, AppendLemma DEF Shape, Once
<1>6. \A k \in D : /\ IsFiniteSet(Dep(views, k) \ Placed)
                   /\ Cardinality(Dep(views, k) \ Placed) \in Nat
                   /\ Cardinality(Dep(views, k) \ Placed) = 0 <=> Dep(views, k) \ Placed = {}
  <2> SUFFICES ASSUME NEW k \in D
               PROVE  /\ IsFiniteSet(Dep(views, k) \ Placed)
                      /\ Cardinality(Dep(views, k) \ Placed) \in Nat
                      /\ Cardinality(Dep(views, k) \ Placed) = 0 <=> Dep(views, k) \ Placed = {}
    OBVIOUS
  <2>1. IsFiniteSet(Dep(views, k) \ Placed)
    BY <1>2, DepLemma, FS_Subset DEF Shape
  <2> QED BY <2>1, FS_CardinalityType, FS_EmptySet
<1>7. /\ Rev(views, n) = {k \in D : n \in Dep(views, k)}
      /\ Released(n) = {k \in Rev(views, n) : indeg[k] = 1}
      /\ Released(n) \subseteq D
  BY DEF Rev, Released
<1>8. \A k \in D : indeg'[k] = IF k \in Rev(views, n) THEN indeg[k] - 1 ELSE indeg[k]
  BY <1>1, <1>2 DEF Counted, Shape
<1>9. indeg' \in [D -> Int]
  BY <1>1, <1>2 DEF Counted, Shape
<1>10. Counters'
  <2> SUFFICES ASSUME NEW k \in D
               PROVE  indeg'[k] = Cardinality(Dep(views, k) \ Placed')
    BY <1>1 DEF Counters
  <2>1. CASE k \in Rev(views, n)
    <3>1. /\ n \in Dep(views, k) \ Placed
          /\ Dep(views, k) \ Placed' = (Dep(views, k) \ Placed) \ {n}
      BY <2>1, <1>4, <1>5, <1>7
    <3>2. Cardinality(Dep(views, k) \ Placed') = Cardinality(Dep(views, k) \ Placed) - 1
      <4>1. Cardinality((Dep(views, k) \ Placed) \ {n}) = Cardinality(Dep(views, k) \ Placed) - 1
        BY <3>1, <1>6, FS_RemoveElement
      <4> QED BY <3>1, <4>1
    <3> QED BY <2>1, <3>2, <1>2, <1>8 DEF Counters
  <2>2. CASE k \notin Rev(views, n)
    <3>1. Dep(views, k) \ Placed' = Dep(views, k) \ Placed
      BY <2>2, <1>5, <1>7
    <3> QED BY <2>2, <3>1, <1>2, <1>8 DEF Counters
  <2> QED BY <2>1, <2>2
<1>11. PICK next \in Sorted(Released(n)) : queue' = Tail(queue) \o next
  BY <1>1
<1>12. next \in Seq(Released(n)) /\ Elems(next) = Released(n) /\ Injective(next)
  <2>1. D \subseteq Int /\ IsFiniteSet(D)
    BY <1>2, <1>3, DepLemma DEF Shape
  <2>2. Released(n) \in SUBSET Int /\ IsFiniteSet(Released(n))
    BY <2>1, <1>7, FS_Subset
  <2> QED BY <2>2, <1>11, SortedLemma
<1>13. \A k \in Released(n) : k \notin Elems(queue) /\ k \notin Placed /\ k # n
  <2>1. \A k \in Released(n) : indeg[k] # 0
    BY <1>7
  <2> QED BY <2>1, <1>2, <1>3, <1>7 DEF Zeros
<1>14. /\ queue' \in Seq(D) /\ Elems(queue') = Elems(Tail(queue)) \cup Released(n)
       /\ Injective(queue')
  <2>1. next \in Seq(D)
    BY <1>7, <1>12
  <2>2. Elems(Tail(queue)) \cap Elems(next) = {}
    BY <1>3, <1>12, <1>13
  <2>3. Tail(queue) \in Seq(D) /\ Injective(Tail(queue)) /\ Injective(next)
    BY <1>3, <1>12
  <2>4. /\ Tail(queue) \o next \in Seq(D)
        /\ Elems(Tail(queue) \o next) = Elems(Tail(queue)) \cup Elems(next)
        /\ Injective(Tail(queue) \o next)
    <3>1. ASSUME NEW s \in Seq(D), NEW t \in Seq(D),
                 Injective(s), Injective(t), Elems(s) \cap Elems(t) = {}
          PROVE  /\ s \o t \in Seq(D)
                 /\ Elems(s \o t) = Elems(s) \cup Elems(t)
                 /\ Injective(s \o t)
      <4> HIDE DEF D
      <4> QED BY <3>1, ConcatLemma
    <3> HIDE DEF D
    <3> QED BY <2>1, <2>2, <2>3, <3>1
  <2> QED BY <2>4, <1>11, <1>12
<1>15. Shape'
  BY <1>1, <1>2, <1>5, <1>9, <1>14 DEF Shape
<1>16. Zeros'
  <2> SUFFICES ASSUME NEW k \in D
               PROVE  k \in Elems(queue)' \cup Placed' <=> indeg'[k] = 0
    BY <1>1 DEF Zeros
  <2>1. Elems(queue)' \cup Placed' = (Elems(queue) \cup Placed) \cup Released(n)
    <3>1. Elems(queue)' = Elems(queue')
      BY DEF Elems
    <3> QED BY <3>1, <1>3, <1>5, <1>14
  <2>2. CASE k \in Rev(views, n)
    <3>1. n \in Dep(views, k) \ Placed
      BY <2>2, <1>4, <1>7
    <3>2. indeg[k] # 0 /\ indeg[k] \in Int
      BY <3>1, <1>2, <1>6 DEF Counters, Shape
    <3>3. k \in Released(n) <=> indeg'[k] = 0
      BY <2>2, <3>2, <1>7, <1>8
    <3> QED BY <2>1, <3>2, <3>3, <1>2 DEF Zeros
  <2>3. CASE k \notin Rev(views, n)
    BY <2>1, <2>3, <1>2, <1>7, <1>8 DEF Zeros
  <2> QED BY <2>2, <2>3
<1>17. Once'
  <2>1. Elems(queue)' = Elems(queue')
    BY DEF Elems
  <2>2. Elems(queue') \cap Placed' = {}
    BY <1>2, <1>3, <1>5, <1>13, <1>14 DEF Once
  <2> QED BY <2>1, <2>2, <1>5, <1>14 DEF Once, Injective
<1>18. ReadsFirst'
  <2>1. /\ Len(out) \in Nat /\ DOMAIN out = 1..Len(out)
        /\ DOMAIN out' = 1..(Len(out) + 1)
        /\ \A i \in 1..Len(out) : out'[i] = out[i]
        /\ out'[Len(out) + 1] = n
    BY <1>1, <1>2, <1>3 DEF Shape
  <2>2. Dep(views, n) \subseteq Placed
    <3>1. indeg[n] = 0
      BY <1>2, <1>3 DEF Zeros
    <3> QED BY <3>1, <1>2, <1>3, <1>6 DEF Counters
  <2> SUFFICES ASSUME NEW i \in DOMAIN out'
               PROVE  Dep(views, out'[i]) \subseteq {out'[j] : j \in 1..(i - 1)}
    BY <1>1 DEF ReadsFirst
  <2>3. CASE i \in 1..Len(out)
    <3>1. {out'[j] : j \in 1..(i - 1)} = {out[j] : j \in 1..(i - 1)}
      <4>1. \A j \in 1..(i - 1) : j \in 1..Len(out)
        BY <2>1, <2>3
      <4> QED BY <2>1, <4>1
    <3> QED BY <2>1, <2>3, <3>1, <1>2 DEF ReadsFirst
  <2>4. CASE i = Len(out) + 1
    <3>1. {out'[j] : j \in 1..(i - 1)} = Placed
      <4>1. 1..(i - 1) = DOMAIN out
        BY <2>1, <2>4
      <4> QED BY <2>1, <4>1 DEF Placed
    <3> QED BY <2>1, <2>2, <2>4, <3>1
  <2> QED BY <2>1, <2>3, <2>4
<1> QED BY <1>10, <1>15, <1>16, <1>17, <1>18 DEF SortInv

LEMMA SortStutters ==
  ASSUME SortInv, UNCHANGED sorter
  PROVE  SortInv'
<1> SUFFICES ASSUME views' = views, indeg' = indeg, queue' = queue, out' = out
             PROVE  SortInv'
  BY DEF sorter
<1>1. Placed' = Placed /\ Elems(queue)' = Elems(queue)
  BY DEF Placed, Elems
<1>2. Shape'
  BY DEF SortInv, Shape
<1>3. Counters'
  BY <1>1 DEF SortInv, Counters
<1>4. Zeros'
  BY <1>1 DEF SortInv, Zeros
<1>5. Once'
  BY <1>1 DEF SortInv, Once, Injective
<1>6. ReadsFirst'
  BY DEF SortInv, ReadsFirst
<1> QED BY <1>2, <1>3, <1>4, <1>5, <1>6 DEF SortInv

LEMMA SortsAlways == Spec => []SortInv
<1>1. SortInv /\ [Next]_sorter => SortInv'
  BY SortStutters, LoadSorts, VisitSorts DEF Next
<1> QED BY InitSorts, <1>1, PTL DEF Spec

LEMMA SortMeaning == SortInv => Ordered /\ StuckOnCycle
<1>1. ASSUME SortInv, queue = <<>>, NEW k \in DOMAIN views \ Placed
      PROVE  Dep(views, k) \ Placed # {}
  <2>1. Elems(queue) = {}
    BY <1>1 DEF Elems
  <2>2. indeg[k] # 0
    BY <1>1, <2>1 DEF SortInv, Zeros
  <2>3. Cardinality(Dep(views, k) \ Placed) # 0
    BY <1>1, <2>2 DEF SortInv, Counters
  <2> QED BY <2>3, FS_EmptySet
<1>2. SortInv => StuckOnCycle
  BY <1>1 DEF StuckOnCycle
<1>3. SortInv => Ordered
  BY DEF SortInv, Once, ReadsFirst, Injective, Ordered
<1> QED BY <1>2, <1>3

(***************************************************************************)
(* No view is placed before one that it reads, or twice.                   *)
(***************************************************************************)
THEOREM SortedByReferences == Spec => []Ordered
BY SortMeaning, SortsAlways, PTL

(***************************************************************************)
(* When the loop ends early, every view left over reads one left over: an  *)
(* error means a cycle.                                                    *)
(***************************************************************************)
THEOREM EndsEarlyOnlyOnCycles == Spec => []StuckOnCycle
BY SortMeaning, SortsAlways, PTL
=============================================================================
