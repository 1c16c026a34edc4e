--------------------------- MODULE SequenceLemmas ---------------------------
(***************************************************************************)
(* What the proofs need to know of sequences, whatever is in them: their   *)
(* elements, their order, and what taking, joining and filtering do to     *)
(* both; and induction, stated for sets.                                   *)
(***************************************************************************)
EXTENDS Integers, Sequences, FiniteSets, FiniteSetTheorems, WellFoundedInduction, TLAPS

Elems(s)        == {s[i] : i \in DOMAIN s}
Injective(s)    == \A i, j \in DOMAIN s : s[i] = s[j] => i = j
Before(s, x, y) == \E i, j \in DOMAIN s : i < j /\ s[i] = x /\ s[j] = y

-----------------------------------------------------------------------------
(***************************************************************************)
(* A set of numbers that is not empty has a least one; so a set that has 0 *)
(* and with each number the next one has them all.                         *)
(***************************************************************************)
LEMMA LeastNumber ==
  ASSUME NEW T \in SUBSET Nat, T # {}
  PROVE  \E n \in T : \A m \in T : n <= m
<1> DEFINE R == {ss \in Nat \X Nat : ss[1] < ss[2]}
<1>1. IsWellFoundedOn(R, Nat)
  BY NatLessThanWellFounded, Zenon DEF OpToRel
<1>2. \A x, y \in Nat : <<y, x>> \in R <=> y < x
  OBVIOUS
<1> HIDE DEF R
<1>3. PICK n \in T : \A y \in T : ~(<<y, n>> \in R)
  BY <1>1, WFMin
<1>4. \A m \in T : ~(m < n)
  BY <1>2, <1>3
<1> QED BY <1>4

LEMMA Induction ==
  ASSUME NEW T \in SUBSET Nat, 0 \in T, \A n \in T : n + 1 \in T
  PROVE  T = Nat
<1> SUFFICES ASSUME Nat \ T # {} PROVE FALSE
  OBVIOUS
<1>1. PICK n \in Nat \ T : \A m \in Nat \ T : n <= m
  BY LeastNumber
<1>2. n # 0 /\ n - 1 \in Nat
  BY <1>1
<1>3. n - 1 \in T
  BY <1>1, <1>2
<1> QED BY <1>1, <1>2, <1>3

-----------------------------------------------------------------------------
(***************************************************************************)
(* Taking the head, joining and appending.                                 *)
(***************************************************************************)
LEMMA PopLemma ==
  ASSUME NEW S, NEW s \in Seq(S), s # <<>>
  PROVE  /\ Head(s) \in S /\ Tail(s) \in Seq(S)
         /\ Elems(s) = {Head(s)} \cup Elems(Tail(s))
         /\ Injective(s) => Injective(Tail(s)) /\ Head(s) \notin Elems(Tail(s))
<1>1. /\ Len(s) \in Nat \ {0} /\ DOMAIN s = 1..Len(s) /\ Head(s) = s[1]
      /\ Head(s) \in S /\ Tail(s) \in Seq(S)
  OBVIOUS
<1>2. /\ DOMAIN Tail(s) = 1..(Len(s) - 1)
      /\ \A i \in 1..(Len(s) - 1) : Tail(s)[i] = s[i + 1]
  BY <1>1
<1>3. \A i \in DOMAIN s : i = 1 \/ (i - 1 \in DOMAIN Tail(s) /\ Tail(s)[i - 1] = s[i])
  BY <1>1, <1>2
<1>4. \A i \in DOMAIN Tail(s) : i + 1 \in DOMAIN s /\ Tail(s)[i] = s[i + 1]
  BY <1>1, <1>2
<1>5. Elems(s) = {Head(s)} \cup Elems(Tail(s))
  <2>1. ASSUME NEW x \in Elems(s) PROVE x \in {Head(s)} \cup Elems(Tail(s))
    BY <1>1, <1>3 DEF Elems
  <2>2. ASSUME NEW x \in {Head(s)} \cup Elems(Tail(s)) PROVE x \in Elems(s)
    BY <1>1, <1>4 DEF Elems
  <2> QED BY <2>1, <2>2
<1>6. Injective(s) => Injective(Tail(s)) /\ Head(s) \notin Elems(Tail(s))
  <2> HAVE Injective(s)
  <2>1. Injective(Tail(s))
    BY <1>1, <1>2, <1>4 DEF Injective
  <2>2. ASSUME NEW i \in DOMAIN Tail(s) PROVE Tail(s)[i] # Head(s)
    BY <1>1, <1>2, <1>4 DEF Injective
  <2> QED BY <2>1, <2>2 DEF Elems
<1> QED BY <1>1, <1>5, <1>6

LEMMA ConcatLemma ==
  ASSUME NEW S, NEW s \in Seq(S), NEW t \in Seq(S)
  PROVE  /\ s \o t \in Seq(S)
         /\ Elems(s \o t) = Elems(s) \cup Elems(t)
         /\ Injective(s) /\ Injective(t) /\ Elems(s) \cap Elems(t) = {} => Injective(s \o t)
<1>1. /\ s \o t \in Seq(S) /\ Len(s) \in Nat /\ Len(t) \in Nat
      /\ DOMAIN s = 1..Len(s) /\ DOMAIN t = 1..Len(t)
      /\ DOMAIN (s \o t) = 1..(Len(s) + Len(t))
      /\ \A i \in 1..(Len(s) + Len(t)) :
           (s \o t)[i] = IF i <= Len(s) THEN s[i] ELSE t[i - Len(s)]
  OBVIOUS
<1>2. \A i \in DOMAIN s : i \in DOMAIN (s \o t) /\ (s \o t)[i] = s[i]
  BY <1>1
<1>3. \A i \in DOMAIN t : i + Len(s) \in DOMAIN (s \o t) /\ (s \o t)[i + Len(s)] = t[i]
  BY <1>1
<1>4. \A i \in DOMAIN (s \o t) :
        \/ i \in DOMAIN s /\ (s \o t)[i] = s[i]
        \/ i - Len(s) \in DOMAIN t /\ (s \o t)[i] = t[i - Len(s)]
  BY <1>1
<1>5. Elems(s \o t) = Elems(s) \cup Elems(t)
  <2>1. ASSUME NEW x \in Elems(s \o t) PROVE x \in Elems(s) \cup Elems(t)
    BY <1>4 DEF Elems
  <2>2. ASSUME NEW x \in Elems(s) \cup Elems(t) PROVE x \in Elems(s \o t)
    BY <1>2, <1>3 DEF Elems
  <2> QED BY <2>1, <2>2
<1>6. ASSUME Injective(s), Injective(t), Elems(s) \cap Elems(t) = {}
      PROVE  Injective(s \o t)
  <2> SUFFICES ASSUME NEW i \in DOMAIN (s \o t), NEW j \in DOMAIN (s \o t),
                      (s \o t)[i] = (s \o t)[j]
               PROVE  i = j
    BY DEF Injective
  <2>1. CASE i \in DOMAIN s /\ j \in DOMAIN s
    BY <2>1, <1>2, <1>6 DEF Injective
  <2>2. CASE i \notin DOMAIN s /\ j \notin DOMAIN s
    <3>1. i - Len(s) = j - Len(s)
      BY <2>2, <1>4, <1>6 DEF Injective
    <3> QED BY <3>1, <1>1
  <2>3. CASE i \in DOMAIN s /\ j \notin DOMAIN s
    <3>1. (s \o t)[i] \in Elems(s)
      BY <2>3, <1>2 DEF Elems
    <3>2. (s \o t)[j] \in Elems(t)
      BY <2>3, <1>4 DEF Elems
    <3> QED BY <3>1, <3>2, <1>6
  <2>4. CASE i \notin DOMAIN s /\ j \in DOMAIN s
    <3>1. (s \o t)[j] \in Elems(s)
      BY <2>4, <1>2 DEF Elems
    <3>2. (s \o t)[i] \in Elems(t)
      BY <2>4, <1>4 DEF Elems
    <3> QED BY <3>1, <3>2, <1>6
  <2> QED BY <2>1, <2>2, <2>3, <2>4
<1> QED BY <1>1, <1>5, <1>6

LEMMA AppendLemma ==
  ASSUME NEW S, NEW s \in Seq(S), NEW x \in S
  PROVE  /\ Append(s, x) \in Seq(S)
         /\ Elems(Append(s, x)) = Elems(s) \cup {x}
         /\ Injective(s) /\ x \notin Elems(s) => Injective(Append(s, x))
<1>1. /\ Append(s, x) \in Seq(S) /\ Len(s) \in Nat /\ DOMAIN s = 1..Len(s)
      /\ DOMAIN Append(s, x) = 1..(Len(s) + 1)
      /\ \A i \in 1..Len(s) : Append(s, x)[i] = s[i]
      /\ Append(s, x)[Len(s) + 1] = x
  OBVIOUS
<1>2. Elems(Append(s, x)) = Elems(s) \cup {x}
  <2>1. ASSUME NEW y \in Elems(Append(s, x)) PROVE y \in Elems(s) \cup {x}
    <3>1. PICK i \in 1..(Len(s) + 1) : y = Append(s, x)[i]
      BY <1>1 DEF Elems
    <3>2. CASE i = Len(s) + 1
      BY <3>1, <3>2, <1>1
    <3>3. CASE i \in 1..Len(s)
      BY <3>1, <3>3, <1>1 DEF Elems
    <3> QED BY <3>1, <3>2, <3>3, <1>1
  <2>2. ASSUME NEW y \in Elems(s) \cup {x} PROVE y \in Elems(Append(s, x))
    <3>1. CASE y = x
      <4>1. Len(s) + 1 \in DOMAIN Append(s, x)
        BY <1>1
      <4> QED BY <3>1, <4>1, <1>1 DEF Elems
    <3>2. CASE y \in Elems(s)
      <4>1. PICK i \in 1..Len(s) : y = s[i]
        BY <3>2, <1>1 DEF Elems
      <4>2. i \in DOMAIN Append(s, x)
        BY <1>1
      <4> QED BY <4>1, <4>2, <1>1 DEF Elems
    <3> QED BY <2>2, <3>1, <3>2
  <2> QED BY <2>1, <2>2
<1>3. ASSUME Injective(s), x \notin Elems(s) PROVE Injective(Append(s, x))
  <2>1. \A i \in 1..Len(s) : s[i] # x
    BY <1>1, <1>3 DEF Elems
  <2>2. \A i, j \in 1..Len(s) : s[i] = s[j] => i = j
    BY <1>1, <1>3 DEF Injective
  <2> QED BY <1>1, <2>1, <2>2 DEF Injective
<1> QED BY <1>1, <1>2, <1>3

LEMMA TailLemma ==
  ASSUME NEW S, NEW s \in Seq(S), s # <<>>
  PROVE  /\ Len(s) \in Nat \ {0} /\ Head(s) = s[1] /\ Tail(s) \in Seq(S)
         /\ DOMAIN s = 1..Len(s) /\ DOMAIN Tail(s) = 1..(Len(s) - 1)
         /\ \A i \in DOMAIN Tail(s) : i + 1 \in DOMAIN s /\ Tail(s)[i] = s[i + 1]
         /\ \A i \in DOMAIN s : i = 1 \/ (i - 1 \in DOMAIN Tail(s) /\ Tail(s)[i - 1] = s[i])
<1>1. /\ Len(s) \in Nat \ {0} /\ DOMAIN s = 1..Len(s) /\ Head(s) = s[1]
      /\ Tail(s) \in Seq(S)
      /\ DOMAIN Tail(s) = 1..(Len(s) - 1)
  OBVIOUS
<1>2. \A i \in 1..(Len(s) - 1) : Tail(s)[i] = s[i + 1]
  BY <1>1
<1> QED BY <1>1, <1>2

LEMMA JoinLemma ==
  ASSUME NEW S, NEW s \in Seq(S), NEW t \in Seq(S)
  PROVE  /\ s \o t \in Seq(S) /\ DOMAIN (s \o t) = 1..(Len(s) + Len(t))
         /\ \A i \in 1..Len(s) : (s \o t)[i] = s[i]
         /\ \A i \in (Len(s) + 1)..(Len(s) + Len(t)) : (s \o t)[i] = t[i - Len(s)]
<1>1. /\ s \o t \in Seq(S) /\ Len(s) \in Nat /\ Len(t) \in Nat
      /\ DOMAIN (s \o t) = 1..(Len(s) + Len(t))
      /\ \A i \in 1..(Len(s) + Len(t)) :
           (s \o t)[i] = IF i <= Len(s) THEN s[i] ELSE t[i - Len(s)]
  OBVIOUS
<1>2. \A i \in 1..Len(s) : i \in 1..(Len(s) + Len(t)) /\ i <= Len(s)
  BY <1>1
<1>3. \A i \in (Len(s) + 1)..(Len(s) + Len(t)) :
        i \in 1..(Len(s) + Len(t)) /\ ~(i <= Len(s))
  BY <1>1
<1> QED BY <1>1, <1>2, <1>3

(***************************************************************************)
(* A sequence without repetitions orders its elements.                     *)
(***************************************************************************)
LEMMA BeforeLemma ==
  ASSUME NEW S, NEW s \in Seq(S), Injective(s)
  PROVE  /\ \A x, y, z : Before(s, x, y) /\ Before(s, y, z) => Before(s, x, z)
         /\ \A x : ~Before(s, x, x)
         /\ \A x, y : Before(s, x, y) => x \in Elems(s) /\ y \in Elems(s)
<1>1. DOMAIN s \subseteq Int
  OBVIOUS
<1>2. ASSUME NEW x, NEW y, NEW z, Before(s, x, y), Before(s, y, z) PROVE Before(s, x, z)
  <2>1. PICK i \in DOMAIN s, j \in DOMAIN s : i < j /\ s[i] = x /\ s[j] = y
    BY <1>2 DEF Before
  <2>2. PICK k \in DOMAIN s, l \in DOMAIN s : k < l /\ s[k] = y /\ s[l] = z
    BY <1>2 DEF Before
  <2>3. j = k
    BY <2>1, <2>2 DEF Injective
  <2>4. i < l
    BY <1>1, <2>1, <2>2, <2>3
  <2> QED BY <2>1, <2>2, <2>4 DEF Before
<1>3. ASSUME NEW x, Before(s, x, x) PROVE FALSE
  <2>1. PICK i \in DOMAIN s, j \in DOMAIN s : i < j /\ s[i] = x /\ s[j] = x
    BY <1>3 DEF Before
  <2>2. i = j
    BY <2>1 DEF Injective
  <2> QED BY <1>1, <2>1, <2>2
<1>4. \A x, y : Before(s, x, y) => x \in Elems(s) /\ y \in Elems(s)
  BY DEF Before, Elems
<1> QED BY <1>2, <1>3, <1>4

(***************************************************************************)
(* A sequence of a finite set without repetitions and as long as the set   *)
(* is large lists the whole set.                                           *)
(***************************************************************************)
LEMMA FullLemma ==
  ASSUME NEW S, IsFiniteSet(S), NEW s \in Seq(S), Injective(s), Len(s) = Cardinality(S)
  PROVE  Elems(s) = S
<1>1. Len(s) \in Nat /\ s \in [1..Len(s) -> S] /\ DOMAIN s = 1..Len(s)
  OBVIOUS
<1>2. Elems(s) \subseteq S
  BY <1>1 DEF Elems
<1>3. s \in Bijection(1..Len(s), Elems(s))
  <2>1. s \in [1..Len(s) -> Elems(s)]
    BY <1>1 DEF Elems
  <2>2. \A i, j \in 1..Len(s) : s[i] = s[j] => i = j
    BY <1>1 DEF Injective
  <2>3. \A x \in Elems(s) : \E i \in 1..Len(s) : s[i] = x
    BY <1>1 DEF Elems
  <2> QED BY <2>1, <2>2, <2>3 DEF Bijection, Injection, Surjection, IsInjective
<1>4. Cardinality(Elems(s)) = Len(s)
  <2>1. ExistsBijection(1..Len(s), Elems(s))
    BY <1>3 DEF ExistsBijection
  <2> QED BY <1>1, <2>1, FS_CountingElements
<1> QED BY <1>2, <1>4, FS_Subset, FS_CardinalityType

-----------------------------------------------------------------------------
(***************************************************************************)
(* Any set of numbers up to some one can be listed in ascending order.     *)
(***************************************************************************)
Listings(U) ==
  {a \in [1..Cardinality(U) -> U] :
     /\ \A k \in U : \E i \in DOMAIN a : a[i] = k
     /\ \A i, j \in DOMAIN a : i < j => a[i] < a[j]}

LEMMA Enumerated ==
  ASSUME NEW n \in Nat, NEW S \in SUBSET (1..n)
  PROVE  Listings(S) # {}
<1> DEFINE T == {m \in Nat : \A U \in SUBSET (1..m) : Listings(U) # {}}
<1>1. 0 \in T
  <2>1. Cardinality({}) = 0 /\ 1..0 = {}
    BY FS_EmptySet
  <2>2. <<>> \in [1..0 -> {}]
    BY <2>1
  <2>3. <<>> \in Listings({})
    BY <2>1, <2>2 DEF Listings
  <2> QED BY <2>1, <2>3
<1>2. ASSUME NEW m \in T PROVE m + 1 \in T
  <2> SUFFICES ASSUME NEW U \in SUBSET (1..(m + 1)) PROVE Listings(U) # {}
    OBVIOUS
  <2>1. CASE m + 1 \notin U
    <3>1. U \in SUBSET (1..m)
      BY <2>1
    <3> QED BY <3>1
  <2>2. CASE m + 1 \in U
    <3> DEFINE V == U \ {m + 1}
               c == Cardinality(V)
    <3>1. V \in SUBSET (1..m) /\ U = V \cup {m + 1} /\ m + 1 \notin V
      BY <2>2
    <3>2. c \in Nat /\ Cardinality(U) = c + 1
      <4>1. IsFiniteSet(V)
        <5>1. IsFiniteSet(1..m)
          BY FS_Interval
        <5> QED BY <3>1, <5>1, FS_Subset
      <4> QED BY <3>1, <4>1, FS_CardinalityType, FS_AddElement
    <3>3. PICK a \in Listings(V) : TRUE
      BY <3>1
    <3>4. /\ a \in [1..c -> V]
          /\ \A k \in V : \E i \in DOMAIN a : a[i] = k
          /\ \A i, j \in DOMAIN a : i < j => a[i] < a[j]
      BY DEF Listings
    <3> DEFINE b == [i \in 1..(c + 1) |-> IF i = c + 1 THEN m + 1 ELSE a[i]]
    <3> HIDE DEF V, c
    <3>5. b \in [1..(c + 1) -> U]
      BY <3>1, <3>2, <3>4
    <3>6. \A k \in U : \E i \in DOMAIN b : b[i] = k
      <4> SUFFICES ASSUME NEW k \in U PROVE \E i \in DOMAIN b : b[i] = k
        OBVIOUS
      <4>1. CASE k = m + 1
        <5>1. c + 1 \in DOMAIN b /\ b[c + 1] = k
          BY <3>2, <4>1
        <5> QED BY <5>1
      <4>2. CASE k \in V
        <5>1. PICK i \in 1..c : a[i] = k
          BY <3>4, <4>2
        <5>2. i \in DOMAIN b /\ b[i] = k
          BY <3>2, <5>1
        <5> QED BY <5>2
      <4> QED BY <3>1, <4>1, <4>2
    <3>7. ASSUME NEW i \in DOMAIN b, NEW j \in DOMAIN b, i < j PROVE b[i] < b[j]
      <4>1. i \in 1..c /\ b[i] = a[i] /\ a[i] \in 1..m
        <5>1. i \in 1..(c + 1) /\ j \in 1..(c + 1)
          BY <3>7
        <5>2. i \in 1..c
          BY <3>2, <3>7, <5>1
        <5>3. b[i] = a[i]
          BY <3>2, <5>1, <5>2
        <5> QED BY <3>1, <3>4, <5>2, <5>3
      <4>2. CASE j = c + 1
        BY <3>2, <4>1, <4>2
      <4>3. CASE j \in 1..c
        BY <3>2, <3>4, <3>7, <4>1, <4>3
      <4> QED BY <3>2, <4>2, <4>3
    <3>8. b \in Listings(U)
      <4> HIDE DEF b
      <4>1. \A i, j \in DOMAIN b : i < j => b[i] < b[j]
        BY <3>7
      <4> QED BY <3>2, <3>5, <3>6, <4>1 DEF Listings
    <3> QED BY <3>8
  <2> QED BY <2>1, <2>2
<1>3. T = Nat
  <2> HIDE DEF T
  <2>1. T \subseteq Nat
    BY DEF T
  <2> QED BY <1>1, <1>2, <2>1, Induction
<1> QED BY <1>3

(***************************************************************************)
(* In one way only.                                                        *)
(***************************************************************************)
LEMMA OneListing ==
  ASSUME NEW n \in Nat, NEW S \in SUBSET (1..n), NEW a \in Listings(S), NEW b \in Listings(S)
  PROVE  a = b
<1> DEFINE c == Cardinality(S)
           T == {k \in Nat : \A j \in 1..k : j <= c => a[j] = b[j]}
<1>1. /\ a \in [1..c -> S] /\ \A i \in S : \E k \in 1..c : a[k] = i
      /\ \A i, j \in 1..c : i < j => a[i] < a[j]
  BY DEF Listings
<1>2. /\ b \in [1..c -> S] /\ \A i \in S : \E k \in 1..c : b[k] = i
      /\ \A i, j \in 1..c : i < j => b[i] < b[j]
  BY DEF Listings
<1>3. c \in Nat
  <2>1. IsFiniteSet(1..n)
    BY FS_Interval
  <2> QED BY <2>1, FS_Subset, FS_CardinalityType
<1> HIDE DEF c
<1>4. 0 \in T
  OBVIOUS
<1>5. ASSUME NEW k \in T PROVE k + 1 \in T
  <2> SUFFICES ASSUME k + 1 <= c PROVE a[k + 1] = b[k + 1]
    OBVIOUS
  <2>1. /\ k + 1 \in 1..c /\ \A j \in 1..c : j < k + 1 => a[j] = b[j]
        /\ \A j \in 1..c : a[j] \in 1..n /\ b[j] \in 1..n
    <3>1. k + 1 \in 1..c
      BY <1>3
    <3>2. \A j \in 1..c : a[j] \in 1..n /\ b[j] \in 1..n
      BY <1>1, <1>2
    <3>3. ASSUME NEW j \in 1..c, j < k + 1 PROVE a[j] = b[j]
      <4>1. j \in 1..k /\ j <= c
        BY <3>3
      <4> QED BY <4>1
    <3> QED BY <3>1, <3>2, <3>3
  <2>2. ~(a[k + 1] < b[k + 1])
    <3>1. PICK j \in 1..c : b[j] = a[k + 1]
      BY <1>1, <1>2, <2>1
    <3>2. ~(j < k + 1)
      BY <1>1, <2>1, <3>1
    <3>3. k + 1 < j => b[k + 1] < b[j]
      BY <1>2, <2>1
    <3>4. j = k + 1 \/ k + 1 < j
      BY <3>2
    <3> QED BY <2>1, <3>1, <3>3, <3>4
  <2>3. ~(b[k + 1] < a[k + 1])
    <3>1. PICK j \in 1..c : a[j] = b[k + 1]
      BY <1>1, <1>2, <2>1
    <3>2. ~(j < k + 1)
      BY <1>2, <2>1, <3>1
    <3>3. k + 1 < j => a[k + 1] < a[j]
      BY <1>1, <2>1
    <3>4. j = k + 1 \/ k + 1 < j
      BY <3>2
    <3> QED BY <2>1, <3>1, <3>3, <3>4
  <2> QED BY <2>1, <2>2, <2>3
<1>6. T = Nat
  <2> HIDE DEF T
  <2>1. T \in SUBSET Nat BY DEF T
  <2> QED BY <1>4, <1>5, <2>1, Induction
<1>7. ASSUME NEW j \in 1..c PROVE a[j] = b[j]
  <2>1. j \in T /\ j \in 1..j /\ j <= c
    BY <1>6
  <2> QED BY <2>1
<1>8. a = [j \in 1..c |-> a[j]] /\ b = [j \in 1..c |-> b[j]]
  BY <1>1, <1>2
<1> QED BY <1>7, <1>8

(***************************************************************************)
(* Counting up to c, each number greater than the one before and none left *)
(* out up to m, is counting.                                               *)
(***************************************************************************)
CountsUp(g, c, m) ==
  /\ g \in [1..c -> 1..m]
  /\ \A j, k \in 1..c : j < k => g[j] < g[k]
  /\ \A k \in 1..m : \E j \in 1..c : g[j] = k

LEMMA CountedUp ==
  ASSUME NEW c \in Nat, NEW m \in Nat, NEW g, CountsUp(g, c, m)
  PROVE  c = m /\ \A k \in 1..c : g[k] = k
<1> USE DEF CountsUp
<1> DEFINE T == {k \in Nat : \A j \in 1..k : j <= c => g[j] = j}
<1>1. 0 \in T
  OBVIOUS
<1>2. ASSUME NEW k \in T PROVE k + 1 \in T
  <2> SUFFICES ASSUME k + 1 <= c PROVE g[k + 1] = k + 1
    OBVIOUS
  <2>1. \A j \in 1..k : g[j] = j
    OBVIOUS
  <2>2. k + 1 \in 1..c /\ g[k + 1] \in 1..m
    OBVIOUS
  <2>3. g[k + 1] >= k + 1
    <3>1. CASE k = 0
      BY <2>2, <3>1
    <3>2. CASE k # 0
      <4>1. k \in 1..k /\ k \in 1..c /\ k < k + 1
        BY <3>2
      <4> QED BY <2>1, <2>2, <4>1
    <3> QED BY <3>1, <3>2
  <2>4. k + 1 \in 1..m
    BY <2>2, <2>3
  <2>5. PICK j \in 1..c : g[j] = k + 1
    BY <2>4
  <2>6. j >= k + 1
    BY <2>1, <2>5
  <2>7. ~(k + 1 < j)
    BY <2>2, <2>3, <2>5
  <2> QED BY <2>5, <2>6, <2>7
<1>3. T = Nat
  <2> HIDE DEF T
  <2>1. T \in SUBSET Nat BY DEF T
  <2> QED BY <1>1, <1>2, <2>1, Induction
<1>4. ASSUME NEW k \in 1..c PROVE g[k] = k
  <2>1. k \in T /\ k \in 1..k /\ k <= c
    BY <1>3
  <2> QED BY <2>1
<1>5. c <= m
  <2>1. CASE c = 0 BY <2>1
  <2>2. CASE c # 0
    <3>1. c \in 1..c /\ g[c] \in 1..m
      BY <2>2
    <3> QED BY <1>4, <3>1
  <2> QED BY <2>1, <2>2
<1>6. m <= c
  <2>1. CASE m = 0 BY <2>1
  <2>2. CASE m # 0
    <3>1. PICK j \in 1..c : g[j] = m
      BY <2>2
    <3> QED BY <1>4, <3>1
  <2> QED BY <2>1, <2>2
<1> QED BY <1>4, <1>5, <1>6
=============================================================================
