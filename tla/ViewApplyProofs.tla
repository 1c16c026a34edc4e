--------------------------- MODULE ViewApplyProofs ---------------------------
(***************************************************************************)
(* Applies of views, whatever the views, the files and the crashes: the    *)
(* safety properties of ViewProperties and the refinement of ViewCutover.  *)
(***************************************************************************)
EXTENDS ViewProperties, ViewOrderProofs

(***************************************************************************)
(* What a run knows while it goes: the sorts are those of ViewOrder, and   *)
(* the list kept of the desired views has them all, what a view reads      *)
(* before it.                                                              *)
(***************************************************************************)
Listing(s, g) ==
  /\ s \in Seq(DOMAIN g) /\ Injective(s) /\ Elems(s) = DOMAIN g
  /\ \A v \in DOMAIN g : \A w \in Dep(g, v) : Before(s, w, v)

Types ==
  /\ job \in ViewScenarios /\ db \in ViewMaps
  /\ pc = "desired" => views = job.files
  /\ pc = "current" => views = db
  /\ pc \in {"current", "apply"} => Listing(order, job.files)
  /\ pc # "apply" => pending = <<>>

(***************************************************************************)
(* What is pending, in terms of what is on the server now: only what is    *)
(* still to be done, each view once; a view is put when all listed before  *)
(* it are new or will be, and dropped when the unwanted ones that read it  *)
(* are gone or will be; and nothing is missing.                            *)
(***************************************************************************)
Put1(s) ==
  /\ s.op = "put" /\ s.v \in DOMAIN job.files
  /\ s.reads = job.files[s.v] /\ ~Cutover!New(s.v)

Drop1(s) == s.op = "drop" /\ job.allowed /\ Cutover!Unwanted(s.v)

Statements ==
  [op : {"put"}, v : Views, reads : SUBSET Views] \cup [op : {"drop"}, v : Views]

Due == \A i \in DOMAIN pending : Put1(pending[i]) \/ Drop1(pending[i])

EachOnce == \A i, j \in DOMAIN pending : pending[i].v = pending[j].v => i = j

Sooner(w, i) == \E j \in DOMAIN pending : j < i /\ pending[j].v = w

PutsInOrder ==
  \A i \in DOMAIN pending : pending[i].op = "put" =>
    \A w \in DOMAIN job.files :
      Before(order, w, pending[i].v) => Cutover!New(w) \/ Sooner(w, i)

DropsInOrder ==
  \A i \in DOMAIN pending : pending[i].op = "drop" =>
    \A w \in DOMAIN db :
      Cutover!Unwanted(w) /\ pending[i].v \in db[w] /\ w # pending[i].v => Sooner(w, i)

NothingMissing ==
  pc = "apply" =>
    /\ \A v \in DOMAIN job.files : Cutover!New(v) \/ \E i \in DOMAIN pending : pending[i].v = v
    /\ job.allowed => \A v \in DOMAIN db \ DOMAIN job.files :
                        \E i \in DOMAIN pending : pending[i].v = v

Schedule ==
  /\ pending \in Seq(Statements)
  /\ Due /\ EachOnce /\ PutsInOrder /\ DropsInOrder /\ NothingMissing

RunInv == SortInv /\ Types /\ Schedule

-----------------------------------------------------------------------------
(***************************************************************************)
(* A filtered list has the elements of the list that are in the set, in    *)
(* the order of the list.                                                  *)
(***************************************************************************)
LEMMA KeptLemma ==
  ASSUME NEW D, NEW s \in Seq(D), Injective(s), NEW set
  PROVE  /\ Kept(s, set) \in Seq(D)
         /\ Elems(Kept(s, set)) = Elems(s) \cap set
         /\ Injective(Kept(s, set))
         /\ \A x, y \in set : Before(s, x, y) => Before(Kept(s, set), x, y)
<1> DEFINE I  == {i \in DOMAIN s : s[i] \in set}
           at == CHOOSE a \in Sorted(I) : TRUE
           k  == [i \in DOMAIN at |-> s[at[i]]]
<1>1. Kept(s, set) = k
  BY DEF Kept
<1>2. Len(s) \in Nat /\ DOMAIN s = 1..Len(s) /\ \A i \in DOMAIN s : s[i] \in D
  OBVIOUS
<1>3. I \in SUBSET (1..Len(s)) /\ I \in SUBSET Int /\ IsFiniteSet(I)
  <2>1. IsFiniteSet(1..Len(s))
    BY <1>2, FS_Interval
  <2> QED BY <1>2, <2>1, FS_Subset
<1>4. at \in Sorted(I)
  <2>1. Sorted(I) # {}
    BY <1>2, <1>3, SortedExists
  <2> QED BY <2>1
<1>5. at \in Seq(I) /\ Elems(at) = I /\ Injective(at)
  <2> HIDE DEF at, I
  <2> QED BY <1>3, <1>4, SortedLemma
<1>6. \A i, j \in DOMAIN at : i < j => at[i] < at[j]
  BY <1>4 DEF Sorted
<1> HIDE DEF I, at
<1>7. Len(at) \in Nat /\ DOMAIN at = 1..Len(at) /\ \A i \in DOMAIN at : at[i] \in I
  BY <1>5
<1>8. /\ \A i \in DOMAIN at : at[i] \in DOMAIN s /\ s[at[i]] \in set
      /\ \A i \in DOMAIN s : s[i] \in set => \E j \in DOMAIN at : at[j] = i
  BY <1>5, <1>7 DEF I, Elems
<1>9. DOMAIN k = DOMAIN at /\ \A i \in DOMAIN k : k[i] = s[at[i]]
  OBVIOUS
<1>10. k \in Seq(D)
  BY <1>2, <1>7, <1>8
<1> HIDE DEF k
<1>11. Elems(k) = Elems(s) \cap set
  BY <1>8, <1>9 DEF Elems
<1>12. Injective(k)
  BY <1>5, <1>8, <1>9 DEF Injective
<1>13. ASSUME NEW x \in set, NEW y \in set, Before(s, x, y) PROVE Before(k, x, y)
  <2>1. PICK i \in DOMAIN s, j \in DOMAIN s : i < j /\ s[i] = x /\ s[j] = y
    BY <1>13 DEF Before
  <2>2. PICK p \in DOMAIN at, q \in DOMAIN at : at[p] = i /\ at[q] = j
    BY <1>8, <1>13, <2>1
  <2>3. p < q
    <3>1. p \in Int /\ q \in Int /\ i \in Int /\ j \in Int
      BY <1>2, <1>7, <2>1, <2>2
    <3>2. ~(q < p) /\ p # q
      BY <1>6, <2>1, <2>2, <3>1
    <3> QED BY <3>1, <3>2
  <2> QED BY <1>9, <2>1, <2>2, <2>3 DEF Before
<1> QED BY <1>1, <1>10, <1>11, <1>12, <1>13

LEMMA ViewMapType ==
  ASSUME NEW g \in ViewMaps
  PROVE  /\ DOMAIN g \subseteq Views /\ IsFiniteSet(DOMAIN g) /\ DOMAIN g \subseteq Int
         /\ \A v \in DOMAIN g : g[v] \subseteq Views
<1>1. PICK d \in SUBSET Views : g \in [d -> SUBSET Views]
  BY DEF ViewMaps
<1> QED BY <1>1, ViewsAssumption, FS_Subset

LEMMA JobType ==
  ASSUME Types
  PROVE  job.files \in ViewMaps /\ job.start \in ViewMaps /\ job.allowed \in BOOLEAN
BY ViewScenarioAssumption DEF Types

(***************************************************************************)
(* A sort that ends without the error has listed the map.                  *)
(***************************************************************************)
LEMMA SortLists ==
  ASSUME SortInv, queue = <<>>, ~Circular
  PROVE  Listing(out, views)
<1>1. /\ views \in ViewMaps /\ out \in Seq(DOMAIN views) /\ Injective(out) /\ ReadsFirst
      /\ Len(out) = Cardinality(DOMAIN views)
  BY DEF SortInv, Shape, Once, Circular
<1>2. Elems(out) = DOMAIN views
  BY <1>1, ViewMapType, FullLemma
<1>3. Len(out) \in Nat /\ DOMAIN out = 1..Len(out)
  BY <1>1
<1>4. ASSUME NEW v \in DOMAIN views, NEW w \in Dep(views, v) PROVE Before(out, w, v)
  <2>1. PICK i \in DOMAIN out : out[i] = v
    BY <1>2 DEF Elems
  <2>2. PICK j \in 1..(i - 1) : out[j] = w
    BY <1>1, <1>4, <2>1 DEF ReadsFirst
  <2>3. j \in DOMAIN out /\ j < i
    BY <1>3, <2>1, <2>2
  <2> QED BY <2>1, <2>2, <2>3 DEF Before
<1> QED BY <1>1, <1>2, <1>4 DEF Listing

-----------------------------------------------------------------------------
(***************************************************************************)
(* Planning: the pending statements are the reverse of the unwanted views, *)
(* then the stale ones.                                                    *)
(***************************************************************************)
LEMMA PlanSchedules ==
  ASSUME RunInv, Plan
  PROVE  Schedule'
<1> DEFINE F  == job.files
           g  == Kept(out, DOMAIN db \ DOMAIN F)
           k  == Kept(order, Stale(db, F))
           n  == Len(g)
           nd == IF job.allowed THEN n ELSE 0
           ds == DropStmts(db, F, out, job.allowed)
           cs == CreateStmts(db, F, order)
<1>1. /\ SortInv /\ Types /\ queue = <<>> /\ ~Circular /\ pc = "current"
      /\ pending' = DropStmts(views, job.files, out, job.allowed)
                      \o CreateStmts(views, job.files, order)
      /\ pc' = "apply" /\ db' = db /\ job' = job /\ order' = order
  BY DEF RunInv, Plan
<1>2. /\ views = db /\ Listing(order, F) /\ Listing(out, db) /\ pending' = ds \o cs
      /\ F \in ViewMaps /\ db \in ViewMaps /\ job.allowed \in BOOLEAN
  BY <1>1, SortLists, JobType DEF Types
<1>3. /\ g \in Seq(DOMAIN db) /\ Elems(g) = DOMAIN db \ DOMAIN F /\ Injective(g)
      /\ \A x, y \in DOMAIN db \ DOMAIN F : Before(out, x, y) => Before(g, x, y)
  <2>1. out \in Seq(DOMAIN db) /\ Injective(out) /\ Elems(out) = DOMAIN db
    BY <1>2 DEF Listing
  <2> QED BY <2>1, KeptLemma
<1>4. /\ k \in Seq(DOMAIN F) /\ Elems(k) = Stale(db, F) /\ Injective(k)
      /\ \A x, y \in Stale(db, F) : Before(order, x, y) => Before(k, x, y)
  <2>1. order \in Seq(DOMAIN F) /\ Injective(order) /\ Elems(order) = DOMAIN F
    BY <1>2 DEF Listing
  <2>2. Stale(db, F) \subseteq DOMAIN F
    BY DEF Stale
  <2>3. /\ k \in Seq(DOMAIN F) /\ Elems(k) = Elems(order) \cap Stale(db, F) /\ Injective(k)
        /\ \A x, y \in Stale(db, F) : Before(order, x, y) => Before(k, x, y)
    <3> HIDE DEF F
    <3> QED BY <2>1, KeptLemma
  <2> HIDE DEF F, k
  <2> QED BY <2>1, <2>2, <2>3
<1>5. /\ ds = IF job.allowed THEN [i \in 1..n |-> [op |-> "drop", v |-> g[n + 1 - i]]] ELSE <<>>
      /\ cs = [i \in DOMAIN k |-> [op |-> "put", v |-> k[i], reads |-> F[k[i]]]]
  BY DEF DropStmts, CreateStmts, Puts
<1> HIDE DEF g, k, ds, cs
<1>6. /\ n \in Nat /\ DOMAIN g = 1..n /\ nd \in Nat
      /\ Len(k) \in Nat /\ DOMAIN k = 1..Len(k)
      /\ \A i \in DOMAIN g : g[i] \in DOMAIN db \ DOMAIN F
      /\ \A i \in DOMAIN k : k[i] \in Stale(db, F)
  BY <1>3, <1>4, <1>2 DEF Elems
<1>7. /\ ds \in Seq(Statements) /\ Len(ds) = nd /\ DOMAIN ds = 1..nd
      /\ \A i \in 1..nd : ds[i] = [op |-> "drop", v |-> g[n + 1 - i]]
  <2>1. CASE job.allowed
    <3>1. \A i \in 1..n : n + 1 - i \in DOMAIN g
      BY <1>6
    <3>2. \A i \in 1..n : g[n + 1 - i] \in Views
      BY <1>2, <1>6, <3>1, ViewMapType
    <3>3. \A i \in 1..n : [op |-> "drop", v |-> g[n + 1 - i]] \in Statements
      BY <3>2 DEF Statements
    <3>4. ds \in [1..n -> Statements] /\ nd = n
      BY <1>5, <2>1, <3>3
    <3>5. \A i \in 1..n : ds[i] = [op |-> "drop", v |-> g[n + 1 - i]]
      BY <1>5, <2>1
    <3> QED BY <1>6, <3>4, <3>5
  <2>2. CASE ~job.allowed
    BY <1>5, <2>2
  <2> QED BY <2>1, <2>2
<1>8. /\ cs \in Seq(Statements) /\ Len(cs) = Len(k) /\ DOMAIN cs = 1..Len(k)
      /\ \A i \in 1..Len(k) : cs[i] = [op |-> "put", v |-> k[i], reads |-> F[k[i]]]
  <2>1. \A i \in 1..Len(k) : k[i] \in DOMAIN F
    BY <1>6 DEF Stale
  <2>2. \A i \in 1..Len(k) : k[i] \in Views /\ F[k[i]] \in SUBSET Views
    BY <1>2, <2>1, ViewMapType
  <2>3. \A i \in 1..Len(k) : [op |-> "put", v |-> k[i], reads |-> F[k[i]]] \in Statements
    BY <2>2 DEF Statements
  <2>4. cs \in [1..Len(k) -> Statements]
    BY <1>5, <1>6, <2>3
  <2> QED BY <1>5, <1>6, <2>4
<1>9. /\ pending' \in Seq(Statements) /\ DOMAIN pending' = 1..(nd + Len(k))
      /\ \A i \in 1..nd : pending'[i] = ds[i]
      /\ \A i \in (nd + 1)..(nd + Len(k)) : pending'[i] = cs[i - nd]
  <2>1. Len(cs) = Len(k) /\ Len(ds) = nd
    BY <1>7, <1>8
  <2> HIDE DEF nd, n
  <2> QED BY <1>2, <1>7, <1>8, <2>1, JoinLemma
<1>10. ASSUME NEW i \in DOMAIN pending', i <= nd
       PROVE  /\ n + 1 - i \in DOMAIN g /\ job.allowed /\ nd = n /\ i \in Int
              /\ pending'[i] = [op |-> "drop", v |-> g[n + 1 - i]]
              /\ pending'[i].v \in DOMAIN db \ DOMAIN F
  BY <1>6, <1>7, <1>9, <1>10
<1>11. ASSUME NEW i \in DOMAIN pending', ~(i <= nd)
       PROVE  /\ i - nd \in DOMAIN k /\ k[i - nd] \in Stale(db, F) /\ i \in Int
              /\ pending'[i] = [op |-> "put", v |-> k[i - nd], reads |-> F[k[i - nd]]]
  <2>1. i - nd \in 1..Len(k) /\ i \in (nd + 1)..(nd + Len(k))
    BY <1>6, <1>9, <1>11
  <2> QED BY <1>6, <1>8, <1>9, <2>1
<1>12. ASSUME NEW j \in DOMAIN g, job.allowed
       PROVE  n + 1 - j \in DOMAIN pending' /\ pending'[n + 1 - j].v = g[j]
  <2>1. nd = n
    BY <1>12
  <2> HIDE DEF nd, n
  <2>2. n + 1 - j \in 1..nd /\ n + 1 - j \in 1..(nd + Len(k)) /\ n + 1 - (n + 1 - j) = j
    BY <1>6, <1>12, <2>1
  <2> QED BY <1>7, <1>9, <2>2
<1>13. ASSUME NEW j \in DOMAIN k
       PROVE  nd + j \in DOMAIN pending' /\ pending'[nd + j].v = k[j]
  <2>1. nd + j \in (nd + 1)..(nd + Len(k)) /\ (nd + j) - nd = j /\ nd + j \in 1..(nd + Len(k))
    BY <1>6
  <2> QED BY <1>6, <1>8, <1>9, <2>1
<1>14. /\ \A v : Cutover!New(v)' <=> Cutover!New(v)
       /\ \A v : Cutover!Unwanted(v)' <=> Cutover!Unwanted(v)
       /\ \A v : v \in Stale(db, F) <=> v \in DOMAIN F /\ ~Cutover!New(v)
  BY <1>1 DEF Cutover!New, Cutover!Unwanted, Stale
<1> HIDE DEF nd, n
<1>15. Due'
  <2> SUFFICES ASSUME NEW i \in DOMAIN pending' PROVE (Put1(pending[i]) \/ Drop1(pending[i]))'
    BY DEF Due
  <2>1. CASE i <= nd
    <3>1. pending'[i].op = "drop" /\ job.allowed /\ pending'[i].v \in DOMAIN db \ DOMAIN F
      BY <1>10, <2>1
    <3>2. Drop1(pending[i])'
      BY <1>1, <3>1 DEF Drop1, Cutover!Unwanted
    <3> QED BY <3>2
  <2>2. CASE ~(i <= nd)
    <3>1. /\ pending'[i].op = "put" /\ pending'[i].v \in Stale(db, F)
          /\ pending'[i].reads = F[pending'[i].v]
      BY <1>11, <2>2
    <3>2. Put1(pending[i])'
      BY <1>1, <3>1 DEF Put1, Stale, Cutover!New
    <3> QED BY <3>2
  <2> QED BY <2>1, <2>2
<1>16. EachOnce'
  <2> SUFFICES ASSUME NEW i \in DOMAIN pending', NEW j \in DOMAIN pending',
                      pending'[i].v = pending'[j].v
               PROVE  i = j
    BY DEF EachOnce
  <2>1. CASE i <= nd /\ j <= nd
    <3>1. n + 1 - i = n + 1 - j /\ i \in Int /\ j \in Int
      BY <1>3, <1>10, <2>1 DEF Injective
    <3> QED BY <1>6, <3>1
  <2>2. CASE ~(i <= nd) /\ ~(j <= nd)
    <3>1. i - nd = j - nd /\ i \in Int /\ j \in Int
      BY <1>4, <1>11, <2>2 DEF Injective
    <3> QED BY <1>6, <3>1
  <2>3. CASE i <= nd /\ ~(j <= nd)
    BY <1>10, <1>11, <2>3 DEF Stale
  <2>4. CASE ~(i <= nd) /\ j <= nd
    BY <1>10, <1>11, <2>4 DEF Stale
  <2> QED BY <2>1, <2>2, <2>3, <2>4
<1>17. PutsInOrder'
  <2> SUFFICES ASSUME NEW i \in DOMAIN pending', pending'[i].op = "put",
                      NEW w \in DOMAIN F, Before(order, w, pending'[i].v), ~Cutover!New(w)
               PROVE  \E j \in DOMAIN pending' : j < i /\ pending'[j].v = w
    BY <1>1, <1>14, SMTT(30) DEF PutsInOrder, Sooner, Before
  <2>1. ~(i <= nd)
    BY <1>10
  <2>2. i - nd \in DOMAIN k /\ k[i - nd] \in Stale(db, F) /\ pending'[i].v = k[i - nd] /\ i \in Int
    BY <1>11, <2>1
  <2>3. Before(k, w, k[i - nd])
    BY <1>4, <1>14, <2>2
  <2>4. PICK p \in DOMAIN k, q \in DOMAIN k : p < q /\ k[p] = w /\ k[q] = k[i - nd]
    BY <2>3 DEF Before
  <2>5. q = i - nd
    BY <1>4, <2>2, <2>4 DEF Injective
  <2>6. nd + p < i
    BY <1>6, <2>2, <2>4, <2>5
  <2> QED BY <1>13, <2>4, <2>6
<1>18. DropsInOrder'
  <2> SUFFICES ASSUME NEW i \in DOMAIN pending', pending'[i].op = "drop",
                      NEW w \in DOMAIN db, Cutover!Unwanted(w),
                      pending'[i].v \in db[w], w # pending'[i].v
               PROVE  \E j \in DOMAIN pending' : j < i /\ pending'[j].v = w
    BY <1>1, <1>14 DEF DropsInOrder, Sooner
  <2>1. i <= nd
    BY <1>11
  <2>2. /\ n + 1 - i \in DOMAIN g /\ job.allowed /\ nd = n /\ i \in Int
        /\ pending'[i].v = g[n + 1 - i] /\ g[n + 1 - i] \in DOMAIN db \ DOMAIN F
    BY <1>10, <2>1
  <2>3. g[n + 1 - i] \in Dep(db, w) /\ w \in DOMAIN db \ DOMAIN F
    BY <2>2 DEF Dep, Cutover!Unwanted
  <2>4. Before(g, g[n + 1 - i], w)
    BY <1>2, <1>3, <2>2, <2>3 DEF Listing
  <2>5. PICK p \in DOMAIN g, q \in DOMAIN g : p < q /\ g[p] = g[n + 1 - i] /\ g[q] = w
    BY <2>4 DEF Before
  <2>6. p = n + 1 - i
    BY <1>3, <2>2, <2>5 DEF Injective
  <2>7. n + 1 - q < i
    BY <1>6, <2>2, <2>5, <2>6
  <2> QED BY <1>12, <2>2, <2>5, <2>7
<1>19. NothingMissing'
  <2>1. ASSUME NEW v \in DOMAIN F, ~Cutover!New(v)
        PROVE  \E i \in DOMAIN pending' : pending'[i].v = v
    <3>1. PICK j \in DOMAIN k : k[j] = v
      BY <1>4, <1>14, <2>1 DEF Elems
    <3> QED BY <1>13, <3>1
  <2>2. ASSUME job.allowed, NEW v \in DOMAIN db \ DOMAIN F
        PROVE  \E i \in DOMAIN pending' : pending'[i].v = v
    <3>1. PICK j \in DOMAIN g : g[j] = v
      BY <1>3, <2>2 DEF Elems
    <3> QED BY <1>12, <2>2, <3>1
  <2> QED BY <1>1, <1>14, <2>1, <2>2 DEF NothingMissing
<1> QED BY <1>9, <1>15, <1>16, <1>17, <1>18, <1>19 DEF Schedule

-----------------------------------------------------------------------------
(***************************************************************************)
(* The head of a schedule: it is still to be done, a view is put when all  *)
(* listed before it are new, and dropped when no other unwanted view reads *)
(* it.                                                                     *)
(***************************************************************************)
LEMMA HeadDue ==
  ASSUME Schedule, pending # <<>>
  PROVE  /\ Head(pending) \in Statements
         /\ Put1(Head(pending)) \/ Drop1(Head(pending))
         /\ Head(pending).op = "put" =>
              \A w \in DOMAIN job.files : Before(order, w, Head(pending).v) => Cutover!New(w)
         /\ Head(pending).op = "drop" =>
              \A w \in DOMAIN db :
                Cutover!Unwanted(w) /\ Head(pending).v \in db[w] => w = Head(pending).v
<1>1. /\ Len(pending) \in Nat \ {0} /\ DOMAIN pending = 1..Len(pending)
      /\ Head(pending) = pending[1]
  BY TailLemma DEF Schedule
<1>2. 1 \in DOMAIN pending /\ \A w : ~Sooner(w, 1)
  BY <1>1 DEF Sooner
<1>3. pending[1] \in Statements
  BY <1>2 DEF Schedule
<1> QED BY <1>1, <1>2, <1>3 DEF Schedule, Due, PutsInOrder, DropsInOrder

(***************************************************************************)
(* What the server does, in the terms of the schedule.                     *)
(***************************************************************************)
LEMMA ExecuteChanges ==
  ASSUME RunInv, Execute
  PROVE  LET s == Head(pending)
         IN  /\ db' \in ViewMaps
             /\ \A w : Cutover!New(w)' <=> Cutover!New(w) \/ (s.op = "put" /\ w = s.v)
             /\ \A w : Cutover!Unwanted(w)' <=> Cutover!Unwanted(w) /\ w # s.v
             /\ \A w \in DOMAIN db' : w # s.v => w \in DOMAIN db /\ db'[w] = db[w]
             /\ s.op = "put" <=> s.v \in DOMAIN job.files
<1> DEFINE s == Head(pending)
<1>1. /\ Schedule /\ Types /\ pending # <<>> /\ db' = Effect(db, s) /\ job' = job
  BY DEF RunInv, Execute
<1>2. s \in Statements /\ (Put1(s) \/ Drop1(s))
  BY <1>1, HeadDue
<1>3. db \in ViewMaps /\ job.files \in ViewMaps
  BY <1>1, JobType DEF Types
<1>4. DOMAIN db \subseteq Views /\ \A v \in DOMAIN db : db[v] \subseteq Views
  BY <1>3, ViewMapType
<1> HIDE DEF s
<1>5. CASE Put1(s)
  <2>1. /\ s.op = "put" /\ s.v \in DOMAIN job.files /\ s.reads = job.files[s.v]
        /\ ~Cutover!New(s.v)
    BY <1>5 DEF Put1
  <2>2. db' = [k \in DOMAIN db \cup {s.v} |-> IF k = s.v THEN s.reads ELSE db[k]]
    BY <1>1, <2>1 DEF Effect, Put
  <2>3. s.v \in Views /\ s.reads \subseteq Views
    BY <1>3, <2>1, ViewMapType
  <2>4. db' \in ViewMaps
    <3>1. DOMAIN db \cup {s.v} \in SUBSET Views
      BY <1>4, <2>3
    <3>2. db' \in [DOMAIN db \cup {s.v} -> SUBSET Views]
      BY <1>4, <2>2, <2>3
    <3> QED BY <3>1, <3>2 DEF ViewMaps
  <2>5. /\ DOMAIN db' = DOMAIN db \cup {s.v} /\ db'[s.v] = job.files[s.v]
        /\ \A w \in DOMAIN db' : w # s.v => w \in DOMAIN db /\ db'[w] = db[w]
    BY <2>1, <2>2
  <2>6. \A w : Cutover!New(w)' <=> Cutover!New(w) \/ (s.op = "put" /\ w = s.v)
    BY <1>1, <2>1, <2>5 DEF Cutover!New
  <2>7. \A w : Cutover!Unwanted(w)' <=> Cutover!Unwanted(w) /\ w # s.v
    BY <1>1, <2>1, <2>5 DEF Cutover!Unwanted
  <2> QED BY <2>1, <2>4, <2>5, <2>6, <2>7 DEF s
<1>6. CASE Drop1(s)
  <2>1. s.op = "drop" /\ s.v \in DOMAIN db \ DOMAIN job.files
    BY <1>6 DEF Drop1, Cutover!Unwanted
  <2>2. db' = [k \in DOMAIN db \ {s.v} |-> db[k]]
    BY <1>1, <2>1 DEF Effect, Without
  <2>3. db' \in ViewMaps
    <3>1. DOMAIN db \ {s.v} \in SUBSET Views
      BY <1>4
    <3>2. db' \in [DOMAIN db \ {s.v} -> SUBSET Views]
      BY <1>4, <2>2
    <3> QED BY <3>1, <3>2 DEF ViewMaps
  <2>4. /\ DOMAIN db' = DOMAIN db \ {s.v}
        /\ \A w \in DOMAIN db' : w \in DOMAIN db /\ db'[w] = db[w]
    BY <2>2
  <2>5. \A w : Cutover!New(w)' <=> Cutover!New(w) \/ (s.op = "put" /\ w = s.v)
    BY <1>1, <2>1, <2>4 DEF Cutover!New
  <2>6. \A w : Cutover!Unwanted(w)' <=> Cutover!Unwanted(w) /\ w # s.v
    BY <1>1, <2>1, <2>4 DEF Cutover!Unwanted
  <2> QED BY <2>1, <2>3, <2>4, <2>5, <2>6 DEF s
<1> QED BY <1>2, <1>5, <1>6

(***************************************************************************)
(* The rest of a schedule is a schedule of what is left to do.             *)
(***************************************************************************)
LEMMA ExecuteSchedules ==
  ASSUME RunInv, Execute
  PROVE  Schedule'
<1> DEFINE s == Head(pending)
           t == Tail(pending)
<1>1. /\ Schedule /\ Types /\ pending # <<>> /\ pending' = t
      /\ job' = job /\ order' = order /\ pc' = pc /\ pc = "apply"
  BY DEF RunInv, Execute
<1>2. /\ \A w : Cutover!New(w)' <=> Cutover!New(w) \/ (s.op = "put" /\ w = s.v)
      /\ \A w : Cutover!Unwanted(w)' <=> Cutover!Unwanted(w) /\ w # s.v
      /\ \A w \in DOMAIN db' : w # s.v => w \in DOMAIN db /\ db'[w] = db[w]
      /\ s.op = "put" <=> s.v \in DOMAIN job.files
  BY ExecuteChanges
<1>3. /\ Len(pending) \in Nat \ {0} /\ DOMAIN pending = 1..Len(pending)
      /\ s = pending[1] /\ t \in Seq(Statements) /\ DOMAIN t \subseteq Int
      /\ \A i \in DOMAIN t : i + 1 \in DOMAIN pending /\ t[i] = pending[i + 1]
      /\ \A i \in DOMAIN pending : i = 1 \/ (i - 1 \in DOMAIN t /\ t[i - 1] = pending[i])
  <2>1. pending \in Seq(Statements)
    BY <1>1 DEF Schedule
  <2> QED BY <1>1, <2>1, TailLemma
<1> HIDE DEF s, t
<1>4. \A i \in DOMAIN t : t[i].v # s.v /\ (Put1(t[i]) \/ Drop1(t[i]))
  <2> TAKE i \in DOMAIN t
  <2>1. i + 1 \in DOMAIN pending /\ 1 \in DOMAIN pending /\ i + 1 # 1 /\ t[i] = pending[i + 1]
    BY <1>3
  <2> QED BY <1>1, <1>3, <2>1 DEF Schedule, EachOnce, Due
<1>5. ASSUME NEW i \in DOMAIN t, NEW w, Sooner(w, i + 1)
      PROVE  w = s.v \/ \E j \in DOMAIN t : j < i /\ t[j].v = w
  <2>1. PICK j \in DOMAIN pending : j < i + 1 /\ pending[j].v = w
    BY <1>5 DEF Sooner
  <2>2. CASE j = 1
    BY <1>3, <2>1, <2>2
  <2>3. CASE j # 1
    <3>1. j - 1 \in DOMAIN t /\ t[j - 1] = pending[j] /\ j - 1 < i
      BY <1>3, <2>1, <2>3
    <3> QED BY <2>1, <3>1
  <2> QED BY <2>2, <2>3
<1>6. Due'
  <2> SUFFICES ASSUME NEW i \in DOMAIN pending' PROVE (Put1(pending[i]) \/ Drop1(pending[i]))'
    BY DEF Due
  <2>1. pending'[i] = t[i] /\ t[i].v # s.v /\ (Put1(t[i]) \/ Drop1(t[i]))
    BY <1>1, <1>4
  <2>2. CASE Put1(t[i])
    <3>1. Put1(pending[i])'
      BY <1>1, <1>2, <2>1, <2>2 DEF Put1
    <3> QED BY <3>1
  <2>3. CASE Drop1(t[i])
    <3>1. Drop1(pending[i])'
      BY <1>1, <1>2, <2>1, <2>3 DEF Drop1
    <3> QED BY <3>1
  <2> QED BY <2>1, <2>2, <2>3
<1>7. EachOnce'
  <2> SUFFICES ASSUME NEW i \in DOMAIN t, NEW j \in DOMAIN t, t[i].v = t[j].v
               PROVE  i = j
    BY <1>1 DEF EachOnce
  <2>1. i + 1 = j + 1
    BY <1>1, <1>3 DEF Schedule, EachOnce
  <2> QED BY <1>3, <2>1
<1>8. PutsInOrder'
  <2> SUFFICES ASSUME NEW i \in DOMAIN t, t[i].op = "put",
                      NEW w \in DOMAIN job.files, Before(order, w, t[i].v)
               PROVE  Cutover!New(w)' \/ \E j \in DOMAIN t : j < i /\ t[j].v = w
    BY <1>1 DEF PutsInOrder, Sooner, Before
  <2>1. Cutover!New(w) \/ Sooner(w, i + 1)
    BY <1>1, <1>3 DEF Schedule, PutsInOrder
  <2> QED BY <1>2, <1>5, <2>1
<1>9. DropsInOrder'
  <2> SUFFICES ASSUME NEW i \in DOMAIN t, t[i].op = "drop", NEW w \in DOMAIN db',
                      Cutover!Unwanted(w)', t[i].v \in db'[w], w # t[i].v
               PROVE  \E j \in DOMAIN t : j < i /\ t[j].v = w
    BY <1>1 DEF DropsInOrder, Sooner
  <2>1. w \in DOMAIN db /\ db'[w] = db[w] /\ Cutover!Unwanted(w) /\ w # s.v
    BY <1>2
  <2>2. Sooner(w, i + 1)
    BY <1>1, <1>3, <2>1 DEF Schedule, DropsInOrder
  <2> QED BY <1>5, <2>1, <2>2
<1>10. NothingMissing'
  <2>1. ASSUME NEW v, v # s.v, \E i \in DOMAIN pending : pending[i].v = v
        PROVE  \E i \in DOMAIN t : t[i].v = v
    <3>1. PICK i \in DOMAIN pending : pending[i].v = v
      BY <2>1
    <3>2. i - 1 \in DOMAIN t /\ t[i - 1] = pending[i]
      BY <1>3, <2>1, <3>1
    <3> QED BY <3>1, <3>2
  <2>2. ASSUME NEW v \in DOMAIN job.files
        PROVE  Cutover!New(v)' \/ \E i \in DOMAIN t : t[i].v = v
    BY <1>1, <1>2, <2>1 DEF Schedule, NothingMissing
  <2>3. ASSUME job.allowed, NEW v \in DOMAIN db' \ DOMAIN job.files
        PROVE  \E i \in DOMAIN t : t[i].v = v
    <3>1. Cutover!Unwanted(v)'
      BY <1>1, <2>3 DEF Cutover!Unwanted
    <3>2. v \in DOMAIN db \ DOMAIN job.files /\ v # s.v
      BY <1>2, <3>1 DEF Cutover!Unwanted
    <3> QED BY <1>1, <2>1, <2>3, <3>2 DEF Schedule, NothingMissing
  <2> QED BY <1>1, <2>2, <2>3 DEF NothingMissing
<1> QED BY <1>1, <1>3, <1>6, <1>7, <1>8, <1>9, <1>10 DEF Schedule

-----------------------------------------------------------------------------
(***************************************************************************)
(* The invariant, step by step.                                            *)
(***************************************************************************)
LEMMA NothingPending ==
  ASSUME pending' = <<>>, pc' # "apply"
  PROVE  Schedule'
<1>1. DOMAIN pending' = {} /\ pending' \in Seq(Statements)
  OBVIOUS
<1> QED BY <1>1
        DEF Schedule, Due, EachOnce, PutsInOrder, DropsInOrder, NothingMissing

LEMMA ListingStays ==
  ASSUME Listing(order, job.files), order' = order, job' = job
  PROVE  Listing(order, job.files)'
BY DEF Listing, Injective, Elems, Before, Dep

LEMMA InitRuns == ApplyInit => RunInv
<1> SUFFICES ASSUME ApplyInit PROVE RunInv
  OBVIOUS
<1>1. SortInv
  BY InitSorts DEF ApplyInit
<1>2. Types
  BY ViewScenarioAssumption DEF ApplyInit, Types
<1>3. DOMAIN pending = {} /\ pending \in Seq(Statements) /\ pc = "idle"
  BY DEF ApplyInit
<1>4. Schedule
  BY <1>3 DEF Schedule, Due, EachOnce, PutsInOrder, DropsInOrder, NothingMissing
<1> QED BY <1>1, <1>2, <1>4 DEF RunInv

LEMMA StepRuns ==
  ASSUME RunInv, ApplyNext
  PROVE  RunInv'
<1>1. SortInv /\ Types /\ Schedule
  BY DEF RunInv
<1>2. CASE SortDesired
  <2>1. /\ Load(job.files) /\ pc' = "desired" /\ pc = "idle"
        /\ db' = db /\ job' = job /\ pending' = pending
    BY <1>2 DEF SortDesired
  <2>2. SortInv'
    BY <1>1, <2>1, JobType, LoadSorts
  <2>3. Types' /\ pending' = <<>>
    BY <1>1, <2>1 DEF Types, Load
  <2>4. Schedule'
    BY <2>1, <2>3, NothingPending
  <2> QED BY <2>2, <2>3, <2>4 DEF RunInv
<1>3. CASE Sort
  <2>1. /\ Visit /\ pc \in {"desired", "current"}
        /\ db' = db /\ job' = job /\ pc' = pc /\ order' = order /\ pending' = pending
        /\ views' = views
    BY <1>3 DEF Sort, Visit
  <2>2. SortInv'
    BY <1>1, <2>1, VisitSorts
  <2>3. Types' /\ pending' = <<>>
    BY <1>1, <2>1, ListingStays DEF Types
  <2>4. Schedule'
    BY <2>1, <2>3, NothingPending
  <2> QED BY <2>2, <2>3, <2>4 DEF RunInv
<1>4. CASE Refuse \/ Finish \/ Reject \/ Crash
  <2>1. /\ UNCHANGED sorter /\ db' = db /\ job' = job
        /\ pc' \in {"idle", "refused"} /\ pending' = <<>>
    BY <1>1, <1>4 DEF Refuse, Finish, Reject, Crash, Types
  <2>2. SortInv'
    BY <1>1, <2>1, SortStutters
  <2>3. Types'
    BY <1>1, <2>1 DEF Types
  <2>4. Schedule'
    BY <2>1, NothingPending
  <2> QED BY <2>2, <2>3, <2>4 DEF RunInv
<1>5. CASE SortCurrent
  <2>1. /\ pc = "desired" /\ queue = <<>> /\ ~Circular /\ order' = out /\ Load(db)
        /\ pc' = "current" /\ db' = db /\ job' = job /\ pending' = pending
    BY <1>5 DEF SortCurrent
  <2>2. SortInv'
    BY <1>1, <2>1, LoadSorts DEF Types
  <2>3. Listing(out, job.files)
    BY <1>1, <2>1, SortLists DEF Types
  <2>4. Listing(order, job.files)'
    BY <2>1, <2>3 DEF Listing, Injective, Elems, Before, Dep
  <2>5. Types' /\ pending' = <<>>
    BY <1>1, <2>1, <2>4 DEF Types, Load
  <2>6. Schedule'
    BY <2>1, <2>5, NothingPending
  <2> QED BY <2>2, <2>5, <2>6 DEF RunInv
<1>6. CASE Plan
  <2>1. /\ UNCHANGED sorter /\ pc = "current" /\ pc' = "apply"
        /\ db' = db /\ job' = job /\ order' = order
    BY <1>6 DEF Plan
  <2>2. SortInv'
    BY <1>1, <2>1, SortStutters
  <2>3. Types'
    BY <1>1, <2>1, ListingStays DEF Types
  <2> QED BY <1>6, <2>2, <2>3, PlanSchedules DEF RunInv
<1>7. CASE Execute
  <2>1. /\ UNCHANGED sorter /\ pc = "apply" /\ pc' = "apply" /\ job' = job /\ order' = order
    BY <1>7 DEF Execute
  <2>2. SortInv'
    BY <1>1, <2>1, SortStutters
  <2>3. db' \in ViewMaps
    BY <1>7, ExecuteChanges
  <2>4. Types'
    BY <1>1, <2>1, <2>3, ListingStays DEF Types
  <2> QED BY <1>7, <2>2, <2>4, ExecuteSchedules DEF RunInv
<1> QED BY <1>2, <1>3, <1>4, <1>5, <1>6, <1>7 DEF ApplyNext, Step

LEMMA RunsAlways == ApplySpec => []RunInv
<1>1. RunInv /\ UNCHANGED vars => RunInv'
  <2> SUFFICES ASSUME RunInv, UNCHANGED vars PROVE RunInv'
    OBVIOUS
  <2>1. /\ UNCHANGED sorter /\ db' = db /\ job' = job /\ pc' = pc /\ order' = order
        /\ pending' = pending /\ views' = views
    BY DEF vars, sorter
  <2>2. SortInv'
    BY <2>1, SortStutters DEF RunInv
  <2>3. Types'
    BY <2>1, ListingStays DEF RunInv, Types
  <2>4. Schedule'
    BY <2>1 DEF RunInv, Schedule, Due, Put1, Drop1, EachOnce, PutsInOrder, DropsInOrder,
                NothingMissing, Sooner, Before, Cutover!New, Cutover!Unwanted
  <2> QED BY <2>2, <2>3, <2>4 DEF RunInv
<1>2. RunInv /\ [ApplyNext]_vars => RunInv'
  BY <1>1, StepRuns
<1> QED BY InitRuns, <1>2, PTL DEF ApplySpec

-----------------------------------------------------------------------------
(***************************************************************************)
(* Both sorts of an apply are in order, and end early only on a cycle.     *)
(***************************************************************************)
THEOREM AppliesSorted == ApplySpec => [](Ordered /\ StuckOnCycle)
<1>1. SortInv => Ordered /\ StuckOnCycle
  BY SortMeaning
<1>2. RunInv => Ordered /\ StuckOnCycle
  BY <1>1 DEF RunInv
<1> QED BY <1>2, RunsAlways, PTL

(***************************************************************************)
(* Of files that have all they read, the server takes every statement,     *)
(* whatever was there, however often runs died.                            *)
(***************************************************************************)
THEOREM StatementsAccepted == ApplySpec => []NeverRejected
<1>1. ASSUME RunInv, Whole(job.files), pc = "apply", pending # <<>>
      PROVE  Accepts(db, Head(pending))
  <2> DEFINE F == job.files
             s == Head(pending)
             readable == {w \in DOMAIN F : Before(order, w, s.v)}
  <2>1. /\ Put1(s) \/ Drop1(s)
        /\ s.op = "put" => \A w \in DOMAIN F : Before(order, w, s.v) => Cutover!New(w)
        /\ Listing(order, F)
    BY <1>1, HeadDue DEF RunInv, Types
  <2>2. CASE Drop1(s)
    BY <2>2 DEF Drop1, Accepts, Cutover!Unwanted
  <2>3. CASE Put1(s)
    <3>1. s.op = "put" /\ s.v \in DOMAIN F /\ s.reads = F[s.v]
      BY <2>3 DEF Put1
    <3>2. \A x, y, z : Before(order, x, y) /\ Before(order, y, z) => Before(order, x, z)
      BY <2>1, BeforeLemma DEF Listing
    <3>3. ~Before(order, s.v, s.v)
      BY <2>1, BeforeLemma DEF Listing
    <3>4. \A v \in DOMAIN F : \A w \in F[v] : w \in DOMAIN F /\ Before(order, w, v)
      BY <1>1, <2>1 DEF Whole, Listing, Dep
    <3>5. readable \in SUBSET (DOMAIN db \ {s.v})
      BY <2>1, <3>1, <3>3 DEF Cutover!New
    <3>6. s.reads \subseteq readable
      BY <3>1, <3>4
    <3>7. \A w \in readable : db[w] \subseteq readable
      BY <2>1, <3>1, <3>2, <3>4 DEF Cutover!New
    <3> HIDE DEF readable, s
    <3> QED BY <3>1, <3>5, <3>6, <3>7 DEF Accepts, s
  <2> QED BY <2>1, <2>2, <2>3
<1>2. RunInv => NeverRejected
  BY <1>1 DEF NeverRejected
<1> QED BY <1>2, RunsAlways, PTL

(***************************************************************************)
(* Every statement is one that ViewCutover allows: no view gets its body   *)
(* before the wanted ones it reads have theirs, and none goes before the   *)
(* unwanted ones that read it, unless drops are not allowed at all.        *)
(***************************************************************************)
LEMMA ExecuteCutsOver ==
  ASSUME RunInv, Execute
  PROVE  Cutover!Next
<1> DEFINE s == Head(pending)
<1>1. /\ Schedule /\ Types /\ pending # <<>> /\ pc = "apply" /\ Accepts(db, s)
      /\ db' = Effect(db, s) /\ job' = job
  BY DEF RunInv, Execute
<1>2. /\ Put1(s) \/ Drop1(s)
      /\ s.op = "put" =>
           \A w \in DOMAIN job.files : Before(order, w, s.v) => Cutover!New(w)
      /\ s.op = "drop" =>
           \A w \in DOMAIN db : Cutover!Unwanted(w) /\ s.v \in db[w] => w = s.v
      /\ Listing(order, job.files)
  BY <1>1, HeadDue DEF Types
<1> HIDE DEF s
<1>3. CASE Put1(s)
  <2>1. /\ s.op = "put" /\ s.v \in DOMAIN job.files /\ s.reads = job.files[s.v]
        /\ ~Cutover!New(s.v)
    BY <1>3 DEF Put1
  <2>2. job.files[s.v] \subseteq DOMAIN db \ {s.v}
    BY <1>1, <2>1 DEF Accepts
  <2>3. \A w \in job.files[s.v] : w \in DOMAIN db /\ (w \in DOMAIN job.files => Cutover!New(w))
    BY <1>2, <2>1, <2>2 DEF Listing, Dep
  <2>4. db' = [k \in DOMAIN db \cup {s.v} |-> IF k = s.v THEN job.files[s.v] ELSE db[k]]
    BY <1>1, <2>1 DEF Effect, Put
  <2> QED BY <1>1, <2>1, <2>3, <2>4 DEF Cutover!Next, Cutover!Bring
<1>4. CASE Drop1(s)
  <2>1. s.op = "drop" /\ job.allowed /\ Cutover!Unwanted(s.v) /\ s.v \in DOMAIN db
    BY <1>4 DEF Drop1, Cutover!Unwanted
  <2>2. db' = [k \in DOMAIN db \ {s.v} |-> db[k]]
    BY <1>1, <2>1 DEF Effect, Without
  <2> QED BY <1>1, <1>2, <2>1, <2>2 DEF Cutover!Next, Cutover!Remove
<1> QED BY <1>2, <1>3, <1>4

THEOREM CutoverImplemented == ApplySpec => ImplementsCutover
<1>1. ApplyInit => Cutover!Init
  BY ViewScenarioAssumption DEF ApplyInit, Cutover!Init
<1>2. ASSUME RunInv, [ApplyNext]_vars
      PROVE  [Cutover!Next]_<<db, job.files, job.allowed>>
  <2>1. CASE Execute
    BY <1>2, <2>1, ExecuteCutsOver
  <2>2. CASE ~Execute
    BY <1>2, <2>2
       DEF ApplyNext, Step, SortDesired, Sort, Refuse, SortCurrent, Plan, Reject, Finish,
           Crash, vars
  <2> QED BY <2>1, <2>2
<1> QED BY <1>1, <1>2, RunsAlways, PTL DEF ApplySpec, ImplementsCutover, Cutover!Spec

(***************************************************************************)
(* On a server where every body could be read, only views that the files   *)
(* keep with another body, or with one that reads what the files have not, *)
(* are ever left without something they read.                              *)
(***************************************************************************)
LEMMA ExecuteDangles ==
  ASSUME RunInv, Execute, OnlyChangedDangle
  PROVE  OnlyChangedDangle'
<1> DEFINE s == Head(pending)
           F == job.files
<1>1. /\ Schedule /\ Types /\ pending # <<>> /\ Accepts(db, s) /\ db' = Effect(db, s)
      /\ job' = job
  BY DEF RunInv, Execute
<1>2. /\ Put1(s) \/ Drop1(s)
      /\ s.op = "drop" =>
           \A w \in DOMAIN db : Cutover!Unwanted(w) /\ s.v \in db[w] => w = s.v
  BY <1>1, HeadDue
<1> HIDE DEF s
<1> SUFFICES ASSUME Whole(job.start), NEW v \in DOMAIN db', ~(db'[v] \subseteq DOMAIN db')
             PROVE  v \in DOMAIN F /\ (db'[v] # F[v] \/ ~(F[v] \subseteq DOMAIN F))
  BY <1>1 DEF OnlyChangedDangle, Whole
<1>3. CASE Put1(s)
  <2>1. s.op = "put" /\ s.reads = F[s.v]
    BY <1>3 DEF Put1
  <2>2. db' = [k \in DOMAIN db \cup {s.v} |-> IF k = s.v THEN s.reads ELSE db[k]]
    BY <1>1, <2>1 DEF Effect, Put
  <2>3. s.reads \subseteq DOMAIN db
    BY <1>1, <2>1 DEF Accepts
  <2>4. v # s.v /\ v \in DOMAIN db /\ db'[v] = db[v] /\ ~(db[v] \subseteq DOMAIN db)
    BY <2>2, <2>3
  <2> QED BY <2>4 DEF OnlyChangedDangle
<1>4. CASE Drop1(s)
  <2>1. s.op = "drop" /\ Cutover!Unwanted(s.v) /\ s.v \notin DOMAIN F
    BY <1>4 DEF Drop1, Cutover!Unwanted
  <2>2. db' = [k \in DOMAIN db \ {s.v} |-> db[k]]
    BY <1>1, <2>1 DEF Effect, Without
  <2>3. /\ v # s.v /\ v \in DOMAIN db /\ db'[v] = db[v]
        /\ ~(db[v] \subseteq DOMAIN db) \/ s.v \in db[v]
    BY <2>2
  <2>4. CASE ~(db[v] \subseteq DOMAIN db)
    BY <2>3, <2>4 DEF OnlyChangedDangle
  <2>5. CASE s.v \in db[v]
    <3>1. v \in DOMAIN F
      BY <1>2, <2>1, <2>3, <2>5 DEF Cutover!Unwanted
    <3> QED BY <2>1, <2>3, <2>5, <3>1
  <2> QED BY <2>3, <2>4, <2>5
<1> QED BY <1>2, <1>3, <1>4

THEOREM NoViewBroken == ApplySpec => []OnlyChangedDangle
<1>1. ApplyInit => OnlyChangedDangle
  BY DEF ApplyInit, OnlyChangedDangle, Whole
<1>2. ASSUME RunInv, OnlyChangedDangle, [ApplyNext]_vars
      PROVE  OnlyChangedDangle'
  <2>1. CASE Execute
    BY <1>2, <2>1, ExecuteDangles
  <2>2. CASE ~Execute
    <3>1. db' = db /\ job' = job
      BY <1>2, <2>2
         DEF ApplyNext, Step, SortDesired, Sort, Refuse, SortCurrent, Plan, Reject, Finish,
             Crash, vars
    <3> QED BY <1>2, <3>1 DEF OnlyChangedDangle, Whole
  <2> QED BY <2>1, <2>2
<1> QED BY <1>1, <1>2, RunsAlways, PTL DEF ApplySpec

(***************************************************************************)
(* A run that has nothing left to do has brought the wanted views to their *)
(* files and, where drops are allowed, left no other: what has to hold     *)
(* then for Settles, which says that it comes to that.                     *)
(***************************************************************************)
THEOREM EndsReached == ApplySpec => [](pc = "apply" /\ pending = <<>> => Reached)
<1>1. ASSUME RunInv, pc = "apply", pending = <<>>
      PROVE  Reached
  <2>1. DOMAIN pending = {}
    BY <1>1
  <2>2. \A v \in DOMAIN job.files : Cutover!New(v)
    BY <1>1, <2>1 DEF RunInv, Schedule, NothingMissing
  <2>3. job.allowed => DOMAIN db \ DOMAIN job.files = {}
    BY <1>1, <2>1 DEF RunInv, Schedule, NothingMissing
  <2> QED BY <2>2, <2>3 DEF Reached, Cutover!New
<1>2. RunInv => (pc = "apply" /\ pending = <<>> => Reached)
  BY <1>1
<1> QED BY <1>2, RunsAlways, PTL
=============================================================================
