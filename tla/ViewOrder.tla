------------------------------ MODULE ViewOrder ------------------------------
(***************************************************************************)
(* topoSortViews (diff/views.go): Kahn's algorithm with counters and a     *)
(* queue, over the views of one schema.  DiffViews calls it twice, once    *)
(* for the desired views and once for the current ones.                    *)
(*                                                                         *)
(* A view is its name, and a name its rank in alphabetical order.          *)
(***************************************************************************)
EXTENDS Integers, Sequences, FiniteSets

CONSTANT Views  \* names that a view or another relation may have

ASSUME ViewsAssumption == Views \subseteq Int /\ IsFiniteSet(Views)

VARIABLES
  views,  \* the map handed in: what the body of each view refers to
  indeg,  \* references of a view that are not placed yet
  queue,  \* views to place next
  out     \* the views placed, in order

sorter == <<views, indeg, queue, out>>

(***************************************************************************)
(* ViewReferences drops repetitions.                                       *)
(***************************************************************************)
ViewMaps == UNION {[d -> SUBSET Views] : d \in SUBSET Views}

Placed == {out[i] : i \in DOMAIN out}

(***************************************************************************)
(* References to itself and to what is no view of the map do not count.    *)
(***************************************************************************)
Dep(g, k) == {r \in g[k] : r # k /\ r \in DOMAIN g}
Rev(g, n) == {k \in DOMAIN g : n \in Dep(g, k)}

(***************************************************************************)
(* slices.Sort: the one sequence that lists a set in ascending order.      *)
(***************************************************************************)
Sorted(set) ==
  {s \in [1..Cardinality(set) -> set] :
     /\ \A k \in set : \E i \in DOMAIN s : s[i] = k
     /\ \A i, j \in DOMAIN s : i < j => s[i] < s[j]}

Init ==
  /\ views = [k \in {} |-> {}]
  /\ indeg = [k \in {} |-> 0]
  /\ queue = <<>>
  /\ out = <<>>

Load(g) ==
  /\ queue = <<>>
  /\ views' = g
  /\ indeg' = [k \in DOMAIN g |-> Cardinality(Dep(g, k))]
  /\ queue' \in Sorted({k \in DOMAIN g : Dep(g, k) = {}})
  /\ out' = <<>>

(***************************************************************************)
(* One turn of the loop.  What it releases goes to the end of the queue.   *)
(***************************************************************************)
Counted(n) == [k \in DOMAIN indeg |-> IF k \in Rev(views, n) THEN indeg[k] - 1 ELSE indeg[k]]

\* Mutants: a reader is released by the first of its references; or by one
\* more than it has.
ReleasedOnFirst(n) == {k \in Rev(views, n) : k \notin Placed}
ReleasedLate(n)    == {k \in Rev(views, n) : indeg[k] = 0}

Released(n) == {k \in Rev(views, n) : indeg[k] = 1}

Visit ==
  /\ queue # <<>>
  /\ LET n == Head(queue)
     IN  /\ out' = Append(out, n)
         /\ indeg' = Counted(n)
         /\ \E next \in Sorted(Released(n)) : queue' = Tail(queue) \o next
  /\ UNCHANGED views

Next == Visit \/ \E g \in ViewMaps : Load(g)

Spec == Init /\ [][Next]_sorter

(***************************************************************************)
(* The error "circular view dependency".                                   *)
(***************************************************************************)
Circular == queue = <<>> /\ Len(out) # Cardinality(DOMAIN views)

-----------------------------------------------------------------------------
(***************************************************************************)
(* No view is placed before one that it reads, or twice.  (The queue is    *)
(* first in first out and fed by counters; one released too early, or      *)
(* twice, would make a CREATE VIEW name a view that does not exist yet.)   *)
(***************************************************************************)
Ordered ==
  /\ \A i \in DOMAIN out : Dep(views, out[i]) \subseteq {out[j] : j \in 1..(i - 1)}
  /\ \A i, j \in DOMAIN out : out[i] = out[j] => i = j

(***************************************************************************)
(* When the queue runs dry early, every view left over reads another one   *)
(* left over: the error is given for a cycle and for nothing else, and a   *)
(* cycle is never missed.                                                  *)
(***************************************************************************)
StuckOnCycle ==
  queue = <<>> => \A k \in DOMAIN views \ Placed : Dep(views, k) \ Placed # {}
=============================================================================
