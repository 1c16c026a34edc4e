------------------------------ MODULE ViewApply ------------------------------
(***************************************************************************)
(* DiffViews and the part of an apply that runs its statements: both       *)
(* schemas are sorted, views that the files do not have are dropped first, *)
(* the others are created or replaced.  A run may die between statements;  *)
(* the next one diffs again.                                               *)
(***************************************************************************)
EXTENDS ViewOrder

CONSTANTS
  ViewScenarios,  \* views on the server, views in the files, drops allowed
  MaxCrashes

ASSUME ViewScenarioAssumption ==
  \A x \in ViewScenarios :
    /\ x.start \in ViewMaps /\ x.files \in ViewMaps
    /\ x.allowed \in BOOLEAN

ASSUME CrashBoundAssumption == MaxCrashes \in Nat

VARIABLES
  db,       \* the views on the server
  job,      \* the scenario
  pc,
  order,    \* the desired views, sorted
  pending,  \* statements still to run
  crashes

vars == <<sorter, db, job, pc, order, pending, crashes>>

-----------------------------------------------------------------------------
(***************************************************************************)
(* The server drops a view whatever reads it, and creates or replaces one  *)
(* when everything its body reads can be read (1146, 1356) and none of it  *)
(* reads the view (1462): without the view there are some that have what   *)
(* they read among themselves, the ones in the body included.              *)
(***************************************************************************)
Put(d, v, body) == [k \in DOMAIN d \cup {v} |-> IF k = v THEN body ELSE d[k]]
Without(d, v)   == [k \in DOMAIN d \ {v} |-> d[k]]

Accepts(d, s) ==
  CASE s.op = "drop" -> s.v \in DOMAIN d
    [] s.op = "put"  -> \E readable \in SUBSET (DOMAIN d \ {s.v}) :
                          /\ s.reads \subseteq readable
                          /\ \A w \in readable : d[w] \subseteq readable

Effect(d, s) == IF s.op = "drop" THEN Without(d, s.v) ELSE Put(d, s.v, s.reads)

-----------------------------------------------------------------------------
(***************************************************************************)
(* The two loops of DiffViews.  Each goes along a sorted list and passes   *)
(* over what it need not touch.                                            *)
(***************************************************************************)
Kept(listed, set) ==
  LET at == CHOOSE a \in Sorted({i \in DOMAIN listed : listed[i] \in set}) : TRUE
  IN  [i \in DOMAIN at |-> listed[at[i]]]

Puts(kept, des) == [i \in DOMAIN kept |-> [op |-> "put", v |-> kept[i], reads |-> des[kept[i]]]]

Stale(cur, des) == {v \in DOMAIN des : v \notin DOMAIN cur \/ cur[v] # des[v]}

\* Mutants: in the order of the names; and what exists is not replaced.
CreateStmtsByName(cur, des, listed) ==
  Puts(CHOOSE s \in Sorted(Stale(cur, des)) : TRUE, des)
CreateStmtsOnlyNew(cur, des, listed) == Puts(Kept(listed, DOMAIN des \ DOMAIN cur), des)

CreateStmts(cur, des, listed) == Puts(Kept(listed, Stale(cur, des)), des)

\* Mutant: in the order the views were sorted.
DropStmtsForward(cur, des, listed, allowed) ==
  LET gone == Kept(listed, DOMAIN cur \ DOMAIN des)
  IN  IF allowed THEN [i \in DOMAIN gone |-> [op |-> "drop", v |-> gone[i]]] ELSE <<>>

DropStmts(cur, des, listed, allowed) ==
  LET gone == Kept(listed, DOMAIN cur \ DOMAIN des)
      n    == Len(gone)
  IN  IF allowed THEN [i \in 1..n |-> [op |-> "drop", v |-> gone[n + 1 - i]]] ELSE <<>>

ApplyInit ==
  /\ Init
  /\ job \in ViewScenarios
  /\ db = job.start
  /\ pc = "idle"
  /\ order = <<>>
  /\ pending = <<>>
  /\ crashes = 0

SortDesired ==
  /\ pc = "idle"
  /\ Load(job.files)
  /\ pc' = "desired"
  /\ UNCHANGED <<db, job, order, pending, crashes>>

Sort ==
  /\ pc \in {"desired", "current"}
  /\ Visit
  /\ UNCHANGED <<db, job, pc, order, pending, crashes>>

Refuse ==
  /\ pc \in {"desired", "current"}
  /\ Circular
  /\ pc' = "refused"
  /\ UNCHANGED <<sorter, db, job, order, pending, crashes>>

SortCurrent ==
  /\ pc = "desired"
  /\ queue = <<>> /\ ~Circular
  /\ order' = out
  /\ Load(db)
  /\ pc' = "current"
  /\ UNCHANGED <<db, job, pending, crashes>>

Plan ==
  /\ pc = "current"
  /\ queue = <<>> /\ ~Circular
  /\ pending' = DropStmts(views, job.files, out, job.allowed)
                  \o CreateStmts(views, job.files, order)
  /\ pc' = "apply"
  /\ UNCHANGED <<sorter, db, job, order, crashes>>

Execute ==
  /\ pc = "apply"
  /\ pending # <<>>
  /\ Accepts(db, Head(pending))
  /\ db' = Effect(db, Head(pending))
  /\ pending' = Tail(pending)
  /\ UNCHANGED <<sorter, job, pc, order, crashes>>

Reject ==
  /\ pc = "apply"
  /\ pending # <<>>
  /\ ~Accepts(db, Head(pending))
  /\ pc' = "idle"
  /\ pending' = <<>>
  /\ UNCHANGED <<sorter, db, job, order, crashes>>

Finish ==
  /\ pc = "apply"
  /\ pending = <<>>
  /\ pc' = "idle"
  /\ UNCHANGED <<sorter, db, job, order, pending, crashes>>

Crash ==
  /\ pc = "apply"
  /\ crashes < MaxCrashes
  /\ crashes' = crashes + 1
  /\ pending' = <<>>
  /\ pc' = "idle"
  /\ UNCHANGED <<sorter, db, job, order>>

Step ==
  \/ SortDesired \/ Sort \/ Refuse \/ SortCurrent \/ Plan
  \/ Execute \/ Reject \/ Finish

ApplyNext == Step \/ Crash

ApplySpec == ApplyInit /\ [][ApplyNext]_vars

(***************************************************************************)
(* A run goes on while it is alive, and somebody starts the next one.      *)
(***************************************************************************)
FairSpec == ApplySpec /\ WF_vars(Step)
=============================================================================
