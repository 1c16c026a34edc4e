--------------------------- MODULE PartitionApply ---------------------------
(***************************************************************************)
(* `myschema apply` on one partitioned table: clients that read its        *)
(* partition clause, diff it with the desired one and run the statements   *)
(* one by one, die in between and are started again.                       *)
(*                                                                         *)
(* The application keeps writing: whatever value a partition takes, there  *)
(* are rows with it.  What MySQL does with the statements is stated here   *)
(* from its errors and from PARTITIONING.md.                               *)
(***************************************************************************)
EXTENDS PartitionDiff

CONSTANTS
  Clients,    \* concurrent runs of the same desired files
  Scenarios,  \* clauses to start from, desired clauses and --allow-drop lists
  MaxCrashes  \* how often a client may die

Increasing(l) == \A i, j \in Slots(l) : i < j => l.defs[i].to < l.defs[j].to

Disjoint(l) ==
  \A v \in Values : \A i, j \in Slots(l) : v \in l.defs[i].in /\ v \in l.defs[j].in => i = j

DistinctNames(l) == \A i, j \in Slots(l) : l.defs[i].name = l.defs[j].name => i = j

(***************************************************************************)
(* Errors 1493 and 1481, 1495, 1517, and 1492 or 1504.  A clause without   *)
(* PARTITIONS n means one partition.                                       *)
(***************************************************************************)
Number(l) == IF l.count = Unset THEN 1 ELSE l.count

Creatable(l) ==
  /\ ByRange(l) => Increasing(l)
  /\ Disjoint(l)
  /\ DistinctNames(l)
  /\ IF l.kind = "HASH" THEN Number(l) > 0 ELSE l.kind = "none" \/ l.defs # <<>>

PartitionScenario(x) ==
  /\ DOMAIN x = {"cur", "des", "allow", "runs"}
  /\ x.runs \in SUBSET Clients \ {{}}
  /\ x.cur \in Layout /\ WellFormed(x.cur) /\ Creatable(x.cur)
  /\ x.des \in Layout /\ WellFormed(x.des)
  /\ x.allow \subseteq {"table", "partition", "all"}

ASSUME PartitionScenarioAssumption == \A x \in Scenarios : PartitionScenario(x)

ASSUME PartitionBoundAssumption == MaxCrashes \in Nat

VARIABLES
  layout,   \* the partition clause on the server
  lost,     \* values whose rows a statement has thrown away
  job,      \* the scenario
  pc,       \* what each client does next
  snap,     \* the clause it has read
  pending,  \* its statements still to run
  skipped,  \* what it reports as skipped
  crashes

vars == <<layout, lost, job, pc, snap, pending, skipped, crashes>>

-----------------------------------------------------------------------------
(***************************************************************************)
(* The server.                                                             *)
(***************************************************************************)
Takes(l, i, v) ==
  IF ByRange(l) THEN v < l.defs[i].to /\ \A j \in 1..(i - 1) : l.defs[j].to <= v
  ELSE v \in l.defs[i].in

HomeOf(l, v)  == {i \in Slots(l) : Takes(l, i, v)}
Homed(l)      == {v \in Values : l.kind \in {"none", "HASH"} \/ HomeOf(l, v) # {}}
HeldBy(l, ns) == {v \in Values : \E i \in HomeOf(l, v) : l.defs[i].name \in ns}
Elements(seq) == {seq[i] : i \in DOMAIN seq}

Splice(l, first, last, into) ==
  [l EXCEPT !.defs = SubSeq(@, 1, first - 1) \o into \o SubSeq(@, last + 1, Len(@))]

Pick(l, slots) == [l EXCEPT !.defs = [k \in DOMAIN slots |-> l.defs[slots[k]]]]

(***************************************************************************)
(* The slots that a REORGANIZE names, in order; none or several: 1519.     *)
(***************************************************************************)
Named(l, names) ==
  {first \in Slots(l) :
     /\ first + Len(names) - 1 \in Slots(l)
     /\ \A k \in DOMAIN names : l.defs[first + k - 1].name = names[k]}

(***************************************************************************)
(* Error 1520: only the end of the last partition may move, and only up.   *)
(***************************************************************************)
KeepsTotalRange(l, last, into) ==
  ByRange(l) =>
    IF last = Len(l.defs) THEN l.defs[last].to <= into[Len(into)].to
    ELSE l.defs[last].to = into[Len(into)].to

Results(l, s) ==
  CASE s.op = "Reorganize" ->
         {Splice(l, first, first + Len(s.names) - 1, s.into) :
            first \in {f \in Named(l, s.names) : KeepsTotalRange(l, f + Len(s.names) - 1, s.into)}}
    [] s.op = "Add"      -> {[l EXCEPT !.defs = @ \o s.into]}
    [] s.op = "Drop"     -> IF Elements(s.names) \subseteq NamesOf(l)
                            THEN {Pick(l, kept) :
                                    kept \in Ascending({i \in Slots(l) : l.defs[i].name \notin Elements(s.names)})}
                            ELSE {}
    [] s.op = "AddCount" -> {[l EXCEPT !.count = Number(l) + s.n]}
    [] s.op = "Coalesce" -> IF s.n < Number(l) THEN {[l EXCEPT !.count = Number(l) - s.n]} ELSE {}

Accepted(l, s) == {r \in Results(l, s) : Creatable(r)}

(***************************************************************************)
(* DROP throws the rows of its partitions away, REORGANIZE those that no   *)
(* partition takes any more.                                               *)
(***************************************************************************)
Loss(l, s, r) ==
  IF s.op = "Drop" THEN HeldBy(l, Elements(s.names)) ELSE Homed(l) \ Homed(r)

-----------------------------------------------------------------------------
Init ==
  /\ job \in Scenarios
  /\ layout = job.cur
  /\ lost = {}
  /\ pc = [p \in Clients |-> IF p \in job.runs THEN "start" ELSE "absent"]
  /\ snap = [p \in Clients |-> job.cur]
  /\ pending = [p \in Clients |-> {}]
  /\ skipped = [p \in Clients |-> {}]
  /\ crashes = 0

Refuse(p) ==
  /\ pc[p] = "start"
  /\ PartitionsRefused(layout, job.des, job.allow)
  /\ pc' = [pc EXCEPT ![p] = "refused"]
  /\ UNCHANGED <<layout, lost, job, snap, pending, skipped, crashes>>

Plan(p) ==
  /\ pc[p] = "start"
  /\ ~PartitionsRefused(layout, job.des, job.allow)
  /\ snap' = [snap EXCEPT ![p] = layout]
  /\ pending' = [pending EXCEPT ![p] = PartitionsPlanned(layout, job.des, job.allow)]
  /\ skipped' = [skipped EXCEPT ![p] = PartitionsSkipped(layout, job.des, job.allow)]
  /\ pc' = [pc EXCEPT ![p] = "exec"]
  /\ UNCHANGED <<layout, lost, job, crashes>>

Ready(p) == IF pc[p] = "exec" THEN NextOf(pending[p]) ELSE {}

Exec(p, s) ==
  /\ \E r \in Accepted(layout, s) :
       /\ layout' = r
       /\ lost' = lost \cup Loss(layout, s, r)
  /\ pending' = [pending EXCEPT ![p] = @ \ {s}]
  /\ UNCHANGED <<job, pc, snap, skipped, crashes>>

Fail(p) ==
  /\ pc' = [pc EXCEPT ![p] = "failed"]
  /\ pending' = [pending EXCEPT ![p] = {}]
  /\ skipped' = [skipped EXCEPT ![p] = {}]
  /\ UNCHANGED <<layout, lost, job, snap>>

Reject(p, s) ==
  /\ Accepted(layout, s) = {}
  /\ Fail(p)
  /\ UNCHANGED crashes

Finish(p) ==
  /\ pc[p] = "exec"
  /\ pending[p] = {}
  /\ pc' = [pc EXCEPT ![p] = "done"]
  /\ UNCHANGED <<layout, lost, job, snap, pending, skipped, crashes>>

(***************************************************************************)
(* A killed process, and the next run with the same files.                 *)
(***************************************************************************)
Crash(p) ==
  /\ pc[p] = "exec"
  /\ crashes < MaxCrashes
  /\ crashes' = crashes + 1
  /\ Fail(p)

Rerun(p) ==
  /\ pc[p] = "failed"
  /\ pc' = [pc EXCEPT ![p] = "start"]
  /\ UNCHANGED <<layout, lost, job, snap, pending, skipped, crashes>>

Step(p) ==
  \/ Refuse(p)
  \/ Plan(p)
  \/ \E s \in Ready(p) : Exec(p, s) \/ Reject(p, s)
  \/ Finish(p)

Next == \E p \in Clients : Step(p) \/ Crash(p) \/ Rerun(p)

Spec == Init /\ [][Next]_vars

FairSpec == Spec /\ \A p \in Clients : WF_vars(Step(p) \/ Rerun(p))
=============================================================================
