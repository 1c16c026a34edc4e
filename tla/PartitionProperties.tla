------------------------ MODULE PartitionProperties ------------------------
(***************************************************************************)
(* What a change of partitions must be: legal at every step, to be         *)
(* continued after any of them, no more work than the files ask for, and   *)
(* never the end of a row the operator has not given up.                   *)
(***************************************************************************)
EXTENDS PartitionApply

TypeOK ==
  /\ layout \in Layout /\ Creatable(layout)
  /\ lost \subseteq Values
  /\ PartitionScenario(job)
  /\ pc \in [Clients -> {"start", "exec", "done", "failed", "refused", "absent"}]
  /\ snap \in [Clients -> Layout]
  /\ pending \in [Clients -> SUBSET PartitionStatement]
  /\ skipped \in [Clients -> SUBSET PartitionStatement]
  /\ crashes \in 0..MaxCrashes

Folded(l) ==
  [kind |-> l.kind, scheme |-> l.scheme, count |-> IF l.kind = "HASH" THEN Number(l) ELSE 0,
   defs |-> [i \in Slots(l) |->
     [name |-> l.defs[i].name, to |-> l.defs[i].to, in |-> l.defs[i].in, option |-> l.defs[i].option]]]

Agrees(a, b) == Folded(a) = Folded(b)

-----------------------------------------------------------------------------
(***************************************************************************)
(* The server takes every statement of a plan that nobody interferes with  *)
(* (PARTITIONING.md: what is generated "doesn't need a workaround"; invalid*)
(* clauses are refused "at plan time").  Intermediate layouts have to be   *)
(* legal too.  Left to the server, as PARTITIONING.md says or by the code: *)
(* the order of bounds that are expressions, the same name twice, the last *)
(* bound made smaller, and files that leave no partition or do not say how *)
(* many.                                                                   *)
(***************************************************************************)
UnorderedExpressions(des) ==
  ByRange(des) /\ ~Increasing(des) /\ \E d \in Elements(des.defs) : d.to \notin Literals \cup {MaxValue}

EndShrinks(cur, des) ==
  /\ ByRange(cur) /\ NameListEqual(cur, des)
  /\ des.defs[Len(des.defs)].to < cur.defs[Len(cur.defs)].to

Emptied(des) == IF des.kind = "HASH" THEN des.count < 1 ELSE des.defs = <<>>

\* One run at a time, crashed ones included.
Alone == \A p, q \in job.runs : p = q

NeverRejected ==
  Alone => \A p \in Clients : \A s \in Ready(p) :
    \/ Accepted(layout, s) # {}
    \/ UnorderedExpressions(job.des)
    \/ ~DistinctNames(job.des)
    \/ EndShrinks(snap[p], job.des)
    \/ Emptied(job.des)

(***************************************************************************)
(* However far a run got before it died, a plan made then consists of the  *)
(* statements that were left: no second rewrite of a partition, no refusal *)
(* of files that were accepted before, no DROP that was not in the plan.   *)
(* The difference to a number the server does not spell out is wrong.      *)
(***************************************************************************)
Uncounted(l) == l.kind = "HASH" /\ l.count = Unset

Resumes ==
  Alone /\ ~Uncounted(job.cur) => \A p \in Clients : pc[p] = "exec" =>
    /\ ~PartitionsRefused(layout, job.des, job.allow)
    /\ PartitionsPlanned(layout, job.des, job.allow) = pending[p]

(***************************************************************************)
(* A run that ends well leaves the desired clause, or reports every        *)
(* statement it lacks: the next plan has nothing else to do.               *)
(***************************************************************************)
DoneConverged ==
  Alone /\ ~Uncounted(job.cur) => \A p \in Clients : pc[p] = "done" =>
    \/ Agrees(layout, job.des)
    \/ /\ skipped[p] # {}
       /\ PartitionsPlanned(layout, job.des, job.allow) = {}

(***************************************************************************)
(* PARTITIONING.md: "the diff is shaped to keep the rewrite proportional   *)
(* to the diff".  A REORGANIZE by RANGE that the server carries out reads  *)
(* and writes only partitions whose options or whose interval, the bound   *)
(* below included, are to change; by LIST, as long as no partition is to   *)
(* lose a value, only those that are themselves to change.                 *)
(***************************************************************************)
Slot(l, n) == CHOOSE i \in Slots(l) : l.defs[i].name = n

BoundBelow(l, n) == IF Slot(l, n) = 1 THEN {} ELSE {l.defs[Slot(l, n) - 1].to}

ToChange(l, des, n) ==
  \/ n \notin NamesOf(des)
  \/ ~DefEqual(l.defs[Slot(l, n)], des.defs[Slot(des, n)])
  \/ ByRange(l) /\ BoundBelow(l, n) # BoundBelow(des, n)

SomeValueMoves(l, des) ==
  ~ByRange(l) /\ \E n \in NamesOf(l) :
    n \in NamesOf(des) /\ ~ (l.defs[Slot(l, n)].in \subseteq des.defs[Slot(des, n)].in)

RewritesOnlyChanged ==
  Alone => \A p \in Clients : \A s \in Ready(p) :
    s.op = "Reorganize" /\ Accepted(layout, s) # {} =>
      \/ SomeValueMoves(layout, job.des)
      \/ \A n \in Elements(s.names) : ToChange(layout, job.des, n)

-----------------------------------------------------------------------------
(***************************************************************************)
(* Rows are kept as the abstract specification Custody has it, with the    *)
(* values for the places: rows are thrown away only if the operator allowed*)
(* to drop partitions, and even then only rows of a partition that is not  *)
(* desired any more, or with a value that no desired partition takes.      *)
(***************************************************************************)
Claimed(x) ==
  {v \in Homed(x.des) : \A i \in HomeOf(x.cur, v) : x.cur.defs[i].name \in NamesOf(x.des)}

Nowhere == MaxValue

Rows == INSTANCE Custody WITH
  Places  <- Values,
  Nowhere <- Nowhere,
  cell    <- [v \in Values |-> IF v \in lost THEN Nowhere ELSE v],
  deed    <- [claimed |-> Claimed(job), renames |-> {}, discard |-> PartitionAllowed(job.allow)]

ImplementsCustody == Rows!Spec

(***************************************************************************)
(* Two runs of the same RANGE or LIST files at the same time, whichever of *)
(* their statements fail, end with the desired clause once repeated: what  *)
(* one has added or reorganized the other does not undo.  Not so for HASH: *)
(* ADD PARTITION PARTITIONS n of two plans adds 2n.                        *)
(***************************************************************************)
Settles == ~Alone => <>[] (Agrees(layout, job.des) /\ \A p \in job.runs : pc[p] = "done")
=============================================================================
