--------------------------- MODULE PartitionDiff ---------------------------
(***************************************************************************)
(* The partition clause of one table, and the ALTER TABLE statements that  *)
(* diffPartitions orders to lead from the clause in the catalog to the one *)
(* in the desired files.  Names and expressions are compared as they are   *)
(* after parsing; MySQL folds the case of a partition's name, so how it is *)
(* spelled is kept apart from it.                                          *)
(***************************************************************************)
EXTENDS Integers, Sequences, FiniteSets

CONSTANTS
  PartitionNames,  \* names, their case folded
  Spellings,       \* ways to spell one
  Bounds,          \* the expressions b in VALUES LESS THAN (b), by their value
  Literals,        \* those that are integer literals and fit into 64 bits
  MaxValue,        \* VALUES LESS THAN MAXVALUE
  Values,          \* values the partitioning expression takes in rows
  Options,         \* COMMENT, MAX_ROWS and the like
  Schemes          \* partitioning expressions and column lists

ASSUME BoundsAssumption ==
  /\ Bounds \subseteq Int
  /\ Literals \subseteq Bounds
  /\ Values \subseteq Int
  /\ MaxValue \in Int
  /\ \A b \in Bounds \cup Values : b < MaxValue

Kinds == {"none", "HASH", "RANGE", "RANGE COLUMNS", "LIST"}

(***************************************************************************)
(* A RANGE partition has a bound and no list, a LIST partition a list and  *)
(* no bound; HASH and KEY have a number of partitions only.  Without       *)
(* PARTITIONS n the number is -1.                                          *)
(***************************************************************************)
Definition ==
  [name : PartitionNames, spelling : Spellings,
   to : Bounds \cup {MaxValue}, in : SUBSET Values, option : Options]

Unset == -1

Layout ==
  [kind : Kinds, scheme : Schemes, defs : Seq(Definition), count : Nat \cup {Unset}]

ByRange(l) == l.kind \in {"RANGE", "RANGE COLUMNS"}
Slots(l)   == DOMAIN l.defs
NamesOf(l) == {l.defs[i].name : i \in Slots(l)}

WellFormed(l) ==
  /\ ByRange(l) => \A i \in Slots(l) : l.defs[i].in = {}
  /\ l.kind \in {"none", "HASH"} => l.defs = <<>>

(***************************************************************************)
(* ALTER TABLE ... op; at is the first slot it is about.                   *)
(***************************************************************************)
PartitionStatement ==
  [op    : {"Reorganize", "Add", "Drop", "AddCount", "Coalesce"},
   at    : Nat,
   names : Seq(PartitionNames),
   into  : Seq(Definition),
   n     : Nat]

Alter(op, at, names, into, n) ==
  [op |-> op, at |-> at, names |-> names, into |-> into, n |-> n]

-----------------------------------------------------------------------------
(***************************************************************************)
(* Comparisons: a name's spelling and the order of a list do not count.    *)
(***************************************************************************)
DefEqual(a, b) == a = [b EXCEPT !.spelling = a.spelling]

HeaderEqual(cur, des) == cur.kind = des.kind /\ cur.scheme = des.scheme

NameListEqual(cur, des) ==
  /\ Slots(cur) = Slots(des)
  /\ \A i \in Slots(cur) : cur.defs[i].name = des.defs[i].name

\* Mutant: the per-partition options left out.
ChangedValues(cur, des) ==
  {i \in Slots(cur) : cur.defs[i].to # des.defs[i].to \/ cur.defs[i].in # des.defs[i].in}

Changed(cur, des) == {i \in Slots(cur) : ~DefEqual(cur.defs[i], des.defs[i])}

-----------------------------------------------------------------------------
(***************************************************************************)
(* What is refused before anything is ordered.                             *)
(***************************************************************************)
\* Mutant: each partition compared with the next one only.
ListOverlapNext(des) ==
  \E i, j \in Slots(des) : j = i + 1 /\ des.defs[i].in \cap des.defs[j].in # {}

ListOverlap(des) ==
  \E i, j \in Slots(des) : i # j /\ des.defs[i].in \cap des.defs[j].in # {}

(***************************************************************************)
(* Bound b does not come after bound a.  Of two expressions only the text  *)
(* is known.                                                               *)
(***************************************************************************)
NotAfter(a, b) ==
  \/ a = MaxValue
  \/ b # MaxValue /\ IF {a, b} \subseteq Literals THEN b <= a ELSE b = a

NotMonotonic(des) ==
  /\ ByRange(des)
  /\ \E i \in Slots(des) : i > 1 /\ NotAfter(des.defs[i - 1].to, des.defs[i].to)

ListValues(l) == UNION {l.defs[i].in : i \in Slots(l)}

\* Mutant: only the values that no partition ever had.
DiscardsAll(cur, des) ==
  cur.kind = "LIST" /\ ListValues(cur) \cap ListValues(des) = {}

Discards(cur, des) == cur.kind = "LIST" /\ ~ (ListValues(cur) \subseteq ListValues(des))

-----------------------------------------------------------------------------
(***************************************************************************)
(* The same names in the same slots: REORGANIZE.  By RANGE one statement   *)
(* per run of changed slots, and with the slot behind it when the bound    *)
(* between them moves.  By LIST one per run when no list loses a value,    *)
(* else a single one from the first to the last changed slot.              *)
(***************************************************************************)
\* Mutant: the scan continues behind a run's first slot, not behind its last.
RunsRepeated(cur, des) ==
  LET C == Changed(cur, des)
  IN  {r \in C \X C : r[1] <= r[2] /\ r[1] .. r[2] \subseteq C /\ r[2] + 1 \notin C}

Runs(cur, des) ==
  LET C == Changed(cur, des)
  IN  {r \in C \X C : r[1] <= r[2] /\ r[1] .. r[2] \subseteq C /\ r[1] - 1 \notin C /\ r[2] + 1 \notin C}

\* Mutants: no slot behind the run, or always one.
NoCascade(cur, des, last) == last
AnyCascade(cur, des, last) == IF last < Len(cur.defs) THEN last + 1 ELSE last

Cascade(cur, des, last) ==
  IF last < Len(cur.defs) /\ cur.defs[last].to # des.defs[last].to THEN last + 1 ELSE last

ReorganizeRun(cur, des, first, last) ==
  LET Body(i) == IF i \in Changed(cur, des) THEN des.defs[i] ELSE cur.defs[i]
      size == last - first + 1
  IN  Alter("Reorganize", first, [k \in 1..size |-> cur.defs[first + k - 1].name],
            [k \in 1..size |-> Body(first + k - 1)], 0)

\* Mutant: every plan in runs.
AlwaysSuperset(cur, des) == TRUE

ChangedAreSupersets(cur, des) ==
  \A i \in Changed(cur, des) : cur.defs[i].in \subseteq des.defs[i].in

Span(cur, des) ==
  LET C == Changed(cur, des)
  IN  {r \in C \X C : \A i \in C : r[1] <= i /\ i <= r[2]}

Rewrites(cur, des) ==
  IF ByRange(cur)
  THEN {ReorganizeRun(cur, des, r[1], Cascade(cur, des, r[2])) : r \in Runs(cur, des)}
  ELSE {ReorganizeRun(cur, des, r[1], r[2]) :
          r \in IF ChangedAreSupersets(cur, des) THEN Runs(cur, des) ELSE Span(cur, des)}

-----------------------------------------------------------------------------
(***************************************************************************)
(* New partitions just before an unchanged MAXVALUE partition: REORGANIZE  *)
(* of that one.                                                            *)
(***************************************************************************)
Extras(cur, des) == SubSeq(des.defs, Len(cur.defs), Len(des.defs) - 1)

CatchAllInsert(cur, des) ==
  LET n == Len(cur.defs)
      m == Len(des.defs)
      extras == Extras(cur, des)
  IN  /\ cur.kind = "RANGE"
      /\ 0 < n /\ n < m
      /\ cur.defs[n].to = MaxValue
      /\ DefEqual(cur.defs[n], des.defs[m])
      /\ \A i \in 1..(n - 1) : DefEqual(cur.defs[i], des.defs[i])
      /\ \A i \in DOMAIN extras :
           /\ extras[i].name \notin NamesOf(cur)
           /\ \A j \in DOMAIN extras : extras[i].name = extras[j].name => i = j

CatchAllStmts(cur, des) ==
  LET last == cur.defs[Len(cur.defs)]
  IN  {Alter("Reorganize", Len(cur.defs), <<last.name>>, Append(Extras(cur, des), last), 0)}

-----------------------------------------------------------------------------
(***************************************************************************)
(* Otherwise DROP of what is not the next desired partition, or ADD of the *)
(* desired ones left over.  Consumed[i]: how many are found after slot i.  *)
(***************************************************************************)
Consumed(cur, des) ==
  LET f[i \in 0..Len(cur.defs)] ==
        IF i = 0 THEN 0
        ELSE IF f[i - 1] < Len(des.defs) /\ DefEqual(cur.defs[i], des.defs[f[i - 1] + 1])
             THEN f[i - 1] + 1
             ELSE f[i - 1]
  IN  f

Dropped(cur, des) ==
  LET f == Consumed(cur, des) IN {i \in Slots(cur) : f[i] = f[i - 1]}

Added(cur, des) ==
  SubSeq(des.defs, Consumed(cur, des)[Len(cur.defs)] + 1, Len(des.defs))

Reshaped(cur, des) ==
  /\ ~NameListEqual(cur, des)
  /\ ~CatchAllInsert(cur, des)
  /\ Dropped(cur, des) # {}
  /\ Added(cur, des) # <<>>

AddStmts(cur, des) ==
  IF Added(cur, des) = <<>> THEN {}
  ELSE {Alter("Add", Len(cur.defs) + 1, <<>>, Added(cur, des), 0)}

\* The one sequence that lists a set of slots in ascending order.
Ascending(slots) ==
  {a \in [1..Cardinality(slots) -> slots] : \A j, k \in DOMAIN a : j < k => a[j] < a[k]}

DropStmts(cur, des) ==
  IF Dropped(cur, des) = {} THEN {}
  ELSE {Alter("Drop", 0, [k \in DOMAIN gone |-> cur.defs[gone[k]].name], <<>>, 0) :
          gone \in Ascending(Dropped(cur, des))}

-----------------------------------------------------------------------------
(***************************************************************************)
(* HASH and KEY: only the number of partitions can differ.                 *)
(***************************************************************************)
\* Mutant: no case for less.
CountStmtsGrowing(cur, des) ==
  IF cur.count = des.count THEN {}
  ELSE {Alter("AddCount", 0, <<>>, <<>>, des.count - cur.count)}

CountStmts(cur, des) ==
  IF cur.count < des.count THEN {Alter("AddCount", 0, <<>>, <<>>, des.count - cur.count)}
  ELSE IF des.count < cur.count THEN {Alter("Coalesce", 0, <<>>, <<>>, cur.count - des.count)}
  ELSE {}

-----------------------------------------------------------------------------
PartitionAllowed(allow) == allow \cap {"partition", "all"} # {}

Gated(s) == s.op \in {"Drop", "Coalesce"}

PartitionsRefused(cur, des, allow) ==
  /\ cur # des
  /\ \/ ListOverlap(des)
     \/ NotMonotonic(des)
     \/ ~HeaderEqual(cur, des)
     \/ NameListEqual(cur, des) /\ Discards(cur, des) /\ ~PartitionAllowed(allow)
     \/ Reshaped(cur, des)

Ordered(cur, des) ==
  IF cur = des THEN {}
  ELSE IF cur.kind = "HASH" THEN CountStmts(cur, des)
  ELSE IF NameListEqual(cur, des) THEN Rewrites(cur, des)
  ELSE IF CatchAllInsert(cur, des) THEN CatchAllStmts(cur, des)
  ELSE AddStmts(cur, des) \cup DropStmts(cur, des)

PartitionsPlanned(cur, des, allow) ==
  {s \in Ordered(cur, des) : Gated(s) => PartitionAllowed(allow)}

PartitionsSkipped(cur, des, allow) ==
  {s \in Ordered(cur, des) : Gated(s) /\ ~PartitionAllowed(allow)}

(***************************************************************************)
(* The statements of one plan are run in the order of their slots.         *)
(***************************************************************************)
NextOf(todo) == {s \in todo : \A r \in todo : s.at <= r.at}
=============================================================================
