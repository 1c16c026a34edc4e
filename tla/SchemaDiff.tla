----------------------------- MODULE SchemaDiff -----------------------------
(***************************************************************************)
(* Package diff without partitions and table options: the statements that  *)
(* bring a current schema to a desired one, as DiffTables and DiffViews    *)
(* compute them and diffAll orders them.                                   *)
(*                                                                         *)
(* A plan is a set of statements and an order on it.  A statement carries  *)
(* the bucket diffAll collects it in and the drop category that has to be  *)
(* allowed for it; where a category is not allowed the statement becomes a *)
(* `-- skipped:` line.                                                     *)
(***************************************************************************)
EXTENDS MySQL

CONSTANT Rank  \* the order of tables and of execute blocks in the SQL file

ASSUME RankAssumption == Rank \in [Names \cup Guards -> Nat]

\* Mutant: foreign keys dropped under names their tables do not have yet.
FkDropsFirst == <<"view drop", "fk drop", "rename", "create", "alter",
                  "table drop", "fk add", "view put", "execute">>

BucketOrder == <<"view drop", "rename", "fk drop", "create", "alter",
                 "table drop", "fk add", "view put", "execute">>
Buckets     == {BucketOrder[i] : i \in DOMAIN BucketOrder}

Ungated    == "ungated"
Categories == {"table", "view", "column", "constraint", "foreign_key", "index"}

Statement ==
  {s \in [b : Buckets, op : Ops, t : Names \cup {NoName},
          n : Identifiers \cup {NoName}, to : Identifiers \cup {NoName},
          gate : Categories \cup {Ungated}] :
     /\ s.op \in {"CreateTable", "RenameTable", "RenameColumn"} => s.t \in Names
     /\ s.op = "RenameTable" => s.to \in Names
     /\ s.op = "RenameColumn" => s.to \in Columns
     /\ s.op = "RenameIndex" => s.to \in Keys
     /\ s.op = "Execute" => s.n \in Guards}

Stmt(b, op, t, n, gate) ==
  [b |-> b, op |-> op, t |-> t, n |-> n, to |-> NoName, gate |-> gate]

\* Mutant: renames gated by a category --allow-drop does not know.
GatedRenameStmt(b, op, t, n, to) ==
  [b |-> b, op |-> op, t |-> t, n |-> n, to |-> to, gate |-> "rename"]

RenameStmt(b, op, t, n, to) ==
  [b |-> b, op |-> op, t |-> t, n |-> n, to |-> to, gate |-> Ungated]

(***************************************************************************)
(* DropPolicy.IsDropAllowed.                                               *)
(***************************************************************************)
IsDropAllowed(allow, kind) == "all" \in allow \/ kind \in allow

(***************************************************************************)
(* The branch at every drop, of which diffConstraints has one: without     *)
(* permission it becomes a skipped line; what is replaced is not asked for.*)
(* With no policy everything is allowed (AllowAll), as with "all".         *)
(***************************************************************************)
\* Mutant: the policy is not asked.
PermittedAlways(allow, s) == TRUE

Permitted(allow, s) == s.gate = Ungated \/ IsDropAllowed(allow, s.gate)

(***************************************************************************)
(* filterTables and filterViews, applied alike to what the catalog holds   *)
(* and to what the files declare.  Execute blocks are not filtered.        *)
(***************************************************************************)
InTables(rows, shown) == {r \in rows : r.t \in shown}

Filtered(x, shown) ==
  [x EXCEPT !.tables = @ \cap shown,
            !.cols   = InTables(@, shown),
            !.pks    = InTables(@, shown),
            !.keys   = InTables(@, shown),
            !.checks = InTables(@, shown),
            !.fks    = InTables(@, shown),
            !.views  = {r \in @ : r.n \in shown}]

\* Mutant: only the catalog side is filtered.
UnfilteredDesired(des, shown) == des

FilteredDesired(des, shown) ==
  [Filtered(des, shown) EXCEPT !.renames = InTables(@, shown)]

-----------------------------------------------------------------------------
(***************************************************************************)
(* Renames.                                                                *)
(***************************************************************************)
Directives(des, kind, t) == {r \in des.renames : r.kind = kind /\ r.t = t}
TableDirectives(des)     == {r \in des.renames : r.kind = "table"}

(***************************************************************************)
(* The refusals every rename pass shares: a source named twice, a source   *)
(* that is declared too, a source that is neither there nor renamed        *)
(* already, a destination that is taken.                                   *)
(***************************************************************************)
\* Mutant: a directive whose rename has been applied is an error.
RenamedTwiceRefused(rs, declared, present) ==
  \/ \E r, s \in rs : r # s /\ r.old = s.old
  \/ \E r \in rs : /\ r.old # r.new
                   /\ \/ r.old \in declared
                      \/ r.old \notin present
                      \/ r.old \in present /\ r.new \in present

RenameRefused(rs, declared, present) ==
  \/ \E r, s \in rs : r # s /\ r.old = s.old
  \/ \E r \in rs : /\ r.old # r.new
                   /\ \/ r.old \in declared
                      \/ r.old \notin present /\ r.new \notin present
                      \/ r.old \in present /\ r.new \in present

(***************************************************************************)
(* The directives that ask for a statement: the source is still there.     *)
(***************************************************************************)
\* Mutant: the presence of the destination taken for that of the source.
EffectiveOntoTaken(rs, present) == {r \in rs : r.old # r.new /\ r.new \in present}

Effective(rs, present) == {r \in rs : r.old # r.new /\ r.old \in present}

NewName(rs, x) == IF \E r \in rs : r.old = x
                  THEN (CHOOSE r \in rs : r.old = x).new
                  ELSE x

(***************************************************************************)
(* applyTableRenames with rewriteFKRefTable: the current schema under the  *)
(* new table names.                                                        *)
(***************************************************************************)
RenamedTables(cur, des) ==
  LET rs    == Effective(TableDirectives(des), cur.tables)
      to(x) == NewName(rs, x)
      Moved(rows) == {[r EXCEPT !.t = to(@)] : r \in rows}
  IN  [cur EXCEPT !.tables = {to(t) : t \in @},
                  !.cols   = Moved(@),
                  !.pks    = Moved(@),
                  !.keys   = Moved(@),
                  !.checks = Moved(@),
                  !.fks    = {[r EXCEPT !.ref = to(@)] : r \in Moved(@)}]

(***************************************************************************)
(* The columns, keys and foreign keys of the tables that stay, under the   *)
(* new column names: applyColumnRenames and the rewrite passes after it.   *)
(* A CHECK's expression is not rewritten.                                  *)
(***************************************************************************)
NewColumnName(cur, des, t, c) ==
  IF t \in cur.tables \cap des.tables THEN NewName(Directives(des, "column", t), c) ELSE c

\* Mutant: no rewriteCrossTableFKRefCols.
ParentColumnKept(cur, des, f) == f.refcol

ParentColumn(cur, des, f) == NewColumnName(cur, des, f.ref, f.refcol)

RenamedColumns(cur, des) ==
  LET to(t, c) == NewColumnName(cur, des, t, c)
      Listed(rows) == {[r EXCEPT !.cols = [i \in DOMAIN @ |-> to(r.t, @[i])]] : r \in rows}
  IN  [cur EXCEPT !.cols = {[r EXCEPT !.n = to(r.t, @)] : r \in @},
                  !.pks  = Listed(@),
                  !.keys = Listed(@),
                  !.fks  = {[r EXCEPT !.col = to(r.t, @), !.refcol = ParentColumn(cur, des, r)] :
                              r \in @}]

(***************************************************************************)
(* applyIndexRenames.                                                      *)
(***************************************************************************)
RenamedIndexes(cur, des) ==
  [cur EXCEPT !.keys =
     {IF r.t \in des.tables
      THEN [r EXCEPT !.n = NewName(Effective(Directives(des, "index", r.t),
                                             NamesOf(cur.keys, r.t)), @)]
      ELSE r : r \in @}]

UnderNewNames(cur, des) ==
  RenamedIndexes(RenamedColumns(RenamedTables(cur, des), des), des)

(***************************************************************************)
(* Every error DiffTables and DiffViews return for a schema of this        *)
(* vocabulary.  A directive inside a table that is about to be created is  *)
(* not looked at.                                                          *)
(***************************************************************************)
NestedRefused(cur, des, t) ==
  LET Bad(kind, ds, cs) ==
        RenameRefused(Directives(des, kind, t), NamesOf(ds, t), NamesOf(cs, t))
  IN  \/ Bad("column", des.cols, cur.cols)
      \/ Bad("index", des.keys, cur.keys)
      \/ Bad("constraint", des.checks \cup des.pks, cur.checks \cup cur.pks)
      \/ Bad("foreign_key", des.fks, cur.fks)

Refused(cur, des) ==
  \/ RenameRefused(TableDirectives(des), des.tables, cur.tables)
  \/ LET moved == RenamedTables(cur, des)
     IN  \E t \in des.tables \cap moved.tables : NestedRefused(moved, des, t)
  \/ Cyclic(des.views)
  \/ Cyclic(cur.views)

RenameStmts(cur, des) ==
  {RenameStmt("rename", "RenameTable", r.old, NoName, r.new) :
     r \in Effective(TableDirectives(des), cur.tables)}

NestedRenameStmts(moved, des) ==
  UNION {
    {RenameStmt("alter", "RenameColumn", t, r.old, r.new) :
       r \in Effective(Directives(des, "column", t), NamesOf(moved.cols, t))} \cup
    {RenameStmt("alter", "RenameIndex", t, r.old, r.new) :
       r \in Effective(Directives(des, "index", t), NamesOf(moved.keys, t))} :
    t \in des.tables \cap moved.tables}

-----------------------------------------------------------------------------
(***************************************************************************)
(* Tables on one side only.                                                *)
(***************************************************************************)
\* Mutant: a new table's foreign keys left to the next run.
NewTableWithoutFks(cur, des) ==
  UNION {
    {Stmt("create", "CreateTable", t, NoName, Ungated)} \cup
    {Stmt("create", "CreateIndex", t, r.n, Ungated) : r \in Of(des.keys, t)} :
    t \in des.tables \ cur.tables}

NewTableStmts(cur, des) ==
  UNION {
    {Stmt("create", "CreateTable", t, NoName, Ungated)} \cup
    {Stmt("create", "CreateIndex", t, r.n, Ungated) : r \in Of(des.keys, t)} \cup
    {Stmt("fk add", "AddForeignKey", t, r.n, Ungated) : r \in Of(des.fks, t)} :
    t \in des.tables \ cur.tables}

\* Mutant: the table's gate left to that of its foreign keys.
TableDropsByForeignKey(cur, des) ==
  UNION {
    {Stmt("fk drop", "DropForeignKey", t, r.n, "foreign_key") : r \in Of(cur.fks, t)} \cup
    {Stmt("table drop", "DropTable", t, NoName, "foreign_key")} :
    t \in cur.tables \ des.tables}

DroppedTableStmts(cur, des) ==
  UNION {
    {Stmt("fk drop", "DropForeignKey", t, r.n, "table") : r \in Of(cur.fks, t)} \cup
    {Stmt("table drop", "DropTable", t, NoName, "table")} :
    t \in cur.tables \ des.tables}

(***************************************************************************)
(* Tables on both sides.  An object on both sides that differs is dropped  *)
(* whatever the policy says, one that is only in the current schema when   *)
(* its category is allowed.                                                *)
(***************************************************************************)
\* Mutant: removal treated like replacement.
GateOpen(ds, r, kind) == Ungated

GateOf(ds, r, kind) == IF Holds(ds, r.t, r.n) THEN Ungated ELSE kind

\* Mutant: columnEqual sees no difference.
NoneModified(cs, ds) == {}

ModifiedColumns(cs, ds) == {x \in ds \ cs : Holds(cs, x.t, x.n)}

ColumnStmts(cur, des, t) ==
  LET cs == Of(cur.cols, t)
      ds == Of(des.cols, t)
  IN  {Stmt("alter", "AddColumn", t, r.n, Ungated) : r \in {x \in ds : ~Holds(cs, t, x.n)}} \cup
      {Stmt("alter", "ModifyColumn", t, r.n, Ungated) : r \in ModifiedColumns(cs, ds)} \cup
      {Stmt("alter", "DropColumn", t, r.n, "column") : r \in {x \in cs : ~Holds(ds, t, x.n)}}

ConstraintStmts(cur, des, t) ==
  LET cs == Of(cur.pks, t) \cup Of(cur.checks, t)
      ds == Of(des.pks, t) \cup Of(des.checks, t)
  IN  {Stmt("alter", "DropConstraint", t, r.n, GateOf(ds, r, "constraint")) : r \in cs \ ds} \cup
      {Stmt("alter", "AddConstraint", t, r.n, Ungated) : r \in ds \ cs}

(***************************************************************************)
(* No DROP INDEX, and no skipped line, for an index all of whose columns   *)
(* this plan really drops: MySQL drops it with the last of them.           *)
(***************************************************************************)
\* Mutants: the policy forgotten, one dropped column taken for all.
ColumnsMissing(cur, des, t, allow) == NamesOf(cur.cols, t) \ NamesOf(des.cols, t)
SomePartDropped(r, dropped)        == ListOf(r.cols) \cap dropped # {}

DroppedColumns(cur, des, t, allow) ==
  {c \in NamesOf(cur.cols, t) \ NamesOf(des.cols, t) : IsDropAllowed(allow, "column")}

AllPartsDropped(r, dropped) == r.cols # <<>> /\ ListOf(r.cols) \subseteq dropped

IndexStmts(cur, des, t, allow) ==
  LET cs      == Of(cur.keys, t)
      ds      == Of(des.keys, t)
      dropped == DroppedColumns(cur, des, t, allow)
  IN  {Stmt("alter", "DropIndex", t, r.n, GateOf(ds, r, "index")) :
         r \in {x \in cs \ ds : ~AllPartsDropped(x, dropped)}} \cup
      {Stmt("alter", "CreateIndex", t, r.n, Ungated) : r \in ds \ cs}

ForeignKeyStmts(cur, des, t) ==
  LET cs == Of(cur.fks, t)
      ds == Of(des.fks, t)
  IN  {Stmt("fk drop", "DropForeignKey", t, r.n, GateOf(ds, r, "foreign_key")) : r \in cs \ ds} \cup
      {Stmt("fk add", "AddForeignKey", t, r.n, Ungated) : r \in ds \ cs}

KeptTableStmts(cur, des, allow) ==
  UNION {ColumnStmts(cur, des, t) \cup ConstraintStmts(cur, des, t) \cup
         IndexStmts(cur, des, t, allow) \cup ForeignKeyStmts(cur, des, t) :
         t \in des.tables \cap cur.tables}

ViewStmts(cur, des) ==
  {Stmt("view put", "PutView", NoName, r.n, Ungated) : r \in des.views \ cur.views} \cup
  {Stmt("view drop", "DropView", NoName, r.n, "view") :
     r \in {x \in cur.views : x.n \notin ViewNames(des.views)}}

(***************************************************************************)
(* Everything the diff says, and its two halves: what runs, what is        *)
(* reported as skipped.                                                    *)
(***************************************************************************)
Diff(cur, des, allow) ==
  LET now == UnderNewNames(cur, des)
  IN  RenameStmts(cur, des) \cup
      NestedRenameStmts(RenamedTables(cur, des), des) \cup
      NewTableStmts(now, des) \cup
      DroppedTableStmts(now, des) \cup
      KeptTableStmts(now, des, allow) \cup
      ViewStmts(cur, des)

Planned(cur, des, allow) == {s \in Diff(cur, des, allow) : Permitted(allow, s)}

\* Mutant: suppressed view drops are not reported.
SkippedTables(cur, des, allow) ==
  {s \in Diff(cur, des, allow) : ~Permitted(allow, s) /\ s.b # "view drop"}

Skipped(cur, des, allow) == {s \in Diff(cur, des, allow) : ~Permitted(allow, s)}

-----------------------------------------------------------------------------
(***************************************************************************)
(* The order of a plan: by bucket, inside the table buckets by table, and  *)
(* inside a table as diffTable collects the statements.  Views are put in  *)
(* dependency order and dropped in reverse dependency order.  Statements   *)
(* this leaves unordered are independent of each other.                    *)
(***************************************************************************)
BucketIndex(s) == CHOOSE i \in DOMAIN BucketOrder : BucketOrder[i] = s.b

Phase(op) ==
  CASE op = "CreateTable"                 -> 1
    [] op = "RenameColumn"                -> 2
    [] op = "RenameIndex"                 -> 3
    [] op \in {"AddColumn", "ModifyColumn"} -> 4
    [] op = "DropColumn"                  -> 5
    [] op = "DropConstraint"              -> 6
    [] op = "AddConstraint"               -> 7
    [] op = "DropIndex"                   -> 8
    [] op = "CreateIndex"                 -> 9
    [] OTHER                              -> 0

Position(s) ==
  CASE s.b \in {"create", "alter"} -> <<Rank[s.t], Phase(s.op)>>
    [] s.b = "execute"             -> <<Rank[s.n], 0>>
    [] OTHER                       -> <<0, 0>>

\* Mutant: views put in any order.
PutsUnordered(r, s, cur, des) ==
  s.b = "view drop" /\ r.n # s.n /\ Depends(cur.views, r.n, s.n)

ViewBefore(r, s, cur, des) ==
  \/ s.b = "view put" /\ r.n # s.n /\ Depends(des.views, s.n, r.n)
  \/ s.b = "view drop" /\ r.n # s.n /\ Depends(cur.views, r.n, s.n)

Before(r, s, cur, des) ==
  \/ BucketIndex(r) < BucketIndex(s)
  \/ /\ r.b = s.b
     /\ \/ Position(r)[1] < Position(s)[1]
        \/ Position(r)[1] = Position(s)[1] /\ Position(r)[2] < Position(s)[2]
        \/ ViewBefore(r, s, cur, des)

First(plan, cur, des) == {s \in plan : \A r \in plan : ~Before(r, s, cur, des)}
=============================================================================
