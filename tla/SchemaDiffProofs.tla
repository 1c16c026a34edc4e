-------------------------- MODULE SchemaDiffProofs --------------------------
(***************************************************************************)
(* What every diff of package diff stands on, whatever catalog it was      *)
(* computed from.  SchemaApply's plans are made from catalogs that may be  *)
(* out of date before the first statement runs, so nothing here may depend *)
(* on the catalog being the server's.  The last part is the converse: a    *)
(* diff that finds nothing to do has nothing left out.                     *)
(***************************************************************************)
EXTENDS SchemaDiff, FunctionTheorems, TLAPS

(***************************************************************************)
(* filterTables and filterViews keep a snapshot a snapshot and the desired *)
(* files desired files.                                                    *)
(***************************************************************************)
LEMMA FilteredType ==
  ASSUME NEW shown
  PROVE  /\ \A x \in Snapshot : Filtered(x, shown) \in Snapshot
         /\ \A x \in Desired : FilteredDesired(x, shown) \in Desired
<1>1. ASSUME NEW x \in Snapshot PROVE Filtered(x, shown) \in Snapshot
  BY DEF Filtered, InTables, Snapshot
<1>2. ASSUME NEW x \in Desired PROVE FilteredDesired(x, shown) \in Desired
  <2>1. Filtered(x, shown) \in Desired BY DEF Filtered, InTables, Desired
  <2> QED BY <2>1 DEF FilteredDesired, InTables, Desired
<1> QED BY <1>1, <1>2

(***************************************************************************)
(* A renamed-from directive that the filters let through still names an    *)
(* object they let through, and no object has two.                         *)
(***************************************************************************)
LEMMA FilteredDirected ==
  ASSUME NEW shown, NEW des \in Desired, Directed(des)
  PROVE  Directed(FilteredDesired(des, shown))
<1> DEFINE f == FilteredDesired(des, shown)
<1>1. /\ f.tables = des.tables \cap shown
      /\ f.cols = InTables(des.cols, shown)
      /\ f.keys = InTables(des.keys, shown)
      /\ f.checks = InTables(des.checks, shown)
      /\ f.fks = InTables(des.fks, shown)
      /\ f.renames = InTables(des.renames, shown)
  BY DEF FilteredDesired, Filtered, Desired
<1> HIDE DEF f
<1>2. ASSUME NEW rows, NEW t \in shown, NEW n, Holds(rows, t, n)
      PROVE  Holds(InTables(rows, shown), t, n)
  BY <1>2 DEF Holds, InTables
<1>3. \A r \in f.renames : r \in des.renames /\ r.t \in shown BY <1>1 DEF InTables
<1>4. ASSUME NEW r \in f.renames
      PROVE  /\ r.t \in f.tables
             /\ r.kind = "table" => r.new = r.t
             /\ r.kind = "column" => Holds(f.cols, r.t, r.new)
             /\ r.kind = "index" => Holds(f.keys, r.t, r.new)
             /\ r.kind = "constraint" => Holds(f.checks, r.t, r.new)
             /\ r.kind = "foreign_key" => Holds(f.fks, r.t, r.new)
  <2>1. r \in des.renames /\ r.t \in shown BY <1>3
  <2>2. /\ r.t \in des.tables
        /\ r.kind = "table" => r.new = r.t
        /\ r.kind = "column" => Holds(des.cols, r.t, r.new)
        /\ r.kind = "index" => Holds(des.keys, r.t, r.new)
        /\ r.kind = "constraint" => Holds(des.checks, r.t, r.new)
        /\ r.kind = "foreign_key" => Holds(des.fks, r.t, r.new)
    BY <2>1 DEF Directed
  <2> QED BY <1>1, <1>2, <2>1, <2>2
<1>5. \A r, s \in f.renames : r.kind = s.kind /\ r.t = s.t /\ r.new = s.new => r = s
  BY <1>3 DEF Directed
<1>6. Directed(f) BY <1>4, <1>5 DEF Directed
<1> QED BY <1>6 DEF f

(***************************************************************************)
(* Both names of a directive are names of its kind.                        *)
(***************************************************************************)
LEMMA DirectiveType ==
  ASSUME NEW des \in Desired, NEW r \in des.renames
  PROVE  /\ r.t \in Names
         /\ r.kind = "table" => r.old \in Names /\ r.new \in Names
         /\ r.kind = "column" => r.old \in Columns /\ r.new \in Columns
         /\ r.kind = "index" => r.old \in Keys /\ r.new \in Keys
<1>1. r \in RenameRow BY DEF Desired
<1> QED BY <1>1 DEF RenameRow

(***************************************************************************)
(* The name after a rename pass is a name of the same kind.                *)
(***************************************************************************)
LEMMA NewNameType ==
  ASSUME NEW X, NEW rs, \A r \in rs : r.new \in X, NEW x \in X
  PROVE  NewName(rs, x) \in X
<1>1. CASE \E r \in rs : r.old = x BY <1>1 DEF NewName
<1>2. CASE ~\E r \in rs : r.old = x BY <1>2 DEF NewName
<1> QED BY <1>1, <1>2

(***************************************************************************)
(* Without a directive for it a name stays as it is.                       *)
(***************************************************************************)
LEMMA NewNameKept ==
  ASSUME NEW rs, NEW x, \A r \in rs : r.old # x
  PROVE  NewName(rs, x) = x
BY DEF NewName

(***************************************************************************)
(* A directive that is alone with its source gives that source its new name.*)
(***************************************************************************)
LEMMA NewNameOf ==
  ASSUME NEW rs, NEW r \in rs, \A s \in rs : s.old = r.old => s = r
  PROVE  NewName(rs, r.old) = r.new
BY DEF NewName

(***************************************************************************)
(* applyTableRenames returns a snapshot.                                   *)
(***************************************************************************)
LEMMA RenamedTablesType ==
  ASSUME NEW cur \in Snapshot, NEW des \in Desired
  PROVE  RenamedTables(cur, des) \in Snapshot
<1> DEFINE rs == Effective(TableDirectives(des), cur.tables)
           to(x) == NewName(rs, x)
           Moved(rows) == {[r EXCEPT !.t = to(@)] : r \in rows}
<1>1. \A x \in Names : to(x) \in Names
  <2>1. \A r \in rs : r.new \in Names BY DirectiveType DEF Effective, TableDirectives
  <2> QED BY <2>1, NewNameType
<1>2. Moved(cur.cols) \in SUBSET ColumnRow
  <2>1. \A r \in ColumnRow : [r EXCEPT !.t = to(@)] \in ColumnRow BY <1>1 DEF ColumnRow
  <2> QED BY <2>1 DEF Snapshot
<1>3. Moved(cur.pks) \in SUBSET PrimaryRow
  <2>1. \A r \in PrimaryRow : [r EXCEPT !.t = to(@)] \in PrimaryRow BY <1>1 DEF PrimaryRow
  <2> QED BY <2>1 DEF Snapshot
<1>4. Moved(cur.keys) \in SUBSET IndexRow
  <2>1. \A r \in IndexRow : [r EXCEPT !.t = to(@)] \in IndexRow BY <1>1 DEF IndexRow
  <2> QED BY <2>1 DEF Snapshot
<1>5. Moved(cur.checks) \in SUBSET CheckRow
  <2>1. \A r \in CheckRow : [r EXCEPT !.t = to(@)] \in CheckRow BY <1>1 DEF CheckRow
  <2> QED BY <2>1 DEF Snapshot
<1>6. {[r EXCEPT !.ref = to(@)] : r \in Moved(cur.fks)} \in SUBSET ForeignKeyRow
  <2>1. \A r \in ForeignKeyRow : [r EXCEPT !.t = to(@)] \in ForeignKeyRow BY <1>1 DEF ForeignKeyRow
  <2>2. \A r \in ForeignKeyRow : [r EXCEPT !.ref = to(@)] \in ForeignKeyRow BY <1>1 DEF ForeignKeyRow
  <2> QED BY <2>1, <2>2 DEF Snapshot
<1>7. {to(t) : t \in cur.tables} \in SUBSET Names BY <1>1 DEF Snapshot
<1>8. RenamedTables(cur, des) =
        [cur EXCEPT !.tables = {to(t) : t \in @}, !.cols = Moved(@), !.pks = Moved(@),
                    !.keys = Moved(@), !.checks = Moved(@),
                    !.fks = {[r EXCEPT !.ref = to(@)] : r \in Moved(@)}]
  BY DEF RenamedTables
<1> HIDE DEF to, Moved
<1> QED BY <1>2, <1>3, <1>4, <1>5, <1>6, <1>7, <1>8 DEF Snapshot

(***************************************************************************)
(* applyColumnRenames and the rewrite passes after it return a snapshot.   *)
(***************************************************************************)
LEMMA RenamedColumnsType ==
  ASSUME NEW cur \in Snapshot, NEW des \in Desired
  PROVE  RenamedColumns(cur, des) \in Snapshot
<1> DEFINE to(t, c) == NewColumnName(cur, des, t, c)
           Listed(rows) == {[r EXCEPT !.cols = [i \in DOMAIN @ |-> to(r.t, @[i])]] : r \in rows}
<1>1. \A t, c : c \in Columns => to(t, c) \in Columns
  <2>1. \A t : \A r \in Directives(des, "column", t) : r.new \in Columns
    BY DirectiveType DEF Directives
  <2> QED BY <2>1, NewNameType DEF NewColumnName
<1>2. {[r EXCEPT !.n = to(r.t, @)] : r \in cur.cols} \in SUBSET ColumnRow
  <2>1. \A r \in ColumnRow : [r EXCEPT !.n = to(r.t, @)] \in ColumnRow BY <1>1 DEF ColumnRow
  <2> QED BY <2>1 DEF Snapshot
<1>3. ASSUME NEW N, NEW r \in [t : Names, n : N, cols : Seq(Columns)]
      PROVE  [r EXCEPT !.cols = [i \in DOMAIN @ |-> to(r.t, @[i])]]
               \in [t : Names, n : N, cols : Seq(Columns)]
  <2>1. r.cols \in Seq(Columns) OBVIOUS
  <2>2. DOMAIN r.cols = 1..Len(r.cols) /\ Len(r.cols) \in Nat BY <2>1
  <2>3. \A i \in 1..Len(r.cols) : to(r.t, r.cols[i]) \in Columns BY <1>1, <2>1
  <2>4. [i \in DOMAIN r.cols |-> to(r.t, r.cols[i])] \in Seq(Columns) BY <2>2, <2>3
  <2> QED BY <2>4
<1>4. Listed(cur.pks) \in SUBSET PrimaryRow
  <2>1. ASSUME NEW r \in PrimaryRow
        PROVE  [r EXCEPT !.cols = [i \in DOMAIN @ |-> to(r.t, @[i])]] \in PrimaryRow
    BY <1>3 DEF PrimaryRow
  <2> QED BY <2>1 DEF Snapshot
<1>5. Listed(cur.keys) \in SUBSET IndexRow BY <1>3 DEF Snapshot, IndexRow
<1>6. {[r EXCEPT !.col = to(r.t, @), !.refcol = ParentColumn(cur, des, r)] : r \in cur.fks}
        \in SUBSET ForeignKeyRow
  <2>1. ASSUME NEW r \in ForeignKeyRow
        PROVE  [r EXCEPT !.col = to(r.t, @), !.refcol = ParentColumn(cur, des, r)] \in ForeignKeyRow
    <3>1. r.col \in Columns /\ r.refcol \in Columns BY DEF ForeignKeyRow
    <3>2. to(r.t, r.col) \in Columns /\ ParentColumn(cur, des, r) \in Columns
      BY <1>1, <3>1 DEF ParentColumn
    <3> QED BY <3>2 DEF ForeignKeyRow
  <2> QED BY <2>1 DEF Snapshot
<1>7. RenamedColumns(cur, des) =
        [cur EXCEPT !.cols = {[r EXCEPT !.n = to(r.t, @)] : r \in @},
                    !.pks  = Listed(@),
                    !.keys = Listed(@),
                    !.fks  = {[r EXCEPT !.col = to(r.t, @), !.refcol = ParentColumn(cur, des, r)] :
                              r \in @}]
  BY DEF RenamedColumns
<1> HIDE DEF to, Listed
<1> QED BY <1>2, <1>4, <1>5, <1>6, <1>7 DEF Snapshot

(***************************************************************************)
(* applyIndexRenames returns a snapshot.                                   *)
(***************************************************************************)
LEMMA RenamedIndexesType ==
  ASSUME NEW cur \in Snapshot, NEW des \in Desired
  PROVE  RenamedIndexes(cur, des) \in Snapshot
<1> DEFINE rs(t) == Effective(Directives(des, "index", t), NamesOf(cur.keys, t))
<1>1. \A t : \A r \in rs(t) : r.new \in Keys \cup ForeignKeys
  BY DirectiveType DEF Effective, Directives
<1>2. ASSUME NEW r \in IndexRow
      PROVE  [r EXCEPT !.n = NewName(rs(r.t), @)] \in IndexRow
  <2>1. r.n \in Keys \cup ForeignKeys BY DEF IndexRow
  <2>2. NewName(rs(r.t), r.n) \in Keys \cup ForeignKeys BY <1>1, <2>1, NewNameType
  <2> QED BY <2>2 DEF IndexRow
<1>3. {IF r.t \in des.tables THEN [r EXCEPT !.n = NewName(rs(r.t), @)] ELSE r : r \in cur.keys}
        \in SUBSET IndexRow
  BY <1>2 DEF Snapshot
<1>4. RenamedIndexes(cur, des) =
        [cur EXCEPT !.keys = {IF r.t \in des.tables THEN [r EXCEPT !.n = NewName(rs(r.t), @)] ELSE r :
                                r \in @}]
  BY DEF RenamedIndexes
<1> HIDE DEF rs
<1> QED BY <1>3, <1>4 DEF Snapshot

(***************************************************************************)
(* The three rename passes together return a snapshot.                     *)
(***************************************************************************)
LEMMA UnderNewNamesType ==
  ASSUME NEW cur \in Snapshot, NEW des \in Desired
  PROVE  UnderNewNames(cur, des) \in Snapshot
BY RenamedTablesType, RenamedColumnsType, RenamedIndexesType DEF UnderNewNames

(***************************************************************************)
(* Stmt builds a statement with the parts it is given.                     *)
(***************************************************************************)
LEMMA StmtType ==
  ASSUME NEW b \in Buckets, NEW op \in Ops, NEW t \in Names \cup {NoName},
         NEW n \in Identifiers \cup {NoName}, NEW gate \in Categories \cup {Ungated},
         op \notin {"RenameTable", "RenameColumn", "RenameIndex", "Execute"},
         op = "CreateTable" => t \in Names
  PROVE  /\ Stmt(b, op, t, n, gate) \in Statement
         /\ Stmt(b, op, t, n, gate).op = op
         /\ Stmt(b, op, t, n, gate).t = t
         /\ Stmt(b, op, t, n, gate).n = n
         /\ Stmt(b, op, t, n, gate).gate = gate
BY DEF Stmt, Statement

(***************************************************************************)
(* The nine buckets of diff_all.go by name.                                *)
(***************************************************************************)
LEMMA BucketsAre ==
  {"view drop", "rename", "fk drop", "create", "alter", "table drop", "fk add", "view put",
   "execute"} \subseteq Buckets
<1> DEFINE B == BucketOrder
<1>1. /\ B[1] = "view drop" /\ B[2] = "rename" /\ B[3] = "fk drop" /\ B[4] = "create"
      /\ B[5] = "alter" /\ B[6] = "table drop" /\ B[7] = "fk add" /\ B[8] = "view put"
      /\ B[9] = "execute"
  BY DEF BucketOrder
<1>2. DOMAIN B = 1..9 BY DEF BucketOrder
<1>3. \A i \in 1..9 : B[i] \in Buckets BY <1>2 DEF Buckets
<1>4. /\ B[1] \in Buckets /\ B[2] \in Buckets /\ B[3] \in Buckets /\ B[4] \in Buckets
      /\ B[5] \in Buckets /\ B[6] \in Buckets /\ B[7] \in Buckets /\ B[8] \in Buckets
      /\ B[9] \in Buckets
  BY <1>3
<1> HIDE DEF B
<1> QED BY <1>1, <1>4

(***************************************************************************)
(* A name of any kind is an identifier.                                    *)
(***************************************************************************)
LEMMA KindsAre ==
  /\ Names \subseteq Identifiers
  /\ Columns \subseteq Identifiers
  /\ Keys \subseteq Identifiers
  /\ Checks \subseteq Identifiers
  /\ ForeignKeys \subseteq Identifiers
  /\ Guards \subseteq Identifiers
  /\ PrimaryKey \in Identifiers
BY DEF Identifiers

(***************************************************************************)
(* Every row of a catalog or of the files names its table and itself.      *)
(***************************************************************************)
LEMMA RowType ==
  ASSUME NEW x \in Snapshot \cup Desired
  PROVE  /\ \A r \in x.cols : r.t \in Names /\ r.n \in Identifiers
         /\ \A r \in x.pks : r.t \in Names /\ r.n \in Identifiers
         /\ \A r \in x.keys : r.t \in Names /\ r.n \in Identifiers
         /\ \A r \in x.checks : r.t \in Names /\ r.n \in Identifiers
         /\ \A r \in x.fks : r.t \in Names /\ r.n \in Identifiers
         /\ \A r \in x.views : r.n \in Identifiers
         /\ x.tables \subseteq Names
<1>1. /\ x.tables \subseteq Names /\ x.cols \subseteq ColumnRow /\ x.pks \subseteq PrimaryRow
      /\ x.keys \subseteq IndexRow /\ x.checks \subseteq CheckRow
      /\ x.fks \subseteq ForeignKeyRow /\ x.views \subseteq ViewRow
  BY DEF Snapshot, Desired
<1>2. \A r \in ColumnRow : r.t \in Names /\ r.n \in Identifiers BY KindsAre DEF ColumnRow
<1>3. \A r \in PrimaryRow : r.t \in Names /\ r.n \in Identifiers BY KindsAre DEF PrimaryRow
<1>4. \A r \in IndexRow : r.t \in Names /\ r.n \in Identifiers BY KindsAre DEF IndexRow
<1>5. \A r \in CheckRow : r.t \in Names /\ r.n \in Identifiers BY KindsAre DEF CheckRow
<1>6. \A r \in ForeignKeyRow : r.t \in Names /\ r.n \in Identifiers BY KindsAre DEF ForeignKeyRow
<1>7. \A r \in ViewRow : r.n \in Identifiers BY KindsAre DEF ViewRow
<1> QED BY <1>1, <1>2, <1>3, <1>4, <1>5, <1>6, <1>7

(***************************************************************************)
(* What a statement that moves or removes data stands on, whatever the     *)
(* catalog it was planned from.                                            *)
(***************************************************************************)
SoundTables(des) ==
  \A r \in TableDirectives(des) :
    /\ \A s \in TableDirectives(des) : r.old = s.old => r = s
    /\ r.old # r.new => r.old \notin des.tables

SoundColumns(des, t) ==
  \A r \in Directives(des, "column", t) :
    /\ \A s \in Directives(des, "column", t) : r.old = s.old => r = s
    /\ r.old # r.new => ~Holds(des.cols, t, r.old)

Justified(des, s) ==
  /\ s.op \in Destructive => SoundTables(des)
  /\ s.op = "DropTable" =>
       /\ s.t \notin des.tables
       /\ \A r \in TableDirectives(des) : r.old # s.t
       /\ s.gate = "table"
  /\ s.op = "DropColumn" =>
       /\ s.t \in des.tables
       /\ ~Holds(des.cols, s.t, s.n)
       /\ \A r \in Directives(des, "column", s.t) : r.old # s.n
       /\ s.gate = "column"
  /\ s.op = "RenameTable" =>
       \E r \in TableDirectives(des) : r.old = s.t /\ r.new = s.to /\ r.old # r.new
  /\ s.op = "RenameColumn" =>
       /\ s.t \in des.tables
       /\ SoundColumns(des, s.t)
       /\ \E r \in Directives(des, "column", s.t) : r.old = s.n /\ r.new = s.to /\ r.old # r.new

Sound(des, s) == s \in Statement /\ Justified(des, s)

(***************************************************************************)
(* The operations that touch no data a file can claim.                     *)
(***************************************************************************)
Harmless == {"CreateTable", "CreateIndex", "AddColumn", "ModifyColumn", "DropConstraint",
             "AddConstraint", "DropIndex", "DropForeignKey", "AddForeignKey", "PutView",
             "DropView"}

(***************************************************************************)
(* A statement that moves and removes no data is sound.                    *)
(***************************************************************************)
LEMMA HarmlessSound ==
  ASSUME NEW des, NEW b \in Buckets, NEW op \in Harmless, NEW t \in Names \cup {NoName},
         NEW n \in Identifiers \cup {NoName}, NEW gate \in Categories \cup {Ungated},
         op = "CreateTable" => t \in Names
  PROVE  Sound(des, Stmt(b, op, t, n, gate))
<1>1. op \in Ops BY DEF Harmless, Ops
<1>2. Stmt(b, op, t, n, gate) \in Statement /\ Stmt(b, op, t, n, gate).op = op
  BY <1>1, StmtType DEF Harmless
<1> QED BY <1>2 DEF Sound, Justified, Harmless, Destructive

(***************************************************************************)
(* Every statement for a table that is created is sound.                   *)
(***************************************************************************)
LEMMA NewTableSound ==
  ASSUME NEW cur, NEW des \in Desired
  PROVE  \A s \in NewTableStmts(cur, des) : Sound(des, s)
<1>1. ASSUME NEW t \in des.tables
      PROVE  Sound(des, Stmt("create", "CreateTable", t, NoName, Ungated))
  BY HarmlessSound, BucketsAre, RowType DEF Harmless
<1>2. ASSUME NEW t \in des.tables, NEW r \in Of(des.keys, t)
      PROVE  Sound(des, Stmt("create", "CreateIndex", t, r.n, Ungated))
  BY HarmlessSound, BucketsAre, RowType DEF Harmless, Of
<1>3. ASSUME NEW t \in des.tables, NEW r \in Of(des.fks, t)
      PROVE  Sound(des, Stmt("fk add", "AddForeignKey", t, r.n, Ungated))
  BY HarmlessSound, BucketsAre, RowType DEF Harmless, Of
<1>4. SUFFICES ASSUME NEW s \in NewTableStmts(cur, des) PROVE Sound(des, s) OBVIOUS
<1>5. PICK t \in des.tables :
        s \in {Stmt("create", "CreateTable", t, NoName, Ungated)} \cup
              {Stmt("create", "CreateIndex", t, r.n, Ungated) : r \in Of(des.keys, t)} \cup
              {Stmt("fk add", "AddForeignKey", t, r.n, Ungated) : r \in Of(des.fks, t)}
  BY <1>4 DEF NewTableStmts
<1> QED BY <1>1, <1>2, <1>3, <1>5

(***************************************************************************)
(* Every statement diffConstraints and diffForeignKeys plan is sound.      *)
(***************************************************************************)
LEMMA ConstraintSound ==
  ASSUME NEW cur \in Snapshot, NEW des \in Desired, NEW t \in Names
  PROVE  \A s \in ConstraintStmts(cur, des, t) \cup ForeignKeyStmts(cur, des, t) : Sound(des, s)
<1>1. ASSUME NEW ds, NEW r, NEW kind \in Categories
      PROVE  GateOf(ds, r, kind) \in Categories \cup {Ungated}
  BY DEF GateOf
<1>2. ASSUME NEW r \in cur.pks \cup cur.checks, NEW ds
      PROVE  Sound(des, Stmt("alter", "DropConstraint", t, r.n, GateOf(ds, r, "constraint")))
  BY <1>1, HarmlessSound, BucketsAre, RowType DEF Harmless, Categories
<1>3. ASSUME NEW r \in des.pks \cup des.checks
      PROVE  Sound(des, Stmt("alter", "AddConstraint", t, r.n, Ungated))
  BY HarmlessSound, BucketsAre, RowType DEF Harmless
<1>4. ASSUME NEW r \in cur.fks, NEW ds
      PROVE  Sound(des, Stmt("fk drop", "DropForeignKey", t, r.n, GateOf(ds, r, "foreign_key")))
  BY <1>1, HarmlessSound, BucketsAre, RowType DEF Harmless, Categories
<1>5. ASSUME NEW r \in des.fks
      PROVE  Sound(des, Stmt("fk add", "AddForeignKey", t, r.n, Ungated))
  BY HarmlessSound, BucketsAre, RowType DEF Harmless
<1> DEFINE cs == Of(cur.pks, t) \cup Of(cur.checks, t)
           ds == Of(des.pks, t) \cup Of(des.checks, t)
<1>6. cs \subseteq cur.pks \cup cur.checks /\ ds \subseteq des.pks \cup des.checks BY DEF Of
<1>7. ConstraintStmts(cur, des, t) =
        {Stmt("alter", "DropConstraint", t, r.n, GateOf(ds, r, "constraint")) : r \in cs \ ds} \cup
        {Stmt("alter", "AddConstraint", t, r.n, Ungated) : r \in ds \ cs}
  BY DEF ConstraintStmts
<1> HIDE DEF cs, ds
<1>8. \A s \in ConstraintStmts(cur, des, t) : Sound(des, s)
  BY <1>2, <1>3, <1>6, <1>7
<1>9. \A s \in ForeignKeyStmts(cur, des, t) : Sound(des, s)
  BY <1>4, <1>5 DEF ForeignKeyStmts, Of
<1> QED BY <1>8, <1>9

(***************************************************************************)
(* Every statement diffIndexes plans is sound.                             *)
(***************************************************************************)
LEMMA IndexSound ==
  ASSUME NEW cur \in Snapshot, NEW des \in Desired, NEW t \in Names, NEW allow
  PROVE  \A s \in IndexStmts(cur, des, t, allow) : Sound(des, s)
<1>1. ASSUME NEW r \in cur.keys, NEW ds
      PROVE  Sound(des, Stmt("alter", "DropIndex", t, r.n, GateOf(ds, r, "index")))
  <2>1. GateOf(ds, r, "index") \in Categories \cup {Ungated} BY DEF GateOf, Categories
  <2> QED BY <2>1, HarmlessSound, BucketsAre, RowType DEF Harmless
<1>2. ASSUME NEW r \in des.keys
      PROVE  Sound(des, Stmt("alter", "CreateIndex", t, r.n, Ungated))
  BY HarmlessSound, BucketsAre, RowType DEF Harmless
<1> QED BY <1>1, <1>2 DEF IndexStmts, Of

(***************************************************************************)
(* Every statement DiffViews plans is sound.                               *)
(***************************************************************************)
LEMMA ViewSound ==
  ASSUME NEW cur \in Snapshot, NEW des \in Desired
  PROVE  \A s \in ViewStmts(cur, des) : Sound(des, s)
<1>1. ASSUME NEW r \in des.views
      PROVE  Sound(des, Stmt("view put", "PutView", NoName, r.n, Ungated))
  BY HarmlessSound, BucketsAre, RowType DEF Harmless
<1>2. ASSUME NEW r \in cur.views
      PROVE  Sound(des, Stmt("view drop", "DropView", NoName, r.n, "view"))
  BY HarmlessSound, BucketsAre, RowType DEF Harmless, Categories
<1> QED BY <1>1, <1>2 DEF ViewStmts

(***************************************************************************)
(* When the diff is not refused no two table directives share a source and *)
(* no source is declared itself (applyTableRenames' checks).               *)
(***************************************************************************)
LEMMA TablesSoundWhenPlanned ==
  ASSUME NEW cur, NEW des, ~Refused(cur, des)
  PROVE  SoundTables(des)
BY DEF Refused, RenameRefused, SoundTables

(***************************************************************************)
(* When the diff is not refused the same holds for the column directives of*)
(* every table that stays (applyColumnRenames' checks).                    *)
(***************************************************************************)
LEMMA ColumnsSoundWhenPlanned ==
  ASSUME NEW cur, NEW des, ~Refused(cur, des),
         NEW t \in des.tables \cap RenamedTables(cur, des).tables
  PROVE  SoundColumns(des, t)
<1>1. ~RenameRefused(Directives(des, "column", t), NamesOf(des.cols, t),
                     NamesOf(RenamedTables(cur, des).cols, t))
  BY DEF Refused, NestedRefused
<1> QED BY <1>1 DEF RenameRefused, SoundColumns, NamesOf, Of, Holds

(***************************************************************************)
(* Every RENAME TABLE follows a directive.                                 *)
(***************************************************************************)
LEMMA RenameSound ==
  ASSUME NEW cur, NEW des \in Desired, ~Refused(cur, des)
  PROVE  \A s \in RenameStmts(cur, des) : Sound(des, s)
<1>1. ASSUME NEW r \in Effective(TableDirectives(des), cur.tables)
      PROVE  Sound(des, RenameStmt("rename", "RenameTable", r.old, NoName, r.new))
  <2>1. r \in TableDirectives(des) /\ r.old # r.new BY DEF Effective
  <2>2. r.old \in Names /\ r.new \in Names BY <2>1, DirectiveType DEF TableDirectives
  <2>3. RenameStmt("rename", "RenameTable", r.old, NoName, r.new) \in Statement
    BY <2>2, BucketsAre, KindsAre DEF RenameStmt, Statement, Ops
  <2> QED BY <2>1, <2>3, TablesSoundWhenPlanned DEF RenameStmt, Sound, Justified
<1> QED BY <1>1 DEF RenameStmts

(***************************************************************************)
(* Every RENAME COLUMN and RENAME INDEX follows a directive.               *)
(***************************************************************************)
LEMMA NestedRenameSound ==
  ASSUME NEW cur, NEW des \in Desired, ~Refused(cur, des)
  PROVE  \A s \in NestedRenameStmts(RenamedTables(cur, des), des) : Sound(des, s)
<1> DEFINE moved == RenamedTables(cur, des)
<1>1. ASSUME NEW t \in des.tables \cap moved.tables,
             NEW r \in Effective(Directives(des, "column", t), NamesOf(moved.cols, t))
      PROVE  Sound(des, RenameStmt("alter", "RenameColumn", t, r.old, r.new))
  <2>1. r \in Directives(des, "column", t) /\ r.old # r.new BY DEF Effective
  <2>2. r.old \in Columns /\ r.new \in Columns BY <2>1, DirectiveType DEF Directives
  <2>3. t \in Names BY RowType
  <2>4. RenameStmt("alter", "RenameColumn", t, r.old, r.new) \in Statement
    BY <2>2, <2>3, BucketsAre, KindsAre DEF RenameStmt, Statement, Ops
  <2> QED BY <2>1, <2>4, TablesSoundWhenPlanned, ColumnsSoundWhenPlanned
          DEF RenameStmt, Sound, Justified
<1>2. ASSUME NEW t \in des.tables \cap moved.tables,
             NEW r \in Effective(Directives(des, "index", t), NamesOf(moved.keys, t))
      PROVE  Sound(des, RenameStmt("alter", "RenameIndex", t, r.old, r.new))
  <2>1. r \in Directives(des, "index", t) BY DEF Effective
  <2>2. r.old \in Keys /\ r.new \in Keys BY <2>1, DirectiveType DEF Directives
  <2>3. t \in Names BY RowType
  <2>4. RenameStmt("alter", "RenameIndex", t, r.old, r.new) \in Statement
    BY <2>2, <2>3, BucketsAre, KindsAre DEF RenameStmt, Statement, Ops
  <2> QED BY <2>4 DEF RenameStmt, Sound, Justified, Destructive
<1> HIDE DEF moved
<1>3. \A s \in NestedRenameStmts(moved, des) : Sound(des, s) BY <1>1, <1>2 DEF NestedRenameStmts
<1> QED BY <1>3 DEF moved

(***************************************************************************)
(* The passes after applyTableRenames leave its tables, and the one after  *)
(* applyColumnRenames its columns.                                         *)
(***************************************************************************)
LEMMA NowTables ==
  ASSUME NEW cur \in Snapshot, NEW des \in Desired
  PROVE  /\ UnderNewNames(cur, des).tables = RenamedTables(cur, des).tables
         /\ UnderNewNames(cur, des).cols = RenamedColumns(RenamedTables(cur, des), des).cols
<1>1. \A x \in Snapshot : RenamedColumns(x, des).tables = x.tables
  BY DEF RenamedColumns, Snapshot
<1>2. \A x \in Snapshot : /\ RenamedIndexes(x, des).tables = x.tables
                          /\ RenamedIndexes(x, des).cols = x.cols
  BY DEF RenamedIndexes, Snapshot
<1> QED BY <1>1, <1>2, RenamedTablesType, RenamedColumnsType DEF UnderNewNames

(***************************************************************************)
(* A table dropped after the rename passes is not declared and is the source*)
(* of no directive, and its statements are gated by --allow-drop table.    *)
(***************************************************************************)
LEMMA DroppedTableSound ==
  ASSUME NEW cur \in Snapshot, NEW des \in Desired, Directed(des), ~Refused(cur, des)
  PROVE  \A s \in DroppedTableStmts(UnderNewNames(cur, des), des) : Sound(des, s)
<1> DEFINE now == UnderNewNames(cur, des)
           rs == Effective(TableDirectives(des), cur.tables)
<1>1. now \in Snapshot BY UnderNewNamesType
<1>2. now.tables = {NewName(rs, t) : t \in cur.tables}
  <2>1. RenamedTables(cur, des).tables = {NewName(rs, t) : t \in cur.tables}
    BY DEF RenamedTables, Snapshot
  <2> QED BY <2>1, NowTables
<1>3. ASSUME NEW t \in now.tables \ des.tables
      PROVE  \A r \in TableDirectives(des) : r.old # t
  <2>1. PICK u \in cur.tables : t = NewName(rs, u) BY <1>2
  <2>2. \A r \in TableDirectives(des) : r.new \in des.tables
    BY DEF TableDirectives, Directed
  <2>3. \A r \in rs : r.old # u
    <3>1. SUFFICES ASSUME NEW r \in rs, r.old = u PROVE FALSE OBVIOUS
    <3>2. NewName(rs, u) \in {x.new : x \in rs} BY <3>1 DEF NewName
    <3> QED BY <2>1, <2>2, <3>2 DEF Effective
  <2>4. t = u BY <2>1, <2>3, NewNameKept
  <2> QED BY <2>2, <2>3, <2>4 DEF Effective
<1>4. ASSUME NEW t \in now.tables \ des.tables
      PROVE  Sound(des, Stmt("table drop", "DropTable", t, NoName, "table"))
  <2>1. t \in Names BY <1>1, RowType
  <2> DEFINE s == Stmt("table drop", "DropTable", t, NoName, "table")
  <2>3. s \in Statement /\ s.op = "DropTable" /\ s.t = t /\ s.gate = "table"
    BY <2>1, BucketsAre DEF Stmt, Statement, Ops, Categories
  <2>4. SoundTables(des) BY TablesSoundWhenPlanned
  <2> HIDE DEF s
  <2>5. Sound(des, s) BY <1>3, <2>3, <2>4 DEF Sound, Justified
  <2> QED BY <2>5 DEF s
<1>5. ASSUME NEW t \in now.tables \ des.tables, NEW r \in Of(now.fks, t)
      PROVE  Sound(des, Stmt("fk drop", "DropForeignKey", t, r.n, "table"))
  <2>1. t \in Names /\ r.n \in Identifiers BY <1>1, RowType DEF Of
  <2>2. "table" \in Categories BY DEF Categories
  <2>3. "DropForeignKey" \in Harmless BY DEF Harmless
  <2> QED BY <2>1, <2>2, <2>3, HarmlessSound, BucketsAre
<1> HIDE DEF now
<1>6. ASSUME NEW s \in DroppedTableStmts(now, des) PROVE Sound(des, s)
  <2>1. PICK t \in now.tables \ des.tables :
          s \in {Stmt("fk drop", "DropForeignKey", t, r.n, "table") : r \in Of(now.fks, t)} \cup
                {Stmt("table drop", "DropTable", t, NoName, "table")}
    BY DEF DroppedTableStmts
  <2> QED BY <1>4, <1>5, <2>1
<1> QED BY <1>6 DEF now

(***************************************************************************)
(* A column that is not declared under its new name is the source of no    *)
(* directive.                                                              *)
(***************************************************************************)
LEMMA DroppedColumnUndirected ==
  ASSUME NEW cur \in Snapshot, NEW des \in Desired, Directed(des),
         NEW t \in des.tables \cap UnderNewNames(cur, des).tables,
         NEW x \in UnderNewNames(cur, des).cols, x.t = t, ~Holds(des.cols, t, x.n)
  PROVE  \A r \in Directives(des, "column", t) : r.old # x.n
<1> DEFINE moved == RenamedTables(cur, des)
           rs == Directives(des, "column", t)
<1>1. moved \in Snapshot BY RenamedTablesType
<1>2. UnderNewNames(cur, des).cols =
        {[r EXCEPT !.n = NewColumnName(moved, des, r.t, @)] : r \in moved.cols}
  <2>1. RenamedColumns(moved, des).cols =
          {[r EXCEPT !.n = NewColumnName(moved, des, r.t, @)] : r \in moved.cols}
    BY <1>1 DEF RenamedColumns, Snapshot
  <2> QED BY <2>1, NowTables
<1>3. t \in des.tables \cap moved.tables BY NowTables
<1>4. moved.cols \subseteq ColumnRow BY <1>1 DEF Snapshot
<1> HIDE DEF moved
<1>5. PICK y \in moved.cols : x = [y EXCEPT !.n = NewColumnName(moved, des, y.t, @)] BY <1>2
<1>6. x.t = y.t /\ x.n = NewColumnName(moved, des, y.t, y.n) BY <1>4, <1>5 DEF ColumnRow
<1>7. x.n = NewName(rs, y.n) BY <1>3, <1>6 DEF NewColumnName
<1>8. \A r \in rs : Holds(des.cols, t, r.new) BY DEF Directives, Directed
<1>9. \A r \in rs : r.old # y.n
  <2>1. SUFFICES ASSUME NEW r \in rs, r.old = y.n PROVE FALSE OBVIOUS
  <2>2. NewName(rs, y.n) \in {z.new : z \in rs} BY <2>1 DEF NewName
  <2> QED BY <1>7, <1>8, <2>2
<1> QED BY <1>7, <1>9, NewNameKept

(***************************************************************************)
(* Every statement diffColumns plans is sound.                             *)
(***************************************************************************)
LEMMA ColumnSound ==
  ASSUME NEW cur \in Snapshot, NEW des \in Desired, Directed(des), ~Refused(cur, des),
         NEW t \in des.tables \cap UnderNewNames(cur, des).tables
  PROVE  \A s \in ColumnStmts(UnderNewNames(cur, des), des, t) : Sound(des, s)
<1> DEFINE now == UnderNewNames(cur, des)
           cs == Of(now.cols, t)
           ds == Of(des.cols, t)
<1>1. now \in Snapshot BY UnderNewNamesType
<1>2. t \in Names BY RowType
<1>3. \A r \in cs \cup ds : r.n \in Identifiers BY <1>1, RowType DEF Of
<1>4. ASSUME NEW r \in ds PROVE Sound(des, Stmt("alter", "AddColumn", t, r.n, Ungated))
  BY <1>2, <1>3, HarmlessSound, BucketsAre DEF Harmless
<1>5. ASSUME NEW r \in ds PROVE Sound(des, Stmt("alter", "ModifyColumn", t, r.n, Ungated))
  BY <1>2, <1>3, HarmlessSound, BucketsAre DEF Harmless
<1>6. ASSUME NEW x \in cs, ~Holds(ds, t, x.n)
      PROVE  Sound(des, Stmt("alter", "DropColumn", t, x.n, "column"))
  <2>1. ~Holds(des.cols, t, x.n) BY <1>6 DEF Holds, Of
  <2>2. \A r \in Directives(des, "column", t) : r.old # x.n
    BY <2>1, DroppedColumnUndirected DEF Of
  <2> DEFINE s == Stmt("alter", "DropColumn", t, x.n, "column")
  <2>4. s \in Statement /\ s.op = "DropColumn" /\ s.t = t /\ s.n = x.n /\ s.gate = "column"
    BY <1>2, <1>3, BucketsAre DEF Stmt, Statement, Ops, Categories
  <2>5. SoundTables(des) BY TablesSoundWhenPlanned
  <2> HIDE DEF s
  <2>6. Sound(des, s) BY <2>1, <2>2, <2>4, <2>5 DEF Sound, Justified
  <2> QED BY <2>6 DEF s
<1>7. ColumnStmts(now, des, t) =
        {Stmt("alter", "AddColumn", t, r.n, Ungated) : r \in {x \in ds : ~Holds(cs, t, x.n)}} \cup
        {Stmt("alter", "ModifyColumn", t, r.n, Ungated) : r \in ModifiedColumns(cs, ds)} \cup
        {Stmt("alter", "DropColumn", t, r.n, "column") : r \in {x \in cs : ~Holds(ds, t, x.n)}}
  BY DEF ColumnStmts
<1>8. ModifiedColumns(cs, ds) \subseteq ds BY DEF ModifiedColumns
<1> HIDE DEF now, cs, ds
<1>9. \A s \in ColumnStmts(now, des, t) : Sound(des, s) BY <1>4, <1>5, <1>6, <1>7, <1>8
<1> QED BY <1>9 DEF now

(***************************************************************************)
(* Every statement diffTable plans for a table that stays is sound.        *)
(***************************************************************************)
LEMMA KeptTableSound ==
  ASSUME NEW cur \in Snapshot, NEW des \in Desired, Directed(des), ~Refused(cur, des), NEW allow
  PROVE  \A s \in KeptTableStmts(UnderNewNames(cur, des), des, allow) : Sound(des, s)
<1> DEFINE now == UnderNewNames(cur, des)
<1>1. now \in Snapshot BY UnderNewNamesType
<1>2. ASSUME NEW t \in des.tables \cap now.tables
      PROVE  \A s \in ColumnStmts(now, des, t) \cup ConstraintStmts(now, des, t) \cup
                      IndexStmts(now, des, t, allow) \cup ForeignKeyStmts(now, des, t) : Sound(des, s)
  <2>1. t \in Names BY RowType
  <2>2. \A s \in ColumnStmts(now, des, t) : Sound(des, s) BY ColumnSound
  <2> HIDE DEF now
  <2> QED BY <1>1, <2>1, <2>2, ConstraintSound, IndexSound
<1> HIDE DEF now
<1>3. ASSUME NEW s \in KeptTableStmts(now, des, allow) PROVE Sound(des, s)
  <2>1. PICK t \in des.tables \cap now.tables :
          s \in ColumnStmts(now, des, t) \cup ConstraintStmts(now, des, t) \cup
                IndexStmts(now, des, t, allow) \cup ForeignKeyStmts(now, des, t)
    BY DEF KeptTableStmts
  <2> QED BY <1>2, <2>1
<1> QED BY <1>3 DEF now

(***************************************************************************)
(* Every statement of every diff that is not refused is sound, for any     *)
(* catalog it was made from: stale, half read or half migrated.  A DROP TABLE*)
(* or DROP COLUMN takes what the files do not declare and no directive     *)
(* renames; a RENAME follows a directive.                                  *)
(***************************************************************************)
LEMMA DiffSound ==
  ASSUME NEW cur \in Snapshot, NEW des \in Desired, Directed(des), ~Refused(cur, des), NEW allow
  PROVE  \A s \in Diff(cur, des, allow) : Sound(des, s)
BY RenameSound, NestedRenameSound, NewTableSound, DroppedTableSound, KeptTableSound, ViewSound
   DEF Diff
-----------------------------------------------------------------------------
(***************************************************************************)
(* What the filters and the drop policy make of a plan, again whatever the *)
(* catalog it was made from: a statement touches names the filters show,   *)
(* and takes an object out under the gate of its category, or because the  *)
(* files declare another under its name, or with its undeclared table.     *)
(***************************************************************************)
Visible(shown, s) ==
  /\ s.op \in {"PutView", "DropView"} => s.n \in shown
  /\ s.op \notin {"PutView", "DropView", "Execute"} => s.t \in shown
  /\ s.op = "RenameTable" => s.to \in shown

Entitled(des, s) ==
  /\ s.op = "DropForeignKey" =>
       \/ s.gate = "foreign_key" \/ Holds(des.fks, s.t, s.n)
       \/ s.gate = "table" /\ s.t \notin des.tables
  /\ s.op = "DropConstraint" =>
       s.gate = "constraint" \/ Holds(des.pks \cup des.checks, s.t, s.n)
  /\ s.op = "DropIndex" => s.gate = "index" \/ Holds(des.keys, s.t, s.n)
  /\ s.op = "DropView" => s.gate = "view"
  /\ s.op = "PutView" => s.n \in ViewNames(des.views)
  /\ s.op = "RenameIndex" =>
       \E r \in Directives(des, "index", s.t) : r.old = s.n /\ r.new = s.to

Scoped(shown, des, s) == Visible(shown, s) /\ Entitled(des, s)

(***************************************************************************)
(* filterTables and filterViews leave tables and views that are shown.     *)
(***************************************************************************)
LEMMA FilteredShown ==
  ASSUME NEW shown
  PROVE  /\ \A x \in Snapshot : /\ Filtered(x, shown).tables \subseteq shown
                                /\ ViewNames(Filtered(x, shown).views) \subseteq shown
         /\ \A x \in Desired : /\ FilteredDesired(x, shown).tables \subseteq shown
                               /\ ViewNames(FilteredDesired(x, shown).views) \subseteq shown
<1>1. ASSUME NEW x \in Snapshot \cup Desired
      PROVE  /\ Filtered(x, shown).tables \subseteq shown
             /\ ViewNames(Filtered(x, shown).views) \subseteq shown
  BY DEF Filtered, ViewNames, Snapshot, Desired
<1>2. ASSUME NEW x \in Desired
      PROVE  /\ FilteredDesired(x, shown).tables = Filtered(x, shown).tables
             /\ FilteredDesired(x, shown).views = Filtered(x, shown).views
  BY DEF FilteredDesired, Filtered, Desired
<1> QED BY <1>1, <1>2

(***************************************************************************)
(* A plan made from what the filters let through stays within it.          *)
(***************************************************************************)
LEMMA DiffScoped ==
  ASSUME NEW cur \in Snapshot, NEW des \in Desired, Directed(des), NEW allow, NEW shown,
         cur.tables \subseteq shown, ViewNames(cur.views) \subseteq shown,
         des.tables \subseteq shown, ViewNames(des.views) \subseteq shown
  PROVE  \A s \in Diff(cur, des, allow) : Scoped(shown, des, s)
<1> DEFINE now == UnderNewNames(cur, des)
           rs == Effective(TableDirectives(des), cur.tables)
<1>1. \A r \in TableDirectives(des) : r.new \in des.tables
  BY DEF TableDirectives, Directed
<1>2. now.tables \subseteq shown
  <2>1. now.tables = {NewName(rs, t) : t \in cur.tables}
    <3>1. RenamedTables(cur, des).tables = {NewName(rs, t) : t \in cur.tables}
      BY DEF RenamedTables, Snapshot
    <3> QED BY <3>1, NowTables
  <2>2. \A r \in rs : r.new \in shown BY <1>1 DEF Effective
  <2> QED BY <2>1, <2>2, NewNameType
<1>3. ASSUME NEW s \in RenameStmts(cur, des) PROVE Scoped(shown, des, s)
  <2>1. PICK r \in rs : s = RenameStmt("rename", "RenameTable", r.old, NoName, r.new)
    BY DEF RenameStmts
  <2>2. r.old \in shown /\ r.new \in shown BY <1>1 DEF Effective
  <2> QED BY <2>1, <2>2 DEF Scoped, Visible, Entitled, RenameStmt
<1>4. ASSUME NEW moved, NEW s \in NestedRenameStmts(moved, des) PROVE Scoped(shown, des, s)
  <2>1. PICK t \in des.tables :
          \/ \E r : s = RenameStmt("alter", "RenameColumn", t, r.old, r.new)
          \/ \E r \in Directives(des, "index", t) :
               s = RenameStmt("alter", "RenameIndex", t, r.old, r.new)
    BY DEF NestedRenameStmts, Effective
  <2> QED BY <2>1 DEF Scoped, Visible, Entitled, RenameStmt
<1>5. ASSUME NEW s \in NewTableStmts(now, des) PROVE Scoped(shown, des, s)
  <2>1. PICK t \in des.tables, op \in {"CreateTable", "CreateIndex", "AddForeignKey"} :
          \E b, n : s = Stmt(b, op, t, n, Ungated)
    BY DEF NewTableStmts
  <2> QED BY <2>1 DEF Scoped, Visible, Entitled, Stmt
<1>6. ASSUME NEW s \in DroppedTableStmts(now, des) PROVE Scoped(shown, des, s)
  <2>1. PICK t \in now.tables \ des.tables, op \in {"DropForeignKey", "DropTable"} :
          \E b, n : s = Stmt(b, op, t, n, "table")
    BY DEF DroppedTableStmts
  <2> QED BY <1>2, <2>1 DEF Scoped, Visible, Entitled, Stmt
<1>7. ASSUME NEW s \in KeptTableStmts(now, des, allow) PROVE Scoped(shown, des, s)
  <2>1. PICK t \in des.tables :
          s \in ColumnStmts(now, des, t) \cup ConstraintStmts(now, des, t) \cup
                IndexStmts(now, des, t, allow) \cup ForeignKeyStmts(now, des, t)
    BY DEF KeptTableStmts
  <2>2. ASSUME NEW rows, NEW r, NEW kind, r.t = t
        PROVE  GateOf(Of(rows, t), r, kind) = kind \/ Holds(rows, t, r.n)
    BY <2>2 DEF GateOf, Holds, Of
  <2>3. CASE s \in ColumnStmts(now, des, t)
    <3>1. PICK op \in {"AddColumn", "ModifyColumn", "DropColumn"} :
            \E n, gate : s = Stmt("alter", op, t, n, gate)
      BY <2>3 DEF ColumnStmts
    <3> QED BY <3>1 DEF Scoped, Visible, Entitled, Stmt
  <2>4. CASE s \in ConstraintStmts(now, des, t)
    <3> DEFINE ds == Of(des.pks, t) \cup Of(des.checks, t)
    <3>1. ds = Of(des.pks \cup des.checks, t) BY DEF Of
    <3>2. \/ \E n : s = Stmt("alter", "AddConstraint", t, n, Ungated)
          \/ \E r \in Of(now.pks, t) \cup Of(now.checks, t) :
               s = Stmt("alter", "DropConstraint", t, r.n, GateOf(ds, r, "constraint"))
      BY <2>4 DEF ConstraintStmts
    <3> HIDE DEF ds
    <3>3. ASSUME NEW n, s = Stmt("alter", "AddConstraint", t, n, Ungated) PROVE Scoped(shown, des, s)
      BY <3>3 DEF Scoped, Visible, Entitled, Stmt
    <3>4. ASSUME NEW r \in Of(now.pks, t) \cup Of(now.checks, t),
                 s = Stmt("alter", "DropConstraint", t, r.n, GateOf(ds, r, "constraint"))
          PROVE  Scoped(shown, des, s)
      <4>1. r.t = t BY DEF Of
      <4>2. GateOf(ds, r, "constraint") = "constraint" \/ Holds(des.pks \cup des.checks, t, r.n)
        BY <2>2, <3>1, <4>1
      <4> QED BY <3>4, <4>2 DEF Scoped, Visible, Entitled, Stmt
    <3> QED BY <3>2, <3>3, <3>4
  <2>5. CASE s \in IndexStmts(now, des, t, allow)
    <3>1. \/ \E n : s = Stmt("alter", "CreateIndex", t, n, Ungated)
          \/ \E r \in Of(now.keys, t) :
               s = Stmt("alter", "DropIndex", t, r.n, GateOf(Of(des.keys, t), r, "index"))
      BY <2>5 DEF IndexStmts
    <3>2. ASSUME NEW n, s = Stmt("alter", "CreateIndex", t, n, Ungated) PROVE Scoped(shown, des, s)
      BY <3>2 DEF Scoped, Visible, Entitled, Stmt
    <3>3. ASSUME NEW r \in Of(now.keys, t),
                 s = Stmt("alter", "DropIndex", t, r.n, GateOf(Of(des.keys, t), r, "index"))
          PROVE  Scoped(shown, des, s)
      <4>1. r.t = t BY DEF Of
      <4>2. GateOf(Of(des.keys, t), r, "index") = "index" \/ Holds(des.keys, t, r.n)
        BY <2>2, <4>1
      <4> QED BY <3>3, <4>2 DEF Scoped, Visible, Entitled, Stmt
    <3> QED BY <3>1, <3>2, <3>3
  <2>6. CASE s \in ForeignKeyStmts(now, des, t)
    <3>1. \/ \E n : s = Stmt("fk add", "AddForeignKey", t, n, Ungated)
          \/ \E r \in Of(now.fks, t) :
               s = Stmt("fk drop", "DropForeignKey", t, r.n, GateOf(Of(des.fks, t), r, "foreign_key"))
      BY <2>6 DEF ForeignKeyStmts
    <3>2. ASSUME NEW n, s = Stmt("fk add", "AddForeignKey", t, n, Ungated) PROVE Scoped(shown, des, s)
      BY <3>2 DEF Scoped, Visible, Entitled, Stmt
    <3>3. ASSUME NEW r \in Of(now.fks, t),
                 s = Stmt("fk drop", "DropForeignKey", t, r.n, GateOf(Of(des.fks, t), r, "foreign_key"))
          PROVE  Scoped(shown, des, s)
      <4>1. r.t = t BY DEF Of
      <4>2. GateOf(Of(des.fks, t), r, "foreign_key") = "foreign_key" \/ Holds(des.fks, t, r.n)
        BY <2>2, <4>1
      <4> QED BY <3>3, <4>2 DEF Scoped, Visible, Entitled, Stmt
    <3> QED BY <3>1, <3>2, <3>3
  <2> QED BY <2>1, <2>3, <2>4, <2>5, <2>6
<1>8. ASSUME NEW s \in ViewStmts(cur, des) PROVE Scoped(shown, des, s)
  <2>1. \/ \E r \in des.views : s = Stmt("view put", "PutView", NoName, r.n, Ungated)
        \/ \E r \in cur.views : s = Stmt("view drop", "DropView", NoName, r.n, "view")
    BY DEF ViewStmts
  <2>2. ASSUME NEW r \in des.views, s = Stmt("view put", "PutView", NoName, r.n, Ungated)
        PROVE  Scoped(shown, des, s)
    <3>1. r.n \in ViewNames(des.views) BY DEF ViewNames
    <3> QED BY <2>2, <3>1 DEF Scoped, Visible, Entitled, Stmt
  <2>3. ASSUME NEW r \in cur.views, s = Stmt("view drop", "DropView", NoName, r.n, "view")
        PROVE  Scoped(shown, des, s)
    <3>1. r.n \in ViewNames(cur.views) BY DEF ViewNames
    <3> QED BY <2>3, <3>1 DEF Scoped, Visible, Entitled, Stmt
  <2> QED BY <2>1, <2>2, <2>3
<1> HIDE DEF now
<1>9. Diff(cur, des, allow) =
        RenameStmts(cur, des) \cup NestedRenameStmts(RenamedTables(cur, des), des) \cup
        NewTableStmts(now, des) \cup DroppedTableStmts(now, des) \cup
        KeptTableStmts(now, des, allow) \cup ViewStmts(cur, des)
  BY DEF Diff, now
<1> QED BY <1>3, <1>4, <1>5, <1>6, <1>7, <1>8, <1>9

-----------------------------------------------------------------------------
(***************************************************************************)
(* What a plan adds, after the rename passes: tables the files declare and *)
(* the catalog lacks, and columns of tables both have.                     *)
(***************************************************************************)
LEMMA DiffCreates ==
  ASSUME NEW cur, NEW des, NEW allow, NEW s \in Diff(cur, des, allow)
  PROVE  LET now == UnderNewNames(cur, des)
         IN  /\ s.op = "CreateTable" => s.t \in des.tables \ now.tables
             /\ s.op \in {"AddColumn", "ModifyColumn"} =>
                  s.t \in des.tables \cap now.tables /\ Holds(des.cols, s.t, s.n)
             /\ s.op = "AddColumn" => ~Holds(now.cols, s.t, s.n)
<1> DEFINE now == UnderNewNames(cur, des)
           Others == {"RenameTable", "RenameColumn", "RenameIndex", "CreateIndex", "AddForeignKey",
                      "DropForeignKey", "DropTable", "DropConstraint", "AddConstraint", "DropIndex",
                      "PutView", "DropView", "DropColumn"}
           Goal == /\ s.op = "CreateTable" => s.t \in des.tables \ now.tables
                   /\ s.op \in {"AddColumn", "ModifyColumn"} =>
                        s.t \in des.tables \cap now.tables /\ Holds(des.cols, s.t, s.n)
                   /\ s.op = "AddColumn" => ~Holds(now.cols, s.t, s.n)
<1> SUFFICES Goal OBVIOUS
<1>1. s.op \in Others => Goal OBVIOUS
<1>2. \A b, op, t, n, gate : Stmt(b, op, t, n, gate).op = op /\ Stmt(b, op, t, n, gate).t = t /\
                             Stmt(b, op, t, n, gate).n = n
  BY DEF Stmt
<1>3. \A b, op, t, n, to : RenameStmt(b, op, t, n, to).op = op BY DEF RenameStmt
<1>4. CASE s \in RenameStmts(cur, des) BY <1>1, <1>3, <1>4 DEF RenameStmts
<1>5. CASE s \in NestedRenameStmts(RenamedTables(cur, des), des)
  <2>1. s.op \in {"RenameColumn", "RenameIndex"} BY <1>3, <1>5 DEF NestedRenameStmts
  <2> QED BY <1>1, <2>1
<1> HIDE DEF now
<1>6. CASE s \in NewTableStmts(now, des)
  <2>1. PICK t \in des.tables \ now.tables, op \in {"CreateTable", "CreateIndex", "AddForeignKey"} :
          \E b, n : s = Stmt(b, op, t, n, Ungated)
    BY <1>6 DEF NewTableStmts
  <2>2. s.t = t /\ s.op = op BY <1>2, <2>1
  <2> QED BY <2>1, <2>2
<1>7. CASE s \in DroppedTableStmts(now, des)
  <2>1. PICK op \in {"DropForeignKey", "DropTable"} : \E b, t, n : s = Stmt(b, op, t, n, "table")
    BY <1>7 DEF DroppedTableStmts
  <2>2. s.op = op BY <1>2, <2>1
  <2> QED BY <1>1, <2>1, <2>2
<1>8. CASE s \in KeptTableStmts(now, des, allow)
  <2>1. PICK t \in des.tables \cap now.tables :
          s \in ColumnStmts(now, des, t) \cup ConstraintStmts(now, des, t) \cup
                IndexStmts(now, des, t, allow) \cup ForeignKeyStmts(now, des, t)
    BY <1>8 DEF KeptTableStmts
  <2>2. CASE s \in ColumnStmts(now, des, t)
    <3>1. \/ \E r \in Of(des.cols, t) : /\ ~Holds(Of(now.cols, t), t, r.n)
                                        /\ s = Stmt("alter", "AddColumn", t, r.n, Ungated)
          \/ \E r \in Of(des.cols, t) : s = Stmt("alter", "ModifyColumn", t, r.n, Ungated)
          \/ \E r : s = Stmt("alter", "DropColumn", t, r.n, "column")
      BY <2>2 DEF ColumnStmts, ModifiedColumns
    <3>2. \A n : Holds(now.cols, t, n) => Holds(Of(now.cols, t), t, n) BY DEF Holds, Of
    <3>3. \A r \in Of(des.cols, t) : Holds(des.cols, t, r.n) BY DEF Holds, Of
    <3> QED BY <1>2, <3>1, <3>2, <3>3
  <2>3. CASE s \notin ColumnStmts(now, des, t)
    <3>1. PICK op \in {"DropConstraint", "AddConstraint", "DropIndex", "CreateIndex",
                       "DropForeignKey", "AddForeignKey"} :
            \E b, n, gate : s = Stmt(b, op, t, n, gate)
      BY <2>1, <2>3 DEF ConstraintStmts, IndexStmts, ForeignKeyStmts
    <3>2. s.op = op BY <1>2, <3>1
    <3> QED BY <1>1, <3>1, <3>2
  <2> QED BY <2>2, <2>3
<1>9. CASE s \in ViewStmts(cur, des)
  <2>1. PICK op \in {"PutView", "DropView"} : \E b, t, n, gate : s = Stmt(b, op, t, n, gate)
    BY <1>9 DEF ViewStmts
  <2>2. s.op = op BY <1>2, <2>1
  <2> QED BY <1>1, <2>1, <2>2
<1>10. Diff(cur, des, allow) =
        RenameStmts(cur, des) \cup NestedRenameStmts(RenamedTables(cur, des), des) \cup
        NewTableStmts(now, des) \cup DroppedTableStmts(now, des) \cup
        KeptTableStmts(now, des, allow) \cup ViewStmts(cur, des)
  BY DEF Diff, now
<1> QED BY <1>4, <1>5, <1>6, <1>7, <1>8, <1>9, <1>10 DEF now

(***************************************************************************)
(* The directives that ask for something: of a table, of a column of t.    *)
(***************************************************************************)
Asking(rs) == {r \in rs : r.old # r.new}

(***************************************************************************)
(* Of a source and its destination exactly one is there.                   *)
(***************************************************************************)
OneOf(rs, present) == \A r \in Asking(rs) : (r.old \in present) # (r.new \in present)

(***************************************************************************)
(* What the shared refusals of the rename passes leave.                    *)
(***************************************************************************)
LEMMA NotRefused ==
  ASSUME NEW rs, NEW declared, NEW present
  PROVE  ~RenameRefused(rs, declared, present) <=>
           /\ \A r, s \in rs : r.old = s.old => r = s
           /\ \A r \in Asking(rs) : r.old \notin declared
           /\ OneOf(rs, present)
BY DEF RenameRefused, OneOf, Asking

(***************************************************************************)
(* Renaming the sources that are there leaves exactly the destinations:    *)
(* every destination is there after the pass.                              *)
(***************************************************************************)
LEMMA DestinationThere ==
  ASSUME NEW rs, NEW present, NEW r \in Asking(rs), OneOf(rs, present),
         \A x, y \in rs : x.old = y.old => x = y,
         \A x \in Asking(rs) : \A y \in rs : x.old # y.new
  PROVE  \E x \in present : NewName(rs, x) = r.new
<1>1. CASE r.old \in present
  <2>1. NewName(rs, r.old) = r.new BY NewNameOf DEF Asking
  <2> QED BY <1>1, <2>1
<1>2. CASE r.new \in present
  <2>1. CASE \E x \in rs : x.old = r.new
    <3>1. PICK x \in rs : x.old = r.new BY <2>1
    <3>2. x.new = r.new BY <3>1 DEF Asking
    <3>3. NewName(rs, x.old) = x.new BY NewNameOf
    <3> QED BY <1>2, <3>1, <3>2, <3>3
  <2>2. CASE \A x \in rs : x.old # r.new BY <1>2, <2>2, NewNameKept
  <2> QED BY <2>1, <2>2
<1> QED BY <1>1, <1>2 DEF OneOf

(***************************************************************************)
(* applyTableRenames skips the directives whose source is not there, which *)
(* is no different for a table that is.                                    *)
(***************************************************************************)
LEMMA EffectiveName ==
  ASSUME NEW rs, NEW present, NEW x \in present, \A r, s \in rs : r.old = s.old => r = s
  PROVE  NewName(Effective(rs, present), x) = NewName(rs, x)
<1> DEFINE es == Effective(rs, present)
<1>1. es \subseteq rs BY DEF Effective
<1>2. CASE \E r \in rs : r.old = x /\ r.new # x
  <2>1. PICK r \in rs : r.old = x /\ r.new # x BY <1>2
  <2>2. r \in es BY <2>1 DEF Effective
  <2>3. NewName(es, r.old) = r.new BY <1>1, <2>2, NewNameOf
  <2>4. NewName(rs, r.old) = r.new BY NewNameOf
  <2> QED BY <2>1, <2>3, <2>4
<1>3. CASE \E r \in rs : r.old = x /\ r.new = x
  <2>1. PICK r \in rs : r.old = x /\ r.new = x BY <1>3
  <2>2. \A s \in es : s.old # x BY <1>1, <2>1 DEF Effective
  <2>3. NewName(es, x) = x BY <2>2, NewNameKept
  <2>4. NewName(rs, r.old) = r.new BY NewNameOf
  <2> QED BY <2>1, <2>3, <2>4
<1>4. CASE \A r \in rs : r.old # x
  <2>1. \A r \in es : r.old # x BY <1>1, <1>4
  <2>2. NewName(es, x) = x BY <2>1, NewNameKept
  <2>3. NewName(rs, x) = x BY <1>4, NewNameKept
  <2> QED BY <2>2, <2>3
<1> QED BY <1>2, <1>3, <1>4

(***************************************************************************)
(* What the files say of a statement that adds: it makes what they declare *)
(* and never what a directive is to make by renaming.                      *)
(***************************************************************************)
Additive(des, s) ==
  /\ s.op = "CreateTable" =>
       /\ s.t \in des.tables
       /\ \A r \in Asking(TableDirectives(des)) : r.new # s.t
  /\ s.op \in {"AddColumn", "ModifyColumn"} =>
       s.t \in des.tables /\ Holds(des.cols, s.t, s.n)
  /\ s.op = "AddColumn" =>
       \A r \in Asking(Directives(des, "column", s.t)) : r.new # s.n

(***************************************************************************)
(* That holds of every statement of every diff that is not refused, for any*)
(* catalog it was made from.                                               *)
(***************************************************************************)
LEMMA DiffAdditive ==
  ASSUME NEW cur \in Snapshot, NEW des \in Desired, Directed(des), ~Refused(cur, des), NEW allow
  PROVE  \A s \in Diff(cur, des, allow) : Additive(des, s)
<1> DEFINE moved == RenamedTables(cur, des)
           now == UnderNewNames(cur, des)
           rs == TableDirectives(des)
<1>1. SUFFICES ASSUME NEW s \in Diff(cur, des, allow) PROVE Additive(des, s) OBVIOUS
<1>2. /\ s.op = "CreateTable" => s.t \in des.tables \ now.tables
      /\ s.op \in {"AddColumn", "ModifyColumn"} =>
           s.t \in des.tables \cap now.tables /\ Holds(des.cols, s.t, s.n)
      /\ s.op = "AddColumn" => ~Holds(now.cols, s.t, s.n)
  BY DiffCreates
<1>3. ASSUME NEW r \in Asking(rs) PROVE r.new \in now.tables
  <2>1. ~RenameRefused(rs, des.tables, cur.tables) BY DEF Refused
  <2>2. \A x, y \in rs : x.old = y.old => x = y BY <2>1, NotRefused
  <2>3. \A x \in Asking(rs) : x.old \notin des.tables BY <2>1, NotRefused
  <2>4. OneOf(rs, cur.tables) BY <2>1, NotRefused
  <2>5. \A y \in rs : y.new \in des.tables BY DEF Directed, TableDirectives
  <2>6. PICK x \in cur.tables : NewName(rs, x) = r.new
    <3> HIDE DEF rs
    <3> QED BY <2>2, <2>3, <2>4, <2>5, DestinationThere
  <2>7. NewName(Effective(rs, cur.tables), x) = r.new BY <2>2, <2>6, EffectiveName
  <2>8. moved.tables = {NewName(Effective(rs, cur.tables), y) : y \in cur.tables}
    BY DEF RenamedTables, Snapshot
  <2> QED BY <2>7, <2>8, NowTables
<1>4. ASSUME NEW t \in des.tables \cap now.tables, NEW r \in Asking(Directives(des, "column", t))
      PROVE  Holds(now.cols, t, r.new)
  <2> DEFINE ds == Directives(des, "column", t)
  <2>1. t \in des.tables \cap moved.tables BY NowTables
  <2>2. ~RenameRefused(ds, NamesOf(des.cols, t), NamesOf(moved.cols, t))
    BY <2>1 DEF Refused, NestedRefused
  <2>3. \A x, y \in ds : x.old = y.old => x = y BY <2>2, NotRefused
  <2>4. \A x \in Asking(ds) : x.old \notin NamesOf(des.cols, t) BY <2>2, NotRefused
  <2>5. OneOf(ds, NamesOf(moved.cols, t)) BY <2>2, NotRefused
  <2>6. \A y \in ds : y.new \in NamesOf(des.cols, t)
    BY DEF Directed, Directives, NamesOf, Of, Holds
  <2>7. PICK c \in NamesOf(moved.cols, t) : NewName(ds, c) = r.new
    <3>1. r \in Asking(ds) OBVIOUS
    <3> HIDE DEF ds, moved
    <3> QED BY <3>1, <2>3, <2>4, <2>5, <2>6, DestinationThere
  <2>8. PICK y \in moved.cols : y.t = t /\ y.n = c BY DEF NamesOf, Of
  <2>9. moved \in Snapshot BY RenamedTablesType
  <2>10. moved.cols \subseteq ColumnRow BY <2>9 DEF Snapshot
  <2>11. now.cols = {[x EXCEPT !.n = NewColumnName(moved, des, x.t, @)] : x \in moved.cols}
    <3>1. RenamedColumns(moved, des).cols =
            {[x EXCEPT !.n = NewColumnName(moved, des, x.t, @)] : x \in moved.cols}
      BY <2>9 DEF RenamedColumns, Snapshot
    <3> QED BY <3>1, NowTables
  <2> HIDE DEF moved, now
  <2>12. NewColumnName(moved, des, y.t, y.n) = r.new BY <2>1, <2>7, <2>8 DEF NewColumnName
  <2> DEFINE z == [y EXCEPT !.n = NewColumnName(moved, des, y.t, @)]
  <2>13. z \in now.cols BY <2>11
  <2>14. z.t = t /\ z.n = r.new BY <2>8, <2>10, <2>12 DEF ColumnRow
  <2> QED BY <2>13, <2>14 DEF Holds
<1> HIDE DEF moved, now, rs
<1>5. s.op = "CreateTable" => \A r \in Asking(rs) : r.new # s.t BY <1>2, <1>3
<1>6. s.op = "AddColumn" => \A r \in Asking(Directives(des, "column", s.t)) : r.new # s.n
  BY <1>2, <1>4
<1> QED BY <1>2, <1>5, <1>6 DEF Additive, rs

-----------------------------------------------------------------------------
(***************************************************************************)
(* Views.  A view depends on itself and on whatever one it reads depends   *)
(* on.                                                                     *)
(***************************************************************************)
LEMMA DependsThrough ==
  ASSUME NEW views, NEW v, NEW w \in ViewNames(views), NEW x,
         Reads(views, v, w), Depends(views, w, x)
  PROVE  Depends(views, v, x)
BY DEF Depends, ClosedUnder

LEMMA DependsOnItself ==
  ASSUME NEW views, NEW v
  PROVE  Depends(views, v, v)
BY DEF Depends

(***************************************************************************)
(* Views taken away close no circle.                                       *)
(***************************************************************************)
LEMMA FewerViews ==
  ASSUME NEW views, NEW fewer, fewer \subseteq views, ~Cyclic(views)
  PROVE  ~Cyclic(fewer)
<1>1. ViewNames(fewer) \subseteq ViewNames(views) BY DEF ViewNames
<1>2. \A v, w : Reads(fewer, v, w) => Reads(views, v, w) BY DEF Reads
<1> QED BY <1>1, <1>2 DEF Cyclic

(***************************************************************************)
(* The views the filters let through.                                      *)
(***************************************************************************)
ShownViews(views, shown) == {r \in views : r.n \in shown}

-----------------------------------------------------------------------------
(***************************************************************************)
(* A diff that finds nothing to do.                                        *)
(*                                                                         *)
(* A catalog is Whole when an object has one row, and the columns of its   *)
(* keys and foreign keys are columns of a table that is there; the table a *)
(* foreign key refers to may be hidden.  Files are Placed when what they   *)
(* declare is part of a table they declare.                                *)
(***************************************************************************)
OneRow(rows) == \A r, s \in rows : r.t = s.t /\ r.n = s.n => r = s
OneView(x)   == \A v, w \in x.views : v.n = w.n => v = w

Whole(cur) ==
  /\ OneRow(cur.cols)
  /\ OneView(cur)
  /\ \A r \in cur.cols : r.t \in cur.tables
  /\ \A r \in cur.checks : r.t \in cur.tables
  /\ \A r \in cur.pks \cup cur.keys : r.t \in cur.tables /\ Known(cur, r.t, ListOf(r.cols))
  /\ \A f \in cur.fks :
       /\ f.t \in cur.tables /\ Known(cur, f.t, {f.col})
       /\ f.ref \in cur.tables => Known(cur, f.ref, {f.refcol})

Placed(x) ==
  \A r \in UNION {x.cols, x.pks, x.keys, x.checks, x.fks} : r.t \in x.tables

(***************************************************************************)
(* Without a table to rename applyTableRenames leaves everything as it is. *)
(***************************************************************************)
LEMMA TablesUnrenamed ==
  ASSUME NEW cur \in Snapshot \cup Database, NEW des,
         Effective(TableDirectives(des), cur.tables) = {}
  PROVE  RenamedTables(cur, des) = cur
<1> DEFINE to(x) == NewName({}, x)
           Moved(rows) == {[r EXCEPT !.t = to(@)] : r \in rows}
           fks2 == {[r EXCEPT !.ref = to(@)] : r \in Moved(cur.fks)}
<1>1. \A x : to(x) = x BY NewNameKept
<1>2. {to(t) : t \in cur.tables} = cur.tables BY <1>1
<1>3. ASSUME NEW rows, NEW K, rows \subseteq K, \A r \in K : [r EXCEPT !.t = r.t] = r
      PROVE  Moved(rows) = rows
  <2>1. \A r \in rows : [r EXCEPT !.t = to(@)] = r BY <1>1, <1>3
  <2> QED BY <2>1
<1>4. Moved(cur.cols) = cur.cols BY <1>1 DEF Snapshot, Database, ColumnRow
<1>5. Moved(cur.pks) = cur.pks BY <1>1 DEF Snapshot, Database, PrimaryRow
<1>6. Moved(cur.keys) = cur.keys BY <1>1 DEF Snapshot, Database, IndexRow
<1>7. Moved(cur.checks) = cur.checks BY <1>1 DEF Snapshot, Database, CheckRow
<1>8. Moved(cur.fks) = cur.fks BY <1>1 DEF Snapshot, Database, ForeignKeyRow
<1>9. fks2 = cur.fks BY <1>1, <1>8 DEF Snapshot, Database, ForeignKeyRow
<1>10. RenamedTables(cur, des) =
         [cur EXCEPT !.tables = {to(t) : t \in @}, !.cols = Moved(@), !.pks = Moved(@),
                     !.keys = Moved(@), !.checks = Moved(@), !.fks = fks2]
  BY DEF RenamedTables
<1> HIDE DEF fks2, Moved
<1>11. CASE cur \in Snapshot
  BY ZenonT(60), <1>2, <1>4, <1>5, <1>6, <1>7, <1>9, <1>10, <1>11 DEF Snapshot
<1>12. CASE cur \in Database
  BY ZenonT(60), <1>2, <1>4, <1>5, <1>6, <1>7, <1>9, <1>10, <1>12 DEF Database
<1> QED BY <1>11, <1>12

(***************************************************************************)
(* A column that is there keeps its name unless a directive renames it.    *)
(***************************************************************************)
LEMMA NameUnrenamed ==
  ASSUME NEW cur, NEW des, NEW t, NEW c, t \in cur.tables => Holds(cur.cols, t, c),
         \A u \in des.tables \cap cur.tables :
           Effective(Directives(des, "column", u), NamesOf(cur.cols, u)) = {}
  PROVE  NewColumnName(cur, des, t, c) = c
<1> DEFINE rs == Directives(des, "column", t)
<1>1. CASE t \in cur.tables \cap des.tables
  <2>1. c \in NamesOf(cur.cols, t) BY <1>1 DEF Holds, NamesOf, Of
  <2>2. \A r \in rs : r.old = c => r.new = c BY <1>1, <2>1 DEF Effective
  <2>3. NewName(rs, c) = c BY <2>2 DEF NewName
  <2> QED BY <1>1, <2>3 DEF NewColumnName
<1>2. CASE t \notin cur.tables \cap des.tables BY <1>2 DEF NewColumnName
<1> QED BY <1>1, <1>2

(***************************************************************************)
(* So without a column to rename applyColumnRenames and the rewrite passes *)
(* leave a whole catalog as it is.                                         *)
(***************************************************************************)
LEMMA ColumnsUnrenamed ==
  ASSUME NEW cur \in Snapshot \cup Database, NEW des, Whole(cur),
         \A u \in des.tables \cap cur.tables :
           Effective(Directives(des, "column", u), NamesOf(cur.cols, u)) = {}
  PROVE  RenamedColumns(cur, des) = cur
<1> DEFINE to(t, c) == NewColumnName(cur, des, t, c)
           L(r) == [r EXCEPT !.cols = [i \in DOMAIN @ |-> to(r.t, @[i])]]
           F(r) == [r EXCEPT !.col = to(r.t, @), !.refcol = ParentColumn(cur, des, r)]
           C(r) == [r EXCEPT !.n = to(r.t, @)]
<1>1. ASSUME NEW t, NEW c, t \in cur.tables => Holds(cur.cols, t, c) PROVE to(t, c) = c
  BY <1>1, NameUnrenamed
<1>2. ASSUME NEW r \in cur.cols PROVE C(r) = r
  <2>1. to(r.t, r.n) = r.n BY <1>1 DEF Holds
  <2> QED BY <2>1 DEF Snapshot, Database, ColumnRow
<1>3. ASSUME NEW N, NEW r \in [t : Names, n : N, cols : Seq(Columns)],
             Known(cur, r.t, ListOf(r.cols))
      PROVE  L(r) = r
  <2>1. \A i \in DOMAIN r.cols : to(r.t, r.cols[i]) = r.cols[i]
    BY <1>1, <1>3 DEF Known, ListOf
  <2>2. [i \in DOMAIN r.cols |-> to(r.t, r.cols[i])] = r.cols
    <3>1. [i \in DOMAIN r.cols |-> to(r.t, r.cols[i])] = [i \in DOMAIN r.cols |-> r.cols[i]]
      BY <2>1
    <3>2. r.cols \in Seq(Columns) OBVIOUS
    <3>3. r.cols = [i \in DOMAIN r.cols |-> r.cols[i]] BY <3>2
    <3> QED BY <3>1, <3>3
  <2>3. L(r) = [r EXCEPT !.cols = r.cols] BY <2>2
  <2> QED BY <2>3
<1>4. ASSUME NEW r \in cur.fks PROVE F(r) = r
  <2>1. to(r.t, r.col) = r.col BY <1>1 DEF Whole, Known
  <2>2. ParentColumn(cur, des, r) = r.refcol
    <3>1. r.ref \in cur.tables => Holds(cur.cols, r.ref, r.refcol) BY DEF Whole, Known
    <3> QED BY <1>1, <3>1 DEF ParentColumn
  <2> QED BY <2>1, <2>2 DEF Snapshot, Database, ForeignKeyRow
<1>5. \A r \in cur.pks : L(r) = r BY <1>3 DEF Whole, Snapshot, Database, PrimaryRow
<1>6. \A r \in cur.keys : L(r) = r BY <1>3 DEF Whole, Snapshot, Database, IndexRow
<1>7. RenamedColumns(cur, des) =
        [cur EXCEPT !.cols = {C(r) : r \in @}, !.pks = {L(r) : r \in @},
                    !.keys = {L(r) : r \in @}, !.fks = {F(r) : r \in @}]
  BY DEF RenamedColumns
<1> HIDE DEF C, L, F
<1>8. /\ {C(r) : r \in cur.cols} = cur.cols
      /\ {L(r) : r \in cur.pks} = cur.pks
      /\ {L(r) : r \in cur.keys} = cur.keys
      /\ {F(r) : r \in cur.fks} = cur.fks
  BY <1>2, <1>4, <1>5, <1>6
<1> QED BY <1>7, <1>8 DEF Snapshot, Database

(***************************************************************************)
(* And without an index to rename applyIndexRenames does.                  *)
(***************************************************************************)
LEMMA IndexesUnrenamed ==
  ASSUME NEW cur \in Snapshot \cup Database, NEW des, Whole(cur),
         \A u \in des.tables \cap cur.tables :
           Effective(Directives(des, "index", u), NamesOf(cur.keys, u)) = {}
  PROVE  RenamedIndexes(cur, des) = cur
<1> DEFINE I(r) == IF r.t \in des.tables
                   THEN [r EXCEPT !.n = NewName(Effective(Directives(des, "index", r.t),
                                                          NamesOf(cur.keys, r.t)), @)]
                   ELSE r
<1>1. ASSUME NEW r \in cur.keys PROVE I(r) = r
  <2>1. CASE r.t \in des.tables
    <3>1. Effective(Directives(des, "index", r.t), NamesOf(cur.keys, r.t)) = {}
      BY <2>1 DEF Whole
    <3>2. NewName({}, r.n) = r.n BY NewNameKept
    <3>3. I(r) = [r EXCEPT !.n = r.n] BY <2>1, <3>1, <3>2
    <3> QED BY <3>3 DEF Snapshot, Database, IndexRow
  <2>2. CASE r.t \notin des.tables BY <2>2
  <2> QED BY <2>1, <2>2
<1>2. RenamedIndexes(cur, des) = [cur EXCEPT !.keys = {I(r) : r \in @}] BY DEF RenamedIndexes
<1> HIDE DEF I
<1>3. {I(r) : r \in cur.keys} = cur.keys BY <1>1
<1> QED BY <1>2, <1>3 DEF Snapshot, Database

(***************************************************************************)
(* Nothing is left to do: whatever the diff says is not permitted.         *)
(***************************************************************************)
NothingToDo(cur, des, allow) == \A s \in Diff(cur, des, allow) : ~Permitted(allow, s)

(***************************************************************************)
(* Then nothing is left to rename: a directive whose source is there has a *)
(* statement that no policy gates.                                         *)
(***************************************************************************)
LEMMA NothingToRename ==
  ASSUME NEW cur \in Snapshot \cup Database, NEW des, NEW allow, NothingToDo(cur, des, allow)
  PROVE  /\ Effective(TableDirectives(des), cur.tables) = {}
         /\ \A u \in des.tables \cap cur.tables :
              /\ Effective(Directives(des, "column", u), NamesOf(cur.cols, u)) = {}
              /\ Effective(Directives(des, "index", u), NamesOf(cur.keys, u)) = {}
<1>1. \A s \in Diff(cur, des, allow) : s.gate # Ungated BY DEF NothingToDo, Permitted
<1>2. Effective(TableDirectives(des), cur.tables) = {}
  <2>1. \A r : RenameStmt("rename", "RenameTable", r.old, NoName, r.new).gate = Ungated
    BY DEF RenameStmt
  <2>2. \A s \in RenameStmts(cur, des) : s.gate # Ungated BY <1>1 DEF Diff
  <2> QED BY <2>1, <2>2 DEF RenameStmts
<1>3. RenamedTables(cur, des) = cur BY <1>2, TablesUnrenamed
<1>4. ASSUME NEW u \in des.tables \cap cur.tables
      PROVE  /\ Effective(Directives(des, "column", u), NamesOf(cur.cols, u)) = {}
             /\ Effective(Directives(des, "index", u), NamesOf(cur.keys, u)) = {}
  <2>1. \A s \in NestedRenameStmts(cur, des) : s.gate # Ungated BY <1>1, <1>3 DEF Diff
  <2>2. \A op, n, to : RenameStmt("alter", op, u, n, to).gate = Ungated BY DEF RenameStmt
  <2>3. /\ \A r \in Effective(Directives(des, "column", u), NamesOf(cur.cols, u)) :
             RenameStmt("alter", "RenameColumn", u, r.old, r.new) \in NestedRenameStmts(cur, des)
        /\ \A r \in Effective(Directives(des, "index", u), NamesOf(cur.keys, u)) :
             RenameStmt("alter", "RenameIndex", u, r.old, r.new) \in NestedRenameStmts(cur, des)
    BY DEF NestedRenameStmts
  <2> QED BY <2>1, <2>2, <2>3
<1> QED BY <1>2, <1>4

(***************************************************************************)
(* And the catalog is what the rewrite passes make of it.                  *)
(***************************************************************************)
LEMMA NothingRenamed ==
  ASSUME NEW cur \in Snapshot \cup Database, NEW des, NEW allow, Whole(cur),
         NothingToDo(cur, des, allow)
  PROVE  UnderNewNames(cur, des) = cur
<1>1. /\ Effective(TableDirectives(des), cur.tables) = {}
      /\ \A u \in des.tables \cap cur.tables :
           /\ Effective(Directives(des, "column", u), NamesOf(cur.cols, u)) = {}
           /\ Effective(Directives(des, "index", u), NamesOf(cur.keys, u)) = {}
  BY NothingToRename
<1>2. RenamedTables(cur, des) = cur BY <1>1, TablesUnrenamed
<1>3. RenamedColumns(cur, des) = cur BY <1>1, ColumnsUnrenamed
<1>4. RenamedIndexes(cur, des) = cur BY <1>1, IndexesUnrenamed
<1> QED BY <1>2, <1>3, <1>4 DEF UnderNewNames

(***************************************************************************)
(* A primary key is no CHECK.                                              *)
(***************************************************************************)
LEMMA PrimaryNoCheck == \A r \in PrimaryRow : r \notin CheckRow
<1>1. \A r \in PrimaryRow : DOMAIN r = {"t", "n", "cols"} BY DEF PrimaryRow
<1>2. \A r \in CheckRow : DOMAIN r = {"t", "n", "on"} BY DEF CheckRow
<1> QED BY <1>1, <1>2

(***************************************************************************)
(* An ungated statement is not among gated ones.                           *)
(***************************************************************************)
LEMMA UngatedOut ==
  ASSUME NEW X, \A s \in X : s.gate # Ungated, NEW b, NEW op, NEW t, NEW n
  PROVE  Stmt(b, op, t, n, Ungated) \notin X
<1>1. Stmt(b, op, t, n, Ungated).gate = Ungated BY DEF Stmt
<1> QED BY <1>1

(***************************************************************************)
(* The statements of a table that is on both sides, and of one that is on  *)
(* one only, are statements of the diff.                                   *)
(***************************************************************************)
LEMMA DiffHas ==
  ASSUME NEW cur, NEW des, NEW allow, UnderNewNames(cur, des) = cur
  PROVE  /\ NewTableStmts(cur, des) \subseteq Diff(cur, des, allow)
         /\ DroppedTableStmts(cur, des) \subseteq Diff(cur, des, allow)
         /\ ViewStmts(cur, des) \subseteq Diff(cur, des, allow)
         /\ \A t \in des.tables \cap cur.tables :
              /\ ColumnStmts(cur, des, t) \subseteq Diff(cur, des, allow)
              /\ ConstraintStmts(cur, des, t) \subseteq Diff(cur, des, allow)
              /\ IndexStmts(cur, des, t, allow) \subseteq Diff(cur, des, allow)
              /\ ForeignKeyStmts(cur, des, t) \subseteq Diff(cur, des, allow)
<1>1. \A t \in des.tables \cap cur.tables :
        /\ ColumnStmts(cur, des, t) \subseteq KeptTableStmts(cur, des, allow)
        /\ ConstraintStmts(cur, des, t) \subseteq KeptTableStmts(cur, des, allow)
        /\ IndexStmts(cur, des, t, allow) \subseteq KeptTableStmts(cur, des, allow)
        /\ ForeignKeyStmts(cur, des, t) \subseteq KeptTableStmts(cur, des, allow)
  BY DEF KeptTableStmts
<1> QED BY <1>1 DEF Diff

(***************************************************************************)
(* A table that is missing has its CREATE TABLE.                           *)
(***************************************************************************)
LEMMA NewTableHas ==
  ASSUME NEW cur, NEW des, NEW t \in des.tables \ cur.tables
  PROVE  Stmt("create", "CreateTable", t, NoName, Ungated) \in NewTableStmts(cur, des)
<1> DEFINE X(u) == {Stmt("create", "CreateTable", u, NoName, Ungated)} \cup
                   {Stmt("create", "CreateIndex", u, r.n, Ungated) : r \in Of(des.keys, u)} \cup
                   {Stmt("fk add", "AddForeignKey", u, r.n, Ungated) : r \in Of(des.fks, u)}
<1>1. Stmt("create", "CreateTable", t, NoName, Ungated) \in X(t) OBVIOUS
<1>2. NewTableStmts(cur, des) = UNION {X(u) : u \in des.tables \ cur.tables} BY DEF NewTableStmts
<1> HIDE DEF X
<1> QED BY <1>1, <1>2

(***************************************************************************)
(* One that is not declared has its DROP TABLE, and its foreign keys drops.*)
(***************************************************************************)
LEMMA DroppedTableHas ==
  ASSUME NEW cur, NEW des, NEW t \in cur.tables \ des.tables
  PROVE  /\ Stmt("table drop", "DropTable", t, NoName, "table") \in DroppedTableStmts(cur, des)
         /\ \A r \in Of(cur.fks, t) :
              Stmt("fk drop", "DropForeignKey", t, r.n, "table") \in DroppedTableStmts(cur, des)
<1> DEFINE X(u) == {Stmt("fk drop", "DropForeignKey", u, r.n, "table") : r \in Of(cur.fks, u)} \cup
                   {Stmt("table drop", "DropTable", u, NoName, "table")}
<1>1. /\ Stmt("table drop", "DropTable", t, NoName, "table") \in X(t)
      /\ \A r \in Of(cur.fks, t) : Stmt("fk drop", "DropForeignKey", t, r.n, "table") \in X(t)
  OBVIOUS
<1>2. DroppedTableStmts(cur, des) = UNION {X(u) : u \in cur.tables \ des.tables}
  BY DEF DroppedTableStmts
<1> HIDE DEF X
<1> QED BY <1>1, <1>2

(***************************************************************************)
(* When nothing is left to do, everything the files declare is there:      *)
(* whatever is missing or differs has a statement that no policy gates.    *)
(***************************************************************************)
LEMMA AllDeclaredThere ==
  ASSUME NEW cur \in Snapshot \cup Database, NEW des \in Desired, NEW allow,
         Whole(cur), Placed(des), NothingToDo(cur, des, allow)
  PROVE  \A x \in DOMAIN EmptySnapshot : des[x] \subseteq cur[x]
<1>1. UnderNewNames(cur, des) = cur BY NothingRenamed
<1>2. \A s \in Diff(cur, des, allow) : s.gate # Ungated BY DEF NothingToDo, Permitted
<1>3. \A b, op, t, n, gate : Stmt(b, op, t, n, gate).gate = gate BY DEF Stmt
<1>4. des.tables \subseteq cur.tables
  <2>1. \A t \in des.tables \ cur.tables :
          Stmt("create", "CreateTable", t, NoName, Ungated) \in NewTableStmts(cur, des)
    BY NewTableHas
  <2> QED BY <1>1, <1>2, <1>3, <2>1, DiffHas
<1>5. ASSUME NEW t \in des.tables
      PROVE  /\ Of(des.cols, t) \subseteq cur.cols
             /\ Of(des.pks, t) \cup Of(des.checks, t) \subseteq Of(cur.pks, t) \cup Of(cur.checks, t)
             /\ Of(des.keys, t) \subseteq cur.keys
             /\ Of(des.fks, t) \subseteq cur.fks
  <2>1. t \in des.tables \cap cur.tables BY <1>4
  <2>2. Of(des.cols, t) \subseteq cur.cols
    <3>1. \A s \in ColumnStmts(cur, des, t) : s.gate # Ungated BY <1>1, <1>2, <2>1, DiffHas
    <3>2. \A r \in Of(des.cols, t) :
            ~Holds(Of(cur.cols, t), t, r.n) =>
              Stmt("alter", "AddColumn", t, r.n, Ungated) \in ColumnStmts(cur, des, t)
      BY DEF ColumnStmts
    <3>3. \A r \in ModifiedColumns(Of(cur.cols, t), Of(des.cols, t)) :
            Stmt("alter", "ModifyColumn", t, r.n, Ungated) \in ColumnStmts(cur, des, t)
      BY DEF ColumnStmts
    <3>4. \A r \in Of(des.cols, t) : Holds(Of(cur.cols, t), t, r.n) BY <1>3, <3>1, <3>2
    <3>5. ModifiedColumns(Of(cur.cols, t), Of(des.cols, t)) = {} BY <1>3, <3>1, <3>3
    <3> QED BY <3>4, <3>5 DEF ModifiedColumns, Of
  <2>3. Of(des.pks, t) \cup Of(des.checks, t) \subseteq Of(cur.pks, t) \cup Of(cur.checks, t)
    <3>1. \A s \in ConstraintStmts(cur, des, t) : s.gate # Ungated BY <1>1, <1>2, <2>1, DiffHas
    <3>2. \A r \in (Of(des.pks, t) \cup Of(des.checks, t)) \ (Of(cur.pks, t) \cup Of(cur.checks, t)) :
            Stmt("alter", "AddConstraint", t, r.n, Ungated) \in ConstraintStmts(cur, des, t)
      BY DEF ConstraintStmts
    <3> QED BY <1>3, <3>1, <3>2
  <2>4. Of(des.keys, t) \subseteq cur.keys
    <3>1. \A s \in IndexStmts(cur, des, t, allow) : s.gate # Ungated BY <1>1, <1>2, <2>1, DiffHas
    <3>2. \A r \in Of(des.keys, t) \ Of(cur.keys, t) :
            Stmt("alter", "CreateIndex", t, r.n, Ungated) \in IndexStmts(cur, des, t, allow)
      BY DEF IndexStmts
    <3>3. Of(des.keys, t) \ Of(cur.keys, t) = {} BY <1>3, <3>1, <3>2
    <3> QED BY <3>3 DEF Of
  <2>5. Of(des.fks, t) \subseteq cur.fks
    <3>1. \A s \in ForeignKeyStmts(cur, des, t) : s.gate # Ungated BY <1>1, <1>2, <2>1, DiffHas
    <3>2. \A r \in Of(des.fks, t) \ Of(cur.fks, t) :
            Stmt("fk add", "AddForeignKey", t, r.n, Ungated) \in ForeignKeyStmts(cur, des, t)
      BY DEF ForeignKeyStmts
    <3>3. ASSUME NEW n
          PROVE  Stmt("fk add", "AddForeignKey", t, n, Ungated) \notin ForeignKeyStmts(cur, des, t)
      BY <3>1, UngatedOut
    <3> QED BY <3>2, <3>3 DEF Of
  <2> QED BY <2>2, <2>3, <2>4, <2>5
<1>6. des.cols \subseteq cur.cols /\ des.keys \subseteq cur.keys /\ des.fks \subseteq cur.fks
  BY <1>5 DEF Placed, Of
<1>7. des.pks \subseteq cur.pks /\ des.checks \subseteq cur.checks
  <2>1. \A r \in PrimaryRow : r \notin CheckRow BY PrimaryNoCheck
  <2>2. \A r \in des.pks \cup des.checks : r \in cur.pks \cup cur.checks BY <1>5 DEF Placed, Of
  <2>3. /\ des.pks \subseteq PrimaryRow /\ cur.pks \subseteq PrimaryRow
        /\ des.checks \subseteq CheckRow /\ cur.checks \subseteq CheckRow
    BY DEF Desired, Snapshot, Database
  <2> QED BY <2>1, <2>2, <2>3
<1>8. des.views \subseteq cur.views
  <2>1. \A r \in des.views \ cur.views :
          Stmt("view put", "PutView", NoName, r.n, Ungated) \in ViewStmts(cur, des)
    BY DEF ViewStmts
  <2>2. \A r \in des.views \ cur.views :
          Stmt("view put", "PutView", NoName, r.n, Ungated) \in Diff(cur, des, allow)
    BY <1>1, <2>1, DiffHas
  <2>3. ASSUME NEW n PROVE Stmt("view put", "PutView", NoName, n, Ungated) \notin Diff(cur, des, allow)
    BY <1>2, UngatedOut
  <2> QED BY <2>2, <2>3
<1>9. DOMAIN EmptySnapshot = {"tables", "cols", "pks", "keys", "checks", "fks", "views"}
  BY DEF EmptySnapshot
<1> QED BY <1>4, <1>6, <1>7, <1>8, <1>9

(***************************************************************************)
(* And whatever is there besides has a statement of the diff that takes it *)
(* out: it is the drop that the policy left out.                           *)
(***************************************************************************)
Says(cur, des, allow, op, t, n) ==
  \E s \in Diff(cur, des, allow) : s.op = op /\ s.t = t /\ s.n = n

LEMMA AllElseSaid ==
  ASSUME NEW cur \in Snapshot \cup Database, NEW des \in Desired, NEW allow,
         Whole(cur), Placed(des), NothingToDo(cur, des, allow)
  PROVE  /\ \A t \in cur.tables \ des.tables : Says(cur, des, allow, "DropTable", t, NoName)
         /\ \A v \in ViewNames(cur.views \ des.views) : Says(cur, des, allow, "DropView", NoName, v)
         /\ \A r \in cur.cols \ des.cols :
              r.t \in des.tables => Says(cur, des, allow, "DropColumn", r.t, r.n)
         /\ \A r \in cur.keys \ des.keys :
              r.t \in des.tables => Says(cur, des, allow, "DropIndex", r.t, r.n)
         /\ \A r \in (cur.pks \ des.pks) \cup (cur.checks \ des.checks) :
              r.t \in des.tables => Says(cur, des, allow, "DropConstraint", r.t, r.n)
         /\ \A r \in cur.fks \ des.fks : Says(cur, des, allow, "DropForeignKey", r.t, r.n)
<1> DEFINE D == Diff(cur, des, allow)
<1>1. UnderNewNames(cur, des) = cur BY NothingRenamed
<1>2. \A x \in DOMAIN EmptySnapshot : des[x] \subseteq cur[x] BY AllDeclaredThere
<1>3. des.tables \subseteq cur.tables /\ des.cols \subseteq cur.cols /\ des.views \subseteq cur.views
  BY <1>2 DEF EmptySnapshot
<1>4. ASSUME NEW b, NEW op, NEW t, NEW n, NEW gate, Stmt(b, op, t, n, gate) \in D
      PROVE  Says(cur, des, allow, op, t, n)
  BY <1>4 DEF Says, Stmt
<1>5. \A t \in cur.tables \ des.tables : Says(cur, des, allow, "DropTable", t, NoName)
  <2>1. \A t \in cur.tables \ des.tables :
          Stmt("table drop", "DropTable", t, NoName, "table") \in DroppedTableStmts(cur, des)
    BY DroppedTableHas
  <2> QED BY <1>1, <1>4, <2>1, DiffHas
<1>6. ASSUME NEW r \in cur.views \ des.views PROVE Says(cur, des, allow, "DropView", NoName, r.n)
  <2>1. r.n \notin ViewNames(des.views) BY <1>3 DEF ViewNames, Whole, OneView
  <2>2. Stmt("view drop", "DropView", NoName, r.n, "view") \in ViewStmts(cur, des)
    BY <2>1 DEF ViewStmts
  <2> QED BY <1>1, <1>4, <2>2, DiffHas
<1>7. ASSUME NEW r \in cur.cols \ des.cols, r.t \in des.tables
      PROVE  Stmt("alter", "DropColumn", r.t, r.n, "column") \in D
  <2>1. ~Holds(Of(des.cols, r.t), r.t, r.n) BY <1>3 DEF Holds, Of, Whole, OneRow
  <2>2. Stmt("alter", "DropColumn", r.t, r.n, "column") \in ColumnStmts(cur, des, r.t)
    BY <2>1 DEF ColumnStmts, Of
  <2> QED BY <1>1, <1>3, <1>7, <2>2, DiffHas
<1>8. ASSUME NEW r \in cur.keys \ des.keys, r.t \in des.tables
      PROVE  Says(cur, des, allow, "DropIndex", r.t, r.n)
  <2> DEFINE dropped == DroppedColumns(cur, des, r.t, allow)
  <2>1. dropped = {}
    <3>1. SUFFICES ASSUME NEW c \in dropped PROVE FALSE OBVIOUS
    <3>2. PICK x \in Of(cur.cols, r.t) : x.n = c /\ c \notin NamesOf(des.cols, r.t)
      BY DEF DroppedColumns, NamesOf
    <3>3. x \in cur.cols \ des.cols /\ x.t = r.t BY <3>2 DEF NamesOf, Of
    <3>4. Stmt("alter", "DropColumn", r.t, c, "column") \in D BY <1>7, <1>8, <3>2, <3>3
    <3>5. IsDropAllowed(allow, "column") BY DEF DroppedColumns
    <3> QED BY <3>4, <3>5 DEF NothingToDo, Permitted, Stmt
  <2>2. ~AllPartsDropped(r, dropped)
    <3>1. r.cols \in Seq(Columns) BY DEF Snapshot, Database, IndexRow
    <3>2. r.cols # <<>> => 1 \in DOMAIN r.cols BY <3>1
    <3> QED BY <2>1, <3>2 DEF AllPartsDropped, ListOf
  <2> HIDE DEF dropped
  <2>3. Stmt("alter", "DropIndex", r.t, r.n, GateOf(Of(des.keys, r.t), r, "index"))
          \in IndexStmts(cur, des, r.t, allow)
    BY <2>2 DEF IndexStmts, Of, dropped
  <2> QED BY <1>1, <1>3, <1>4, <1>8, <2>3, DiffHas
<1>9. ASSUME NEW r \in (cur.pks \ des.pks) \cup (cur.checks \ des.checks), r.t \in des.tables
      PROVE  Says(cur, des, allow, "DropConstraint", r.t, r.n)
  <2> DEFINE ds == Of(des.pks, r.t) \cup Of(des.checks, r.t)
  <2>1. \A x \in PrimaryRow : x \notin CheckRow BY PrimaryNoCheck
  <2>2. /\ des.pks \subseteq PrimaryRow /\ cur.pks \subseteq PrimaryRow
        /\ des.checks \subseteq CheckRow /\ cur.checks \subseteq CheckRow
    BY DEF Desired, Snapshot, Database
  <2>3. r \in (Of(cur.pks, r.t) \cup Of(cur.checks, r.t)) \ ds BY <2>1, <2>2 DEF Of
  <2>4. Stmt("alter", "DropConstraint", r.t, r.n, GateOf(ds, r, "constraint"))
          \in ConstraintStmts(cur, des, r.t)
    BY <2>3 DEF ConstraintStmts
  <2> QED BY <1>1, <1>3, <1>4, <1>9, <2>4, DiffHas
<1>10. ASSUME NEW r \in cur.fks \ des.fks PROVE Says(cur, des, allow, "DropForeignKey", r.t, r.n)
  <2>1. r.t \in cur.tables BY DEF Whole
  <2>2. CASE r.t \in des.tables
    <3>1. Stmt("fk drop", "DropForeignKey", r.t, r.n, GateOf(Of(des.fks, r.t), r, "foreign_key"))
            \in ForeignKeyStmts(cur, des, r.t)
      BY DEF ForeignKeyStmts, Of
    <3> QED BY <1>1, <1>4, <2>1, <2>2, <3>1, DiffHas
  <2>3. CASE r.t \notin des.tables
    <3>1. Stmt("fk drop", "DropForeignKey", r.t, r.n, "table") \in DroppedTableStmts(cur, des)
      BY <2>1, <2>3, DroppedTableHas DEF Of
    <3> QED BY <1>1, <1>4, <3>1, DiffHas
  <2> QED BY <2>2, <2>3
<1>11. \A v \in ViewNames(cur.views \ des.views) : Says(cur, des, allow, "DropView", NoName, v)
  BY <1>6 DEF ViewNames
<1>12. \A r \in cur.cols \ des.cols :
         r.t \in des.tables => Says(cur, des, allow, "DropColumn", r.t, r.n)
  BY <1>4, <1>7
<1> HIDE DEF D
<1> QED BY <1>5, <1>8, <1>9, <1>10, <1>11, <1>12

(***************************************************************************)
(* When every drop is allowed no drop is left out, so nothing is there     *)
(* besides what the files declare.                                         *)
(***************************************************************************)
LEMMA NothingBesides ==
  ASSUME NEW cur \in Snapshot \cup Database, NEW des \in Desired, NEW allow,
         Whole(cur), Placed(des), NothingToDo(cur, des, allow), "all" \in allow
  PROVE  \A x \in DOMAIN EmptySnapshot : cur[x] = des[x]
<1>1. \A op, t, n : ~Says(cur, des, allow, op, t, n)
  BY DEF Says, NothingToDo, Permitted, IsDropAllowed
<1>2. /\ \A t \in cur.tables \ des.tables : FALSE
      /\ \A v \in ViewNames(cur.views \ des.views) : FALSE
      /\ \A r \in cur.cols \ des.cols : r.t \notin des.tables
      /\ \A r \in cur.keys \ des.keys : r.t \notin des.tables
      /\ \A r \in (cur.pks \ des.pks) \cup (cur.checks \ des.checks) : r.t \notin des.tables
      /\ \A r \in cur.fks \ des.fks : FALSE
  BY <1>1, AllElseSaid
<1>3. \A r \in UNION {cur.cols, cur.keys, cur.pks, cur.checks} : r.t \in des.tables
  BY <1>2 DEF Whole
<1>4. /\ cur.tables \subseteq des.tables /\ cur.cols \subseteq des.cols /\ cur.pks \subseteq des.pks
      /\ cur.keys \subseteq des.keys /\ cur.checks \subseteq des.checks
      /\ cur.fks \subseteq des.fks /\ cur.views \subseteq des.views
  BY <1>2, <1>3 DEF ViewNames
<1>5. \A x \in DOMAIN EmptySnapshot : des[x] \subseteq cur[x] BY AllDeclaredThere
<1>6. DOMAIN EmptySnapshot = {"tables", "cols", "pks", "keys", "checks", "fks", "views"}
  BY DEF EmptySnapshot
<1>7. \A x \in DOMAIN EmptySnapshot : cur[x] \subseteq des[x] BY <1>4, <1>6
<1> QED BY <1>5, <1>7

(***************************************************************************)
(* When nothing is left to do, what is there has its new name already.     *)
(***************************************************************************)
LEMMA NamesSettled ==
  ASSUME NEW cur \in Snapshot \cup Database, NEW des, NEW allow, NothingToDo(cur, des, allow),
         NEW t \in cur.tables
  PROVE  /\ NewName(TableDirectives(des), t) = t
         /\ t \in des.tables =>
              \A c : Holds(cur.cols, t, c) => NewName(Directives(des, "column", t), c) = c
<1>1. ASSUME NEW rs, NEW present, Effective(rs, present) = {}, NEW x \in present
      PROVE  NewName(rs, x) = x
  <2>1. \A r \in rs : r.old = x => r.new = x BY <1>1 DEF Effective
  <2> QED BY <2>1 DEF NewName
<1>2. NewName(TableDirectives(des), t) = t BY <1>1, NothingToRename
<1>3. ASSUME t \in des.tables, NEW c, Holds(cur.cols, t, c)
      PROVE  NewName(Directives(des, "column", t), c) = c
  <2>1. Effective(Directives(des, "column", t), NamesOf(cur.cols, t)) = {}
    BY <1>3, NothingToRename
  <2>2. c \in NamesOf(cur.cols, t) BY <1>3 DEF Holds, NamesOf, Of
  <2> QED BY <1>1, <2>1, <2>2
<1> QED BY <1>2, <1>3
=============================================================================
