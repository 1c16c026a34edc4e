------------------------------ MODULE Catalog ------------------------------
(***************************************************************************)
(* The vocabulary of a schema: what myschema reads from information_schema *)
(* and what it parses out of the desired SQL files.                        *)
(*                                                                         *)
(* A schema is a record of relations, one row per object.  A row of a      *)
(* table's object has the table's name in field t and the object's name in *)
(* field n; the rest of the row is what the *Equal functions of package    *)
(* diff compare.  Two rows with the same t and n are the same object.      *)
(***************************************************************************)
EXTENDS Naturals, Sequences, FiniteSets

CONSTANTS
  Names,        \* names of tables and views: MySQL keeps one namespace
  Columns,      \* column names
  Defs,         \* column definitions, everything columnEqual compares
  Keys,         \* names of secondary indexes
  Checks,       \* names of CHECK constraints
  ForeignKeys,  \* names of foreign keys
  Guards        \* objects created by `-- myschema:execute` blocks

PrimaryKey  == "PRIMARY"
Identifiers == UNION {Names, Columns, Keys, Checks, ForeignKeys, Guards, {PrimaryKey}}

(***************************************************************************)
(* The empty string stands where a statement has no such part, so nothing  *)
(* is called by it.                                                        *)
(***************************************************************************)
NoName == ""

ASSUME NoNameAssumption == NoName \notin Identifiers

ColumnRow     == [t : Names, n : Columns, def : Defs]
PrimaryRow    == [t : Names, n : {PrimaryKey}, cols : Seq(Columns)]
IndexRow      == [t : Names, n : Keys \cup ForeignKeys, cols : Seq(Columns)]
CheckRow      == [t : Names, n : Checks, on : SUBSET Columns]
ForeignKeyRow == [t : Names, n : ForeignKeys, col : Columns,
                  ref : Names, refcol : Columns]
ViewRow       == [n : Names, from : SUBSET Names]

(***************************************************************************)
(* A renamed-from directive: object new of table t was called old.  For a  *)
(* table directive t and new are both the new table name.                  *)
(***************************************************************************)
RenameRow == [kind : {"table"}, t : Names, old : Names, new : Names] \cup
             [kind : {"column"}, t : Names, old : Columns, new : Columns] \cup
             [kind : {"index"}, t : Names, old : Keys, new : Keys] \cup
             [kind : {"constraint"}, t : Names, old : Checks, new : Checks] \cup
             [kind : {"foreign_key"}, t : Names, old : ForeignKeys, new : ForeignKeys]

(***************************************************************************)
(* Tables and views as the catalog reader returns them.  A row of keys may *)
(* carry a foreign key's name: MySQL calls the index it makes for an       *)
(* uncovered foreign key after it.                                         *)
(***************************************************************************)
Snapshot == [tables : SUBSET Names,
             cols   : SUBSET ColumnRow,
             pks    : SUBSET PrimaryRow,
             keys   : SUBSET IndexRow,
             checks : SUBSET CheckRow,
             fks    : SUBSET ForeignKeyRow,
             views  : SUBSET ViewRow]

EmptySnapshot == [tables |-> {}, cols |-> {}, pks |-> {}, keys |-> {},
                  checks |-> {}, fks |-> {}, views |-> {}]

(***************************************************************************)
(* The desired schema: the same relations, the renamed-from directives and *)
(* the guarded objects of the execute blocks.                              *)
(***************************************************************************)
Desired == [tables  : SUBSET Names,
            cols    : SUBSET ColumnRow,
            pks     : SUBSET PrimaryRow,
            keys    : SUBSET IndexRow,
            checks  : SUBSET CheckRow,
            fks     : SUBSET ForeignKeyRow,
            views   : SUBSET ViewRow,
            renames : SUBSET RenameRow,
            guards  : SUBSET Guards]

Of(rows, t)       == {r \in rows : r.t = t}
NamesOf(rows, t)  == {r.n : r \in Of(rows, t)}
Holds(rows, t, n) == \E r \in rows : r.t = t /\ r.n = n
ViewNames(views)  == {r.n : r \in views}

(***************************************************************************)
(* RenameFrom is a field of a declared object: a directive names one, and  *)
(* no object has two.                                                      *)
(***************************************************************************)
Directed(des) ==
  /\ \A r \in des.renames :
       /\ r.t \in des.tables
       /\ r.kind = "table" => r.new = r.t
       /\ r.kind = "column" => Holds(des.cols, r.t, r.new)
       /\ r.kind = "index" => Holds(des.keys, r.t, r.new)
       /\ r.kind = "constraint" => Holds(des.checks, r.t, r.new)
       /\ r.kind = "foreign_key" => Holds(des.fks, r.t, r.new)
  /\ \A r, s \in des.renames : r.kind = s.kind /\ r.t = s.t /\ r.new = s.new => r = s

(***************************************************************************)
(* The view dependency relation.  A reference of a view to itself is left  *)
(* out, as topoSortViews leaves it out.  Depends(views, v, w) iff view v   *)
(* is w or reads w, directly or through other views of the set: whatever   *)
(* holds v and all that its members read holds w.  The views are Cyclic    *)
(* when the sort would leave some of them over, each reading another one   *)
(* that is left.                                                           *)
(***************************************************************************)
Reads(views, v, w) == v # w /\ \E r \in views : r.n = v /\ w \in r.from

ClosedUnder(views, U) ==
  \A v \in U : \A w \in ViewNames(views) : Reads(views, v, w) => w \in U

Depends(views, v, w) ==
  \A U \in SUBSET ViewNames(views) : v \in U /\ ClosedUnder(views, U) => w \in U

Cyclic(views) ==
  \E U \in SUBSET ViewNames(views) \ {{}} : \A v \in U : \E w \in U : Reads(views, v, w)
=============================================================================
