---------------------------- MODULE MySQLProofs -----------------------------
(***************************************************************************)
(* The server's statements keep the schema well formed.  These are the     *)
(* lemmas about module MySQL that the type correctness of SchemaApply      *)
(* rests on.                                                               *)
(***************************************************************************)
EXTENDS SchemaDiff, SequenceTheorems, TLAPS

(***************************************************************************)
(* Taking the rows of an object, or of a table, out of a relation adds none.*)
(***************************************************************************)
LEMMA DropType ==
  ASSUME NEW rows, NEW t, NEW n
  PROVE  Drop(rows, t, n) \subseteq rows /\ Except(rows, t) \subseteq rows
BY DEF Drop, Except

(***************************************************************************)
(* A sequence without one of its elements is a sequence of the same kind.  *)
(***************************************************************************)
LEMMA RemoveType ==
  ASSUME NEW X, NEW q \in Seq(X), NEW i \in DOMAIN q
  PROVE  S!RemoveAt(q, i) \in Seq(X)
<1>1. i \in 1..Len(q) OBVIOUS
<1>2. SubSeq(q, 1, i - 1) \in Seq(X)
  BY <1>1, SubSeqProperties
<1>3. SubSeq(q, i + 1, Len(q)) \in Seq(X)
  BY <1>1, SubSeqProperties
<1> QED BY <1>2, <1>3, ConcatProperties DEF S!RemoveAt

(***************************************************************************)
(* DROP COLUMN leaves a key over the remaining columns a key.              *)
(***************************************************************************)
LEMMA WithoutColumnType ==
  ASSUME NEW N, NEW r \in [t : Names, n : N, cols : Seq(Columns)], NEW c
  PROVE  WithoutColumn(r, c) \in [t : Names, n : N, cols : Seq(Columns)]
<1>1. CASE \E i \in DOMAIN r.cols : r.cols[i] = c
  <2> DEFINE k == CHOOSE i \in DOMAIN r.cols : r.cols[i] = c
  <2>1. k \in DOMAIN r.cols BY <1>1
  <2>2. S!RemoveAt(r.cols, k) \in Seq(Columns) BY <2>1, RemoveType
  <2>3. WithoutColumn(r, c) = [r EXCEPT !.cols = S!RemoveAt(r.cols, k)] BY <1>1 DEF WithoutColumn
  <2> HIDE DEF k
  <2> QED BY <2>2, <2>3
<1>2. CASE ~\E i \in DOMAIN r.cols : r.cols[i] = c
  BY <1>2 DEF WithoutColumn
<1> QED BY <1>1, <1>2

(***************************************************************************)
(* The keys of a schema after a DROP COLUMN are keys.                      *)
(***************************************************************************)
LEMMA ShrinkType ==
  ASSUME NEW N, NEW rows \in SUBSET [t : Names, n : N, cols : Seq(Columns)], NEW t, NEW c
  PROVE  Shrink(rows, t, c) \in SUBSET [t : Names, n : N, cols : Seq(Columns)]
BY WithoutColumnType DEF Shrink

(***************************************************************************)
(* A statement that drops something leads from a schema to a schema.       *)
(***************************************************************************)
LEMMA WithoutType ==
  ASSUME NEW d \in Database, NEW s \in Statement
  PROVE  Without(d, s) \in Database
<1>1. Drop(d.fks, s.t, s.n) \in SUBSET ForeignKeyRow BY DropType DEF Database
<1>2. Drop(d.pks, s.t, s.n) \in SUBSET PrimaryRow BY DropType DEF Database
<1>3. Drop(d.checks, s.t, s.n) \in SUBSET CheckRow BY DropType DEF Database
<1>4. Drop(d.keys, s.t, s.n) \in SUBSET IndexRow BY DropType DEF Database
<1>5. Drop(d.cols, s.t, s.n) \in SUBSET ColumnRow BY DropType DEF Database
<1>6. Shrink(d.pks, s.t, s.n) \in SUBSET PrimaryRow BY ShrinkType DEF Database, PrimaryRow
<1>7. Shrink(d.keys, s.t, s.n) \in SUBSET IndexRow BY ShrinkType DEF Database, IndexRow
<1>8. Except(d.cols, s.t) \in SUBSET ColumnRow BY DropType DEF Database
<1>9. Except(d.pks, s.t) \in SUBSET PrimaryRow BY DropType DEF Database
<1>10. Except(d.keys, s.t) \in SUBSET IndexRow BY DropType DEF Database
<1>11. Except(d.checks, s.t) \in SUBSET CheckRow BY DropType DEF Database
<1>12. Except(d.fks, s.t) \in SUBSET ForeignKeyRow BY DropType DEF Database
<1>13. {r \in d.views : r.n # s.n} \in SUBSET ViewRow BY DEF Database
<1>14. d.tables \ {s.t} \in SUBSET Names BY DEF Database
<1>15. CASE s.op = "DropView" BY <1>15, <1>13 DEF Without, Database
<1>16. CASE s.op = "DropForeignKey" BY <1>16, <1>1 DEF Without, Database
<1>17. CASE s.op = "DropConstraint" BY <1>17, <1>2, <1>3 DEF Without, Database
<1>18. CASE s.op = "DropIndex" BY <1>18, <1>4 DEF Without, Database
<1>19. CASE s.op = "DropColumn" BY <1>19, <1>5, <1>6, <1>7 DEF Without, Database
<1>20. CASE s.op = "DropTable" BY <1>20, <1>8, <1>9, <1>10, <1>11, <1>12, <1>14 DEF Without, Database
<1> QED BY <1>15,<1>16,<1>17,<1>18,<1>19,<1>20 DEF Without

(***************************************************************************)
(* The rows of a renamed table are rows of the same kind.                  *)
(***************************************************************************)
LEMMA MoveRowsType ==
  ASSUME NEW d \in Database, NEW old, NEW new \in Names
  PROVE  /\ MoveRows(d.cols, old, new) \in SUBSET ColumnRow
         /\ MoveRows(d.pks, old, new) \in SUBSET PrimaryRow
         /\ MoveRows(d.keys, old, new) \in SUBSET IndexRow
         /\ MoveRows(d.checks, old, new) \in SUBSET CheckRow
         /\ MoveRows(d.fks, old, new) \in SUBSET ForeignKeyRow
<1>1. \A r \in ColumnRow : [r EXCEPT !.t = Swap(@, old, new)] \in ColumnRow
  BY DEF ColumnRow, Swap
<1>2. \A r \in PrimaryRow : [r EXCEPT !.t = Swap(@, old, new)] \in PrimaryRow
  BY DEF PrimaryRow, Swap
<1>3. \A r \in IndexRow : [r EXCEPT !.t = Swap(@, old, new)] \in IndexRow
  BY DEF IndexRow, Swap
<1>4. \A r \in CheckRow : [r EXCEPT !.t = Swap(@, old, new)] \in CheckRow
  BY DEF CheckRow, Swap
<1>5. \A r \in ForeignKeyRow : [r EXCEPT !.t = Swap(@, old, new)] \in ForeignKeyRow
  BY DEF ForeignKeyRow, Swap
<1> QED BY <1>1, <1>2, <1>3, <1>4, <1>5 DEF MoveRows, Database

(***************************************************************************)
(* A key over a renamed column is a key of the same kind.                  *)
(***************************************************************************)
LEMMA RenameInColsType ==
  ASSUME NEW N, NEW rows \in SUBSET [t : Names, n : N, cols : Seq(Columns)],
         NEW t, NEW old, NEW new \in Columns
  PROVE  RenameInCols(rows, t, old, new) \in SUBSET [t : Names, n : N, cols : Seq(Columns)]
<1> DEFINE R == [t : Names, n : N, cols : Seq(Columns)]
<1>1. ASSUME NEW r \in R
      PROVE  [r EXCEPT !.cols = [i \in DOMAIN @ |-> Swap(@[i], old, new)]] \in R
  <2>1. [i \in DOMAIN r.cols |-> Swap(r.cols[i], old, new)] \in Seq(Columns)
    <3>1. r.cols \in Seq(Columns) OBVIOUS
    <3>2. \A i \in 1..Len(r.cols) : Swap(r.cols[i], old, new) \in Columns
      BY <3>1 DEF Swap
    <3>3. DOMAIN r.cols = 1..Len(r.cols) /\ Len(r.cols) \in Nat BY <3>1
    <3> QED BY <3>2, <3>3, IsASeq
  <2> QED BY <2>1
<1> QED BY <1>1 DEF RenameInCols

(***************************************************************************)
(* A statement that renames something leads from a schema to a schema.     *)
(***************************************************************************)
LEMMA RenamedType ==
  ASSUME NEW d \in Database, NEW s \in Statement
  PROVE  Renamed(d, s) \in Database
<1>1. CASE s.op = "RenameTable"
  <2>1. s.to \in Names BY <1>1 DEF Statement
  <2>2. \A r \in ForeignKeyRow : [r EXCEPT !.ref = Swap(@, s.t, s.to)] \in ForeignKeyRow
    BY <2>1 DEF ForeignKeyRow, Swap
  <2>3. {[r EXCEPT !.ref = Swap(@, s.t, s.to)] : r \in MoveRows(d.fks, s.t, s.to)} \in SUBSET ForeignKeyRow
    BY <2>1, <2>2, MoveRowsType
  <2>4. (d.tables \ {s.t}) \cup {s.to} \in SUBSET Names BY <2>1 DEF Database
  <2> QED BY <1>1, <2>1, <2>3, <2>4, MoveRowsType DEF Renamed, Database
<1>2. CASE s.op = "RenameColumn"
  <2>1. s.to \in Columns BY <1>2 DEF Statement
  <2>2. RenameRows(d.cols, s.t, s.n, s.to) \in SUBSET ColumnRow
    BY <2>1 DEF RenameRows, Database, ColumnRow, Swap
  <2>3. RenameInCols(d.pks, s.t, s.n, s.to) \in SUBSET PrimaryRow
    BY <2>1, RenameInColsType DEF Database, PrimaryRow
  <2>4. RenameInCols(d.keys, s.t, s.n, s.to) \in SUBSET IndexRow
    BY <2>1, RenameInColsType DEF Database, IndexRow
  <2>5. \A r \in ForeignKeyRow :
          [r EXCEPT !.col    = IF r.t = s.t THEN Swap(@, s.n, s.to) ELSE @,
                    !.refcol = IF r.ref = s.t THEN Swap(@, s.n, s.to) ELSE @] \in ForeignKeyRow
    BY <2>1, ZenonT(30) DEF ForeignKeyRow, Swap
  <2> QED BY <1>2, <2>2, <2>3, <2>4, <2>5, ZenonT(30) DEF Renamed, Database
<1>3. CASE s.op = "RenameIndex"
  <2>1. s.to \in Keys BY <1>3 DEF Statement
  <2>2. RenameRows(d.keys, s.t, s.n, s.to) \in SUBSET IndexRow
    BY <2>1 DEF RenameRows, Database, IndexRow, Swap
  <2> QED BY <1>3, <2>2 DEF Renamed, Database
<1> QED BY <1>1, <1>2, <1>3 DEF Renamed

(***************************************************************************)
(* A statement that creates something leads from a schema to a schema.     *)
(***************************************************************************)
LEMMA WithType ==
  ASSUME NEW d \in Database, NEW s \in Statement, NEW text \in Desired
  PROVE  With(d, s, text) \in Database
<1>1. /\ Of(text.cols, s.t) \in SUBSET ColumnRow
      /\ Of(text.pks, s.t) \in SUBSET PrimaryRow
      /\ Of(text.checks, s.t) \in SUBSET CheckRow
  BY DEF Of, Desired
<1>2. /\ The(text.cols, s.t, s.n) \in SUBSET ColumnRow
      /\ The(text.pks, s.t, s.n) \in SUBSET PrimaryRow
      /\ The(text.checks, s.t, s.n) \in SUBSET CheckRow
      /\ The(text.keys, s.t, s.n) \in SUBSET IndexRow
      /\ The(text.fks, s.t, s.n) \in SUBSET ForeignKeyRow
  BY DEF The, Desired
<1>3. CASE s.op = "CreateTable"
  <2>1. d.tables \cup {s.t} \in SUBSET Names BY <1>3 DEF Statement, Database
  <2> QED BY <1>1, <1>3, <2>1 DEF With, Database
<1>4. CASE s.op \in {"AddColumn", "ModifyColumn"}
  <2>1. Drop(d.cols, s.t, s.n) \cup The(text.cols, s.t, s.n) \in SUBSET ColumnRow
    BY <1>2, DropType DEF Database
  <2> QED BY <1>4, <2>1 DEF With, Database
<1>5. CASE s.op = "AddConstraint" BY <1>2, <1>5 DEF With, Database
<1>6. CASE s.op = "CreateIndex" BY <1>2, <1>6 DEF With, Database
<1>7. CASE s.op = "AddForeignKey"
  <2>1. ImplicitKeys(d, The(text.fks, s.t, s.n)) \in SUBSET IndexRow
    <3>1. \A f \in ForeignKeyRow : [t |-> f.t, n |-> f.n, cols |-> <<f.col>>] \in IndexRow
      BY DEF ForeignKeyRow, IndexRow
    <3> QED BY <1>2, <3>1 DEF ImplicitKeys
  <2> QED BY <1>2, <1>7, <2>1 DEF With, Database
<1>8. CASE s.op = "PutView"
  <2>1. {r \in d.views : r.n # s.n} \cup {r \in text.views : r.n = s.n} \in SUBSET ViewRow
    BY DEF Database, Desired
  <2> QED BY <1>8, <2>1 DEF With, Database
<1>9. CASE s.op = "Execute"
  <2>1. d.objects \cup {s.n} \in SUBSET Guards BY <1>9 DEF Statement, Database
  <2> QED BY <1>9, <2>1 DEF With, Database
<1> QED BY <1>3, <1>4, <1>5, <1>6, <1>7, <1>8, <1>9 DEF With

(***************************************************************************)
(* Every statement of a plan or of somebody else leads the server from a   *)
(* schema to a schema: no object ends up without its table's or its own name.*)
(***************************************************************************)
LEMMA EffectType ==
  ASSUME NEW d \in Database, NEW s \in Statement, NEW text \in Desired
  PROVE  Effect(d, s, text) \in Database
BY WithoutType, RenamedType, WithType DEF Effect
=============================================================================
