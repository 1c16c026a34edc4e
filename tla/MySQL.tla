------------------------------- MODULE MySQL -------------------------------
(***************************************************************************)
(* The server as myschema uses it: which DDL statements it accepts in a    *)
(* schema and what they do to it.  Nothing of it is under src/; the rules  *)
(* are those that the comments, CAVEATS.md and the apply fixtures of the   *)
(* repository rely on.                                                     *)
(*                                                                         *)
(* Every statement is atomic and commits on its own.  A statement that     *)
(* creates something quotes the desired SQL file, so its body is found in  *)
(* `text`, a Desired schema, under the statement's table and name.         *)
(***************************************************************************)
EXTENDS Catalog

S == INSTANCE SequencesExt

Database == [tables  : SUBSET Names,
             cols    : SUBSET ColumnRow,
             pks     : SUBSET PrimaryRow,
             keys    : SUBSET IndexRow,
             checks  : SUBSET CheckRow,
             fks     : SUBSET ForeignKeyRow,
             views   : SUBSET ViewRow,
             objects : SUBSET Guards]

Ops == {"DropView", "RenameTable", "DropForeignKey", "CreateTable", "CreateIndex",
        "RenameColumn", "RenameIndex", "AddColumn", "ModifyColumn", "DropColumn",
        "DropConstraint", "AddConstraint", "DropIndex", "DropTable",
        "AddForeignKey", "PutView", "Execute"}

The(rows, t, n)   == {r \in rows : r.t = t /\ r.n = n}
Drop(rows, t, n)  == {r \in rows : ~(r.t = t /\ r.n = n)}
Except(rows, t)   == {r \in rows : r.t # t}
Swap(x, old, new) == IF x = old THEN new ELSE x
Relations(d)      == d.tables \cup ViewNames(d.views)

(***************************************************************************)
(* InnoDB wants an index that starts with the foreign key's column on both *)
(* sides of every foreign key, and refuses to drop the last one (1553).    *)
(***************************************************************************)
Covers(d, t, c) ==
  \E r \in Of(d.pks, t) \cup Of(d.keys, t) : r.cols # <<>> /\ Head(r.cols) = c

Covered(d) == \A f \in d.fks : Covers(d, f.t, f.col) /\ Covers(d, f.ref, f.refcol)

InForeignKey(d, t, c) ==
  \E f \in d.fks : (f.t = t /\ f.col = c) \/ (f.ref = t /\ f.refcol = c)

InCheck(d, t, c) == \E r \in d.checks : r.t = t /\ c \in r.on

(***************************************************************************)
(* Dropping a column takes it out of the indexes over it and of the        *)
(* primary key; one left with no column goes with it, which is why a DROP  *)
(* INDEX after that fails with 1091.                                       *)
(***************************************************************************)
WithoutColumn(r, c) ==
  IF \E i \in DOMAIN r.cols : r.cols[i] = c
  THEN [r EXCEPT !.cols = S!RemoveAt(@, CHOOSE i \in DOMAIN @ : @[i] = c)]
  ELSE r

Shrink(rows, t, c) ==
  {x \in {IF r.t = t THEN WithoutColumn(r, c) ELSE r : r \in rows} : x.t = t => x.cols # <<>>}

RenameInCols(rows, t, old, new) ==
  {IF r.t = t THEN [r EXCEPT !.cols = [i \in DOMAIN @ |-> Swap(@[i], old, new)]]
   ELSE r : r \in rows}

MoveRows(rows, old, new) == {[r EXCEPT !.t = Swap(@, old, new)] : r \in rows}
RenameRows(rows, t, old, new) ==
  {IF r.t = t THEN [r EXCEPT !.n = Swap(@, old, new)] ELSE r : r \in rows}

Without(d, s) ==
  CASE s.op = "DropView"       -> [d EXCEPT !.views = {r \in @ : r.n # s.n}]
    [] s.op = "DropForeignKey" -> [d EXCEPT !.fks = Drop(@, s.t, s.n)]
    [] s.op = "DropConstraint" -> [d EXCEPT !.pks = Drop(@, s.t, s.n),
                                            !.checks = Drop(@, s.t, s.n)]
    [] s.op = "DropIndex"      -> [d EXCEPT !.keys = Drop(@, s.t, s.n)]
    [] s.op = "DropColumn"     -> [d EXCEPT !.cols = Drop(@, s.t, s.n),
                                            !.pks  = Shrink(@, s.t, s.n),
                                            !.keys = Shrink(@, s.t, s.n)]
    [] s.op = "DropTable"      -> [d EXCEPT !.tables = @ \ {s.t},
                                            !.cols   = Except(@, s.t),
                                            !.pks    = Except(@, s.t),
                                            !.keys   = Except(@, s.t),
                                            !.checks = Except(@, s.t),
                                            !.fks    = Except(@, s.t)]
    [] OTHER                   -> d

(***************************************************************************)
(* A renamed table or column keeps its data, and the server rewrites the   *)
(* keys and the foreign keys of every table that name it; the text of a    *)
(* view and of a CHECK is left as it was.                                  *)
(***************************************************************************)
Renamed(d, s) ==
  CASE s.op = "RenameTable" ->
         [d EXCEPT !.tables = (@ \ {s.t}) \cup {s.to},
                   !.cols   = MoveRows(@, s.t, s.to),
                   !.pks    = MoveRows(@, s.t, s.to),
                   !.keys   = MoveRows(@, s.t, s.to),
                   !.checks = MoveRows(@, s.t, s.to),
                   !.fks    = {[r EXCEPT !.ref = Swap(@, s.t, s.to)] :
                                 r \in MoveRows(@, s.t, s.to)}]
    [] s.op = "RenameColumn" ->
         [d EXCEPT !.cols = RenameRows(@, s.t, s.n, s.to),
                   !.pks  = RenameInCols(@, s.t, s.n, s.to),
                   !.keys = RenameInCols(@, s.t, s.n, s.to),
                   !.fks  = {[r EXCEPT !.col    = IF r.t = s.t THEN Swap(@, s.n, s.to) ELSE @,
                                       !.refcol = IF r.ref = s.t THEN Swap(@, s.n, s.to) ELSE @] :
                               r \in @}]
    [] s.op = "RenameIndex"  -> [d EXCEPT !.keys = RenameRows(@, s.t, s.n, s.to)]
    [] OTHER                 -> d

(***************************************************************************)
(* A foreign key over an uncovered column gets an index of its own name.   *)
(***************************************************************************)
ImplicitKeys(d, fks) ==
  {[t |-> f.t, n |-> f.n, cols |-> <<f.col>>] : f \in {g \in fks : ~Covers(d, g.t, g.col)}}

With(d, s, text) ==
  CASE s.op = "CreateTable" ->
         [d EXCEPT !.tables = @ \cup {s.t},
                   !.cols   = @ \cup Of(text.cols, s.t),
                   !.pks    = @ \cup Of(text.pks, s.t),
                   !.checks = @ \cup Of(text.checks, s.t)]
    [] s.op \in {"AddColumn", "ModifyColumn"} ->
         [d EXCEPT !.cols = Drop(@, s.t, s.n) \cup The(text.cols, s.t, s.n)]
    [] s.op = "AddConstraint" ->
         [d EXCEPT !.pks    = @ \cup The(text.pks, s.t, s.n),
                   !.checks = @ \cup The(text.checks, s.t, s.n)]
    [] s.op = "CreateIndex"   -> [d EXCEPT !.keys = @ \cup The(text.keys, s.t, s.n)]
    [] s.op = "AddForeignKey" ->
         [d EXCEPT !.fks  = @ \cup The(text.fks, s.t, s.n),
                   !.keys = @ \cup ImplicitKeys(d, The(text.fks, s.t, s.n))]
    [] s.op = "PutView" ->
         [d EXCEPT !.views = {r \in @ : r.n # s.n} \cup {r \in text.views : r.n = s.n}]
    [] s.op = "Execute" -> [d EXCEPT !.objects = @ \cup {s.n}]
    [] OTHER -> d

Effect(d, s, text) == With(Renamed(Without(d, s), s), s, text)

(***************************************************************************)
(* Refusals.  Names of CHECKs and of foreign keys are unique in the whole  *)
(* schema, the others in their table.                                      *)
(***************************************************************************)
Known(d, t, cols) == \A c \in cols : Holds(d.cols, t, c)
ListOf(cols)      == {cols[i] : i \in DOMAIN cols}

AcceptsDrop(d, s) ==
  CASE s.op = "DropView"       -> s.n \in ViewNames(d.views)
    [] s.op = "DropForeignKey" -> Holds(d.fks, s.t, s.n)
    [] s.op = "DropConstraint" -> /\ Holds(d.pks \cup d.checks, s.t, s.n)
                                  /\ Covered(Without(d, s))
    [] s.op = "DropIndex"      -> Holds(d.keys, s.t, s.n) /\ Covered(Without(d, s))
    [] s.op = "DropColumn"     -> /\ Holds(d.cols, s.t, s.n)
                                  /\ ~InForeignKey(d, s.t, s.n)
                                  /\ ~InCheck(d, s.t, s.n)
                                  /\ Of(d.cols, s.t) # The(d.cols, s.t, s.n)
    [] s.op = "DropTable"      -> /\ s.t \in d.tables
                                  /\ \A f \in d.fks : f.ref = s.t => f.t = s.t

AcceptsRename(d, s) ==
  CASE s.op = "RenameTable"  -> s.t \in d.tables /\ s.to \notin Relations(d)
    [] s.op = "RenameColumn" -> /\ Holds(d.cols, s.t, s.n)
                                /\ ~Holds(d.cols, s.t, s.to)
                                /\ ~InCheck(d, s.t, s.n)
    [] s.op = "RenameIndex"  -> Holds(d.keys, s.t, s.n) /\ ~Holds(d.keys, s.t, s.to)

AcceptsCreate(d, s, text) ==
  CASE s.op = "CreateTable" ->
         /\ s.t \notin Relations(d)
         /\ \A r \in Of(text.checks, s.t) : r.n \notin {x.n : x \in d.checks}
    [] s.op = "CreateIndex" ->
         /\ ~Holds(d.keys, s.t, s.n)
         /\ \A r \in The(text.keys, s.t, s.n) : Known(d, s.t, ListOf(r.cols))
    [] s.op = "AddColumn" -> s.t \in d.tables /\ ~Holds(d.cols, s.t, s.n)
    [] s.op = "ModifyColumn" -> Holds(d.cols, s.t, s.n)
    [] s.op = "AddConstraint" ->
         /\ s.t \in d.tables
         /\ s.n = PrimaryKey => Of(d.pks, s.t) = {}
         /\ s.n \notin {x.n : x \in d.checks}
         /\ \A r \in The(text.pks, s.t, s.n) : Known(d, s.t, ListOf(r.cols))
         /\ \A r \in The(text.checks, s.t, s.n) : Known(d, s.t, r.on)
    [] s.op = "AddForeignKey" ->
         /\ s.n \notin {x.n : x \in d.fks}
         /\ \A f \in The(text.fks, s.t, s.n) :
              Known(d, f.t, {f.col}) /\ Known(d, f.ref, {f.refcol}) /\ Covers(d, f.ref, f.refcol)
    [] s.op = "PutView" ->
         /\ s.n \notin d.tables
         /\ \A r \in {x \in text.views : x.n = s.n} :
              LET after == With(d, s, text).views
              IN  /\ r.from \subseteq Relations(d) \ {s.n}
                  /\ \A v \in r.from \cap ViewNames(after) : ~Depends(after, v, s.n)
    [] s.op = "Execute" -> s.n \notin d.objects

Accepts(d, s, text) ==
  CASE s.op \in {"DropView", "DropForeignKey", "DropConstraint", "DropIndex",
                 "DropColumn", "DropTable"}              -> AcceptsDrop(d, s)
    [] s.op \in {"RenameTable", "RenameColumn", "RenameIndex"} -> AcceptsRename(d, s)
    [] OTHER                                             -> AcceptsCreate(d, s, text)

(***************************************************************************)
(* User data.  A cell is the data of one column of one table; it follows   *)
(* the table and the column when they are renamed and is gone when either  *)
(* is dropped; no other statement moves it.  Carried maps every cell from   *)
(* its place to its next place.                                            *)
(***************************************************************************)
Destructive == {"RenameTable", "RenameColumn", "DropColumn", "DropTable"}

Place   == Names \X Columns
Nowhere == <<NoName, NoName>>

Carried(cell, s) ==
  [g \in DOMAIN cell |->
     CASE s.op = "RenameTable" /\ cell[g][1] = s.t      -> <<s.to, cell[g][2]>>
       [] s.op = "RenameColumn" /\ cell[g] = <<s.t, s.n>> -> <<s.t, s.to>>
       [] s.op = "DropColumn" /\ cell[g] = <<s.t, s.n>> -> Nowhere
       [] s.op = "DropTable" /\ cell[g][1] = s.t        -> Nowhere
       [] OTHER                                         -> cell[g]]
=============================================================================
