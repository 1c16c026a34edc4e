-------------------------- MODULE ApplyProperties --------------------------
(***************************************************************************)
(* What `myschema apply` promises.                                         *)
(***************************************************************************)
EXTENDS SchemaApply

(***************************************************************************)
(* Every variable has its type.                                            *)
(***************************************************************************)
TypeOK ==
  /\ db \in Database
  /\ cell \in [Origin(job.db) -> Place \cup {Nowhere}]
  /\ job \in Scenario
  /\ pc \in [Clients -> Stages]
  /\ snap \in [Clients -> Snapshot]
  /\ unread \in [Clients -> SUBSET (Names \X Queries)]
  /\ pending \in [Clients -> SUBSET Statement]
  /\ skipped \in [Clients -> SUBSET Statement]
  /\ checks \in [Clients -> SUBSET Guards]
  /\ crashes \in 0..MaxCrashes
  /\ foreign \in 0..MaxForeign

-----------------------------------------------------------------------------
(***************************************************************************)
(* User data.  A column of the first schema is claimed when the desired    *)
(* files, after their renamed-from directives, still declare it.           *)
(***************************************************************************)
NewTable(des, t)     == NewName(TableDirectives(des), t)
NewColumn(des, t, c) == NewName(Directives(des, "column", t), c)

Claimed(des, g) ==
  LET t == NewTable(des, g[1])
  IN  t \in des.tables /\ Holds(des.cols, t, NewColumn(des, t, g[2]))

(***************************************************************************)
(* Where such data may be: at its source, under the new table name, or at  *)
(* its destination.                                                        *)
(***************************************************************************)
Route(des, g) ==
  LET t == NewTable(des, g[1])
  IN  {g, <<t, g[2]>>, <<t, NewColumn(des, t, g[2])>>}

(***************************************************************************)
(* Data the desired files still claim is never lost and never ends up in   *)
(* another column, however many runs race, die halfway and start again:    *)
(* applyTableRenames and applyColumnRenames move it or refuse, and no DROP *)
(* TABLE or DROP COLUMN is planned for its place.                          *)
(***************************************************************************)
DataKept == \A g \in DOMAIN cell : Claimed(Des, g) => cell[g] \in Route(Des, g)

(***************************************************************************)
(* Data goes away only when --allow-drop names its category, and the data  *)
(* of a table the filters hide never does (IsDropAllowed, filterTables).   *)
(***************************************************************************)
DataOptedIn ==
  \A g \in DOMAIN cell :
    cell[g] # Nowhere /\ cell'[g] = Nowhere =>
      /\ cell[g][1] \in job.shown
      /\ \/ IsDropAllowed(job.allow, "column")
         \/ IsDropAllowed(job.allow, "table")
            /\ \A h \in DOMAIN cell : cell[h][1] = cell[g][1] => cell'[h] = Nowhere

DropsOptedIn == [][DataOptedIn]_vars

(***************************************************************************)
(* Apply implements Custody: seen from the data, every step of every       *)
(* client keeps each column, moves it along a renamed-from directive of    *)
(* the filtered files, or discards one nobody claims under an --allow-drop *)
(* that says so.                                                           *)
(***************************************************************************)
DeclaredRenames(des) ==
  {<<<<r.old, c>>, <<r.new, c>>>> : r \in TableDirectives(des), c \in Columns} \cup
  {<<<<r.t, r.old>>, <<r.t, r.new>>>> : r \in {x \in des.renames : x.kind = "column"}}

Data == INSTANCE Custody WITH
          Places <- Place,
          deed   <- [claimed |-> {g \in Place : Claimed(Des, g)},
                     renames |-> DeclaredRenames(Des) \cap (Place \X Place),
                     discard |-> \E kind \in {"table", "column"} : IsDropAllowed(job.allow, kind)]

ImplementsCustody == Data!Spec

(***************************************************************************)
(* A run takes a view, a foreign key, a CHECK, an index or a table out     *)
(* only when its category is allowed, when it is replaced under its name,  *)
(* when its table is dropped with permission, when a rename takes it       *)
(* along, or, for an index, with the last of its columns (diffConstraints, *)
(* diffForeignKeys, diffIndexes, applyIndexRenames, DiffViews, DiffTables).*)
(***************************************************************************)
Gone(rows, rows2) == {r \in rows : ~Holds(rows2, r.t, r.n)}

TableGone(t) == t \in db.tables \ db'.tables

TakenOut(r, declared, kind) ==
  \/ TableGone(r.t)
  \/ IsDropAllowed(job.allow, kind)
  \/ Holds(declared, r.t, r.n)
  \/ r.t \notin Des.tables /\ IsDropAllowed(job.allow, "table")

KeyGone(r) ==
  \/ TakenOut(r, Des.keys, "index")
  \/ \E x \in Directives(Des, "index", r.t) : x.old = r.n /\ Holds(db'.keys, r.t, x.new)
  \/ /\ IsDropAllowed(job.allow, "column")
     /\ \A c \in ListOf(r.cols) : ~Holds(Des.cols, r.t, c)

ObjectsGone ==
  /\ \A r \in Gone(db.fks, db'.fks) : TakenOut(r, Des.fks, "foreign_key")
  /\ \A r \in Gone(db.checks, db'.checks) : TakenOut(r, Des.pks \cup Des.checks, "constraint")
  /\ \A r \in Gone(db.keys, db'.keys) : KeyGone(r)
  /\ \A v \in ViewNames(db.views) \ ViewNames(db'.views) : IsDropAllowed(job.allow, "view")
  /\ \A t \in db.tables \ db'.tables :
       IsDropAllowed(job.allow, "table") \/ NewTable(Des, t) \in db'.tables \ db.tables

ObjectsOptedIn == [][foreign' = foreign => ObjectsGone]_vars

-----------------------------------------------------------------------------
(***************************************************************************)
(* The plan.  These are about a run nobody disturbs: one client, no        *)
(* foreign DDL.                                                            *)
(***************************************************************************)
Undisturbed == foreign = 0

Live      == Filtered(db, job.shown)
LiveDiff  == Diff(Live, Des, job.allow)
Bare(s)   == <<s.op, s.t, s.n, s.to>>
ToDo(ss)  == {Bare(s) : s \in {x \in ss : Permitted(job.allow, x)}}
Left(ss)  == {Bare(s) : s \in {x \in ss : ~Permitted(job.allow, x)}}
Ddl(p)    == {s \in pending[p] : s.b # "execute"}
Report(p) == {s \in skipped[p] : s.b # "execute"}

(***************************************************************************)
(* The server refuses no statement of a plan: FK drops come before what    *)
(* they block, keys and columns before what needs them, view drops and     *)
(* puts in dependency order (diff_all.go's bucket order).  A run that      *)
(* filters may ask for a name the filters hide from it.                    *)
(***************************************************************************)
Unfiltered == job.shown = Names

NeverRejected ==
  Unfiltered => \A p \in Clients : \A s \in Ready(p) : Accepts(db, s, job.des)

(***************************************************************************)
(* Files the diff accepted for the first schema are never refused for a    *)
(* schema a run leaves behind: the rename guards take what a run that died *)
(* has renamed already for what it is (rename.go's alreadyRenamed).        *)
(***************************************************************************)
PlannableStays ==
  ~Refused(Filtered(job.db, job.shown), Des) => ~Refused(Live, Des)

(***************************************************************************)
(* The DROP or ADD of a key that is already as declared: the columns that  *)
(* went have left the others in it.                                        *)
(***************************************************************************)
Shrunk(s) ==
  /\ s.op \in {"DropIndex", "CreateIndex", "DropConstraint", "AddConstraint"}
  /\ \E k \in (Live.keys \cap Des.keys) \cup (Live.pks \cap Des.pks) :
       k.t = s.t /\ k.n = s.n

(***************************************************************************)
(* At every statement of a run the diff of the live schema asks for        *)
(* exactly the rest of the plan: what the rewrite passes after a rename    *)
(* predict is what the server does, and a run that dies there is continued *)
(* by the next one, which undoes, repeats and forgets nothing.  Only the   *)
(* replacement of a key may have become needless (Shrunk).                 *)
(***************************************************************************)
Resumable ==
  \A p \in Clients : pc[p] = "exec" =>
    /\ ToDo(LiveDiff) \subseteq {Bare(s) : s \in Ddl(p)}
    /\ {Bare(s) : s \in {x \in Ddl(p) : ~Shrunk(x)}} \subseteq ToDo(LiveDiff)

(***************************************************************************)
(* Where the directives take an object, said without the rewrite passes.   *)
(***************************************************************************)
NewPlace(t, c) == <<NewTable(Des, t), NewColumn(Des, NewTable(Des, t), c)>>

NewKey(r) == [r EXCEPT !.t = NewTable(Des, @), !.cols = [i \in DOMAIN @ |-> NewPlace(r.t, @[i])[2]]]

NewForeignKey(f) ==
  [f EXCEPT !.t = NewTable(Des, @), !.col = NewPlace(f.t, @)[2],
            !.ref = NewTable(Des, @), !.refcol = NewPlace(f.ref, @)[2]]

Settled(s) ==
  CASE s.op = "CreateTable" -> \E t \in db.tables : NewTable(Des, t) = s.t
    [] s.op = "AddColumn" -> \E r \in db.cols : NewPlace(r.t, r.n) = <<s.t, s.n>>
    [] s.op \in {"DropForeignKey", "AddForeignKey"} ->
         \E f \in db.fks : NewForeignKey(f) \in The(Des.fks, s.t, s.n)
    [] s.op \in {"DropConstraint", "AddConstraint"} ->
         \E r \in db.pks : /\ NewKey(r) \in The(Des.pks, s.t, s.n)
                           /\ \E first \in job.db.pks : NewKey(first) = NewKey(r)
    [] OTHER -> FALSE

(***************************************************************************)
(* What is as the files declare it, or will be once the directives are     *)
(* carried out, has no statement of its own in what is still to run: a     *)
(* renamed table or column drags no DROP and ADD of the keys and foreign   *)
(* keys over it into the plan.  (A primary key that has only just shrunk   *)
(* with a dropped column does not count.)                                  *)
(***************************************************************************)
NothingNeedless ==
  Unfiltered => \A p \in Clients : pc[p] = "exec" => \A s \in Ddl(p) : ~Settled(s)

(***************************************************************************)
(* When a run is done a second plan is empty, and what it still skips is   *)
(* what the first one reported as skipped: nothing's hidden.               *)
(***************************************************************************)
ReplanEmpty ==
  Undisturbed => \A p \in Clients : pc[p] = "done" =>
    /\ ToDo(LiveDiff) = {}
    /\ Left(LiveDiff) = {Bare(s) : s \in Report(p)}

(***************************************************************************)
(* Whatever the policy, a finished run has left everything the files       *)
(* declare, and anything it left besides has its `-- skipped:` line        *)
(* ("nothing's hidden", README.md).                                        *)
(***************************************************************************)
NothingHidden ==
  Undisturbed => \A p \in Clients : pc[p] = "done" =>
    LET Told(op, t, n) == \E s \in Report(p) : s.op = op /\ s.t = t /\ s.n = n
        Extra(rows, declared) == {r \in rows \ declared : r.t \in Des.tables}
    IN  /\ \A x \in DOMAIN EmptySnapshot : Des[x] \subseteq Live[x]
        /\ \A t \in Live.tables \ Des.tables : Told("DropTable", t, NoName)
        /\ \A v \in ViewNames(Live.views \ Des.views) : Told("DropView", NoName, v)
        /\ \A r \in Extra(Live.cols, Des.cols) : Told("DropColumn", r.t, r.n)
        /\ \A r \in Extra(Live.keys, Des.keys) : Told("DropIndex", r.t, r.n)
        /\ \A r \in Extra(Live.pks, Des.pks) \cup Extra(Live.checks, Des.checks) :
             Told("DropConstraint", r.t, r.n)
        /\ \A r \in Live.fks \ Des.fks : Told("DropForeignKey", r.t, r.n)

(***************************************************************************)
(* With every drop allowed the schema of a finished run is the desired     *)
(* one, on the filtered names, and the data of every claimed column is     *)
(* where the directives say.                                               *)
(***************************************************************************)
Converged ==
  /\ \A x \in DOMAIN EmptySnapshot : Live[x] = Des[x]
  /\ job.des.guards \subseteq db.objects
  /\ \A g \in DOMAIN cell :
       Claimed(Des, g) => cell[g] = <<NewTable(Des, g[1]),
                                      NewColumn(Des, NewTable(Des, g[1]), g[2])>>

AllDone        == \A p \in Clients : pc[p] = "done"
DoneConverged  == AllDone /\ "all" \in job.allow => Converged

(***************************************************************************)
(* Whatever is hidden by --include and --exclude keeps its rows through    *)
(* every step of a run; only the server's own rewriting of a foreign key's *)
(* target reaches them.                                                    *)
(***************************************************************************)
HiddenOf(d) ==
  LET Rest(rows) == {r \in rows : r.t \notin job.shown}
  IN  <<d.tables \ job.shown, Rest(d.cols), Rest(d.pks), Rest(d.keys), Rest(d.checks),
        {<<r.t, r.n, r.col>> : r \in Rest(d.fks)}, {r \in d.views : r.n \notin job.shown}>>

HiddenUntouched == [][foreign' = foreign => HiddenOf(db') = HiddenOf(db)]_vars

(***************************************************************************)
(* The same promise to the data for the files as written: a renamed-from   *)
(* directive keeps it whatever the filters hide ("column data survives",   *)
(* diff/rename.go).                                                        *)
(***************************************************************************)
RenamedDataKept ==
  \A g \in DOMAIN cell : Claimed(job.des, g) => cell[g] # Nowhere

(***************************************************************************)
(* A desired schema that can be reached is reached: every run ends, after  *)
(* the retries it takes.                                                   *)
(***************************************************************************)
Finishes == <>[](AllDone /\ ("all" \in job.allow => Converged))
=============================================================================
