-------------------------- MODULE AlterProperties --------------------------
(***************************************************************************)
(* What repeated applies of one changed CREATE TABLE should do.            *)
(***************************************************************************)
EXTENDS TableAlter

(***************************************************************************)
(* No statement is refused, folded or not, wherever the last run ended:    *)
(* an anchor is there when it is named, under its new name, nothing is     *)
(* dropped twice, and a statement never names what it renames itself.  The *)
(* exception: a primary key whose columns all went is gone when its DROP   *)
(* comes (1091); Settles says that the next run makes up for it.           *)
(***************************************************************************)
Refused == pc = "apply" /\ pending # <<>> /\ ~Accepts(table, Head(pending))

KeyGone ==
  /\ job.start.pk # <<>> /\ table.pk = <<>>
  /\ Elements(job.start.pk) \cap Names(job.files.cols) = {}
  /\ Of(Head(pending), "dropKey") # <<>>

NeverRejected == Refused => KeyGone

(***************************************************************************)
(* A column the files bring in stands right behind its predecessor there   *)
(* (the first in front) from the moment it exists, whatever else is added, *)
(* renamed or dropped around it, and through crashes.                      *)
(***************************************************************************)
New(c) == c.n \notin Names(job.start.cols) /\ c.from \notin Names(job.start.cols)

AddedInPlace ==
  \A i \in DOMAIN job.files.cols :
    LET c == job.files.cols[i]
    IN  New(c) /\ c.n \in Names(table.cols) =>
          Pos(table.cols, c.n) =
            IF i = 1 THEN 1 ELSE Pos(table.cols, job.files.cols[i - 1].n) + 1

(***************************************************************************)
(* When there is nothing left to do, the table is what its CREATE TABLE    *)
(* in the files would make: types, keys, comment, default and charset of   *)
(* every column.  (Both sides are normalised before they are compared, and *)
(* a wrong normalisation hides a difference for good.)  The collation of a *)
(* column is only sure if the table's is its charset's default, and a      *)
(* default collation written without any charset is lost in the parser;    *)
(* README.md has both.                                                     *)
(***************************************************************************)
LostDefault(x) == x.cs = None /\ x.coll # None /\ x.coll.default

Lost(f, c) == f.cs = None /\ LostDefault(c)

Declared(f) == (f.cs # None \/ f.coll # None) /\ ~LostDefault(f)

Meant(c, t) == IF c.cs = None /\ c.coll = None THEN t.coll ELSE CollationOf(c.cs, c.coll)

ColumnAsWritten(c, d, t) ==
  /\ d.type = c.type
  /\ c.type = "text" =>
       /\ d.cs = Meant(c, t).of
       /\ t.coll.default => d.coll = Meant(c, t)

AsWritten(t, f) ==
  /\ Declared(f) => t.coll = CollationOf(f.cs, f.coll)
  /\ t.comment = Parsed(f).comment
  /\ \A c \in Elements(f.cols) :
       c.n \in Names(t.cols) /\ (Lost(f, c) \/ ColumnAsWritten(c, The(t.cols, c.n), t))
  /\ f.pk = <<>> \/ t.pk = f.pk
  /\ Elements(f.keys) \subseteq Elements(t.keys)
  /\ job.allowed =>
       Names(t.cols) = Names(f.cols) /\ t.pk = f.pk /\ Elements(t.keys) = Elements(f.keys)

EmptyPlanFaithful == pc = "settled" => AsWritten(table, job.files)

(***************************************************************************)
(* Files that a table can agree with: no column spells out what is the     *)
(* table's anyway, and none names a collation of another charset alone.    *)
(***************************************************************************)
TableCollation(x) ==
  IF Declared(x.files) THEN CollationOf(x.files.cs, x.files.coll) ELSE x.start.coll

Settleable(x) ==
  \A c \in Elements(x.files.cols) :
    c.type = "text" =>
      /\ c.cs # TableCollation(x).of
      /\ c.coll # None /\ c.cs = None => c.coll.of = TableCollation(x).of \/ Lost(x.files, c)
      /\ c.coll = TableCollation(x) => c.coll.default

(***************************************************************************)
(* A plan is made before the statements that change what an unset charset  *)
(* means.  One more apply always makes up for it (CAVEATS.md:775), and     *)
(* none is needed if the default stays or is converted and no column has   *)
(* a charset of its own.                                                   *)
(***************************************************************************)
OneApplyIsEnough(x) ==
  \/ TableCollation(x) = x.start.coll
  \/ /\ x.files.convert /\ x.files.cs # x.start.cs
     /\ \A c \in Elements(x.files.cols) : c.cs = None /\ c.coll = None

Stages ==
  Settleable(job) => applies <= IF OneApplyIsEnough(job) THEN 1 ELSE 2

(***************************************************************************)
(* --bulk-alter is a matter of speed: from every table a plan is made for, *)
(* the folded plan leaves the table that the same plan leaves statement by *)
(* statement, if that one is not refused; but for CONVERT TO together with *)
(* a column that names a charset.                                          *)
(***************************************************************************)
Outcome(statements) ==
  S!FoldLeft(LAMBDA t, specs : IF t # None /\ Accepts(t, specs) THEN Altered(t, specs) ELSE None,
             table, statements)

Clobbers(specs) ==
  /\ Converts(specs)
  /\ \E s \in Elements(Of(specs, "add") \o Of(specs, "modify")) :
       s.col.cs # None \/ s.col.coll # None

FoldsFaithfully ==
  pc = "idle" /\ job.bulk /\ ~RenameRefused(Cur, Des) =>
    LET specs  == Specs(Cur, Des, job.allowed)
        single == Outcome(Statements(specs, FALSE))
    IN  single # None /\ ~Clobbers(specs) => Outcome(Statements(specs, TRUE)) = single

(***************************************************************************)
(* Repeated applies come to an empty plan, whatever runs have died or were *)
(* refused a statement.                                                    *)
(***************************************************************************)
Settles == Settleable(job) => <>(pc \in {"settled", "refused"})

(***************************************************************************)
(* CAVEATS.md:791 lists workarounds for "make it converge in one apply";   *)
(* the second one, at CAVEATS.md:804, is to spell out the CHARACTER SET of *)
(* the columns.                                                            *)
(***************************************************************************)
ConvergesInOneApply == applies <= 1
=============================================================================
