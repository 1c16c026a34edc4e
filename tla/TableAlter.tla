----------------------------- MODULE TableAlter -----------------------------
(***************************************************************************)
(* Applies of one changed CREATE TABLE: read the table, diff it, fold the  *)
(* statements if asked to, run them one by one; a run may end before any   *)
(* statement (killed, or refused for a reason of the data or of a pinned   *)
(* ALGORITHM), and is started again.                                       *)
(***************************************************************************)
EXTENDS TableDiff

CONSTANTS
  AlterScenarios,  \* a table, its new files, drops allowed, --bulk-alter
  MaxCrashes,
  MaxApplies       \* completed runs that are counted

ASSUME AlterBoundsAssumption == MaxCrashes \in Nat /\ MaxApplies \in Nat

VARIABLES
  table,    \* the table on the server
  job,      \* the scenario
  pc,
  pending,  \* statements still to run, each a sequence of specifications
  crashes,
  applies   \* runs that had something to do and did it

vars == <<table, job, pc, pending, crashes, applies>>

-----------------------------------------------------------------------------
(***************************************************************************)
(* ALTER TABLE on the server.  The specifications of one statement are     *)
(* resolved against the table as it was; new columns may follow columns    *)
(* added before them; a text column without a charset takes the table's,   *)
(* as the statement leaves it.                                             *)
(***************************************************************************)
Of(specs, op)   == SelectSeq(specs, LAMBDA s : s.op = op)
OpNames(specs, op) == {s.n : s \in Elements(Of(specs, op))}

(***************************************************************************)
(* DEFAULT CHARSET without COLLATE takes the charset's default collation,  *)
(* COLLATE alone brings its charset along.                                 *)
(***************************************************************************)
CollationOf(cs, coll) == IF coll # None THEN coll ELSE Default(cs)

WithCollation(c, coll) == [c EXCEPT !.cs = coll.of, !.coll = coll]

NewDefault(t, specs) ==
  LET to == Of(specs, "default") \o Of(specs, "convert")
  IN  IF to = <<>> THEN t.coll ELSE CollationOf(S!Last(to).cs, S!Last(to).coll)

Converts(specs) == Of(specs, "convert") # <<>>

(***************************************************************************)
(* A column as a statement of this effect stores it.  CONVERT TO rewrites  *)
(* every text column of the statement, what ADD and MODIFY say of it       *)
(* notwithstanding.                                                        *)
(***************************************************************************)
Stored(c, coll, convert) ==
  LET plain == [c EXCEPT !.from = None]
  IN  IF c.type = "int" THEN plain
      ELSE IF convert \/ (c.cs = None /\ c.coll = None) THEN WithCollation(plain, coll)
      ELSE WithCollation(plain, CollationOf(c.cs, c.coll))

Changed(t, specs, c) ==
  LET coll == NewDefault(t, specs)
      mod  == SelectSeq(Of(specs, "modify"), LAMBDA s : s.col.n = c.n)
      ren  == SelectSeq(Of(specs, "rename"), LAMBDA s : s.n = c.n)
      old  == IF Converts(specs) /\ c.type = "text" THEN WithCollation(c, coll) ELSE c
  IN  IF mod # <<>> THEN Stored(Head(mod).col, coll, Converts(specs))
      ELSE IF ren # <<>> THEN [old EXCEPT !.n = Head(ren).to]
      ELSE old

Insert(cols, s, c) ==
  S!InsertAt(cols, IF s.after = None THEN 1 ELSE Pos(cols, s.after) + 1, c)

Adds(t, specs, kept) ==
  S!FoldLeft(LAMBDA cols, s :
               Insert(cols, s, Stored(s.col, NewDefault(t, specs), Converts(specs))),
             kept, Of(specs, "add"))

Kept(t, specs) ==
  LET stays(c) == c.n \notin OpNames(specs, "drop")
  IN  EachOf(SelectSeq(t.cols, stays), LAMBDA c : Changed(t, specs, c))

(***************************************************************************)
(* A dropped column leaves the keys it is in, a renamed one stays; a key   *)
(* that has no column left is gone.                                        *)
(***************************************************************************)
KeyColumns(specs, cols) ==
  LET new(n) == IF n \in OpNames(specs, "rename")
                THEN (CHOOSE s \in Elements(Of(specs, "rename")) : s.n = n).to ELSE n
  IN  EachOf(SelectSeq(cols, LAMBDA n : n \notin OpNames(specs, "drop")), new)

PrimaryKeyAfter(t, specs) ==
  IF Of(specs, "addKey") # <<>> THEN Head(Of(specs, "addKey")).cols
  ELSE IF Of(specs, "dropKey") # <<>> THEN <<>>
  ELSE KeyColumns(specs, t.pk)

KeysAfter(t, specs) ==
  LET left == EachOf(t.keys, LAMBDA k : [k EXCEPT !.cols = KeyColumns(specs, @)])
      stay == SelectSeq(left, LAMBDA k : k.cols # <<>> /\ k.n \notin OpNames(specs, "dropIndex"))
  IN  stay \o EachOf(Of(specs, "createIndex"), LAMBDA s : [n |-> s.n, cols |-> s.cols])

Altered(t, specs) ==
  LET coll == NewDefault(t, specs)
      to   == Of(specs, "comment")
  IN  [t EXCEPT !.cols    = Adds(t, specs, Kept(t, specs)),
                !.cs      = coll.of,
                !.coll    = coll,
                !.comment = IF to = <<>> THEN @ ELSE S!Last(to).to,
                !.pk      = PrimaryKeyAfter(t, specs),
                !.keys    = KeysAfter(t, specs)]

(***************************************************************************)
(* Errors 1054, 1060, 1061, 1068, 1072, 1090 and 1091.                     *)
(***************************************************************************)
Left(t, specs) == Names(t.cols) \ OpNames(specs, "drop")

Added(specs, k) == {Of(specs, "add")[i].col.n : i \in 1..k}

Accepts(t, specs) ==
  LET add   == Of(specs, "add")
      after == Left(t, specs) \cup Added(specs, Len(add))
  IN  /\ OpNames(specs, "rename") \cup OpNames(specs, "drop") \subseteq Names(t.cols)
      /\ \A s \in Elements(Of(specs, "rename")) : s.to \notin Names(t.cols)
      /\ \A s \in Elements(Of(specs, "modify")) : s.col.n \in Left(t, specs)
      /\ \A i \in DOMAIN add :
           /\ add[i].col.n \notin Left(t, specs) \cup Added(specs, i - 1)
           /\ add[i].after \in {None} \cup Left(t, specs) \cup Added(specs, i - 1)
      /\ after # {}
      /\ Of(specs, "dropKey") # <<>> => t.pk # <<>>
      /\ Of(specs, "addKey") # <<>> => t.pk = <<>> \/ Of(specs, "dropKey") # <<>>
      /\ \A s \in Elements(Of(specs, "addKey") \o Of(specs, "createIndex")) :
           Elements(s.cols) \subseteq after
      /\ OpNames(specs, "dropIndex") \subseteq Names(t.keys)
      /\ OpNames(specs, "createIndex") \cap Names(t.keys) = {}

-----------------------------------------------------------------------------
Cur == Loaded(table)
Des == Parsed(job.files)

Init ==
  /\ job \in AlterScenarios
  /\ table = job.start
  /\ pc = "idle"
  /\ pending = <<>>
  /\ crashes = 0
  /\ applies = 0

Refuse ==
  /\ pc = "idle"
  /\ RenameRefused(Cur, Des)
  /\ pc' = "refused"
  /\ UNCHANGED <<table, job, pending, crashes, applies>>

Plan ==
  /\ pc = "idle"
  /\ ~RenameRefused(Cur, Des)
  /\ pending' = Statements(Specs(Cur, Des, job.allowed), job.bulk)
  /\ pc' = IF pending' = <<>> THEN "settled" ELSE "apply"
  /\ UNCHANGED <<table, job, crashes, applies>>

Execute ==
  /\ pc = "apply"
  /\ pending # <<>>
  /\ Accepts(table, Head(pending))
  /\ table' = Altered(table, Head(pending))
  /\ pending' = Tail(pending)
  /\ UNCHANGED <<job, pc, crashes, applies>>

Reject ==
  /\ pc = "apply"
  /\ pending # <<>>
  /\ ~Accepts(table, Head(pending))
  /\ pc' = "idle"
  /\ pending' = <<>>
  /\ UNCHANGED <<table, job, crashes, applies>>

Finish ==
  /\ pc = "apply"
  /\ pending = <<>>
  /\ pc' = "idle"
  /\ applies' = IF applies < MaxApplies THEN applies + 1 ELSE applies
  /\ UNCHANGED <<table, job, pending, crashes>>

Crash ==
  /\ pc = "apply"
  /\ crashes < MaxCrashes
  /\ pc' = "idle"
  /\ pending' = <<>>
  /\ crashes' = crashes + 1
  /\ UNCHANGED <<table, job, applies>>

Step == Refuse \/ Plan \/ Execute \/ Reject \/ Finish

Next == Step \/ Crash

Spec == Init /\ [][Next]_vars

(***************************************************************************)
(* A run goes on while it is alive, and the next one is started: the weak  *)
(* fairness of Step, with the condition that enables it spelled out.       *)
(***************************************************************************)
Fairness == []<>(pc \notin {"idle", "apply"}) \/ []<><<Step>>_vars

FairSpec == Spec /\ Fairness
=============================================================================
