------------------------------ MODULE TableDiff ------------------------------
(***************************************************************************)
(* What diffTable does to one table that module SchemaDiff leaves out: the *)
(* position of a column, the default charset and collation, the comment,   *)
(* and --bulk-alter.  Both sides pass a normalisation first, parser and    *)
(* catalog reader each their own, whose results are compared.              *)
(***************************************************************************)
EXTENDS Naturals, Sequences

CONSTANTS
  Fields,    \* names of columns
  Charsets,
  None       \* an absent clause, and in front of the first column

S == INSTANCE SequencesExt

(***************************************************************************)
(* Every charset has a default collation and another one.                  *)
(***************************************************************************)
Collations  == [of : Charsets, default : BOOLEAN]
Default(cs) == [of |-> cs, default |-> TRUE]

Optional(set) == set \cup {None}

(***************************************************************************)
(* As written, read or stored, with `from` the renamed-from directive.     *)
(***************************************************************************)
Column == [n : Fields, type : {"int", "text"}, cs : Optional(Charsets),
           coll : Optional(Collations), from : Optional(Fields)]

Names(cols)   == {cols[i].n : i \in DOMAIN cols}
Pos(cols, n)  == CHOOSE i \in DOMAIN cols : cols[i].n = n
The(cols, n)  == cols[Pos(cols, n)]
Elements(seq) == {seq[i] : i \in DOMAIN seq}
EachOf(cols, Op(_)) == [i \in DOMAIN cols |-> Op(cols[i])]

-----------------------------------------------------------------------------
(***************************************************************************)
(* The parser.                                                             *)
(***************************************************************************)
CollapseDefaultCollation(cs, coll) ==
  IF cs # None /\ coll = Default(cs) THEN None ELSE coll

EffectiveCharset(cs, coll) == IF cs = None /\ coll # None THEN coll.of ELSE cs

Parsed(f) ==
  LET parsed(c) ==
        LET own == IF c.cs # None THEN c.cs ELSE f.cs
        IN  [c EXCEPT !.coll = CollapseDefaultCollation(EffectiveCharset(own, @), @)]
  IN  [f EXCEPT !.coll    = CollapseDefaultCollation(EffectiveCharset(f.cs, @), @),
                !.comment = IF @ = "" THEN None ELSE @,
                !.cols    = EachOf(@, parsed)]

(***************************************************************************)
(* The catalog reader.                                                     *)
(***************************************************************************)
NullIfMatches(value, table) == IF value = table THEN None ELSE value

\* Mutant: the table's charset is not taken out of its columns.
LoadedVerbatim(t) == t

Loaded(t) ==
  LET tcoll == CollapseDefaultCollation(t.cs, t.coll)
      loaded(c) ==
        [c EXCEPT !.cs = NullIfMatches(@, t.cs),
                  !.coll = CollapseDefaultCollation(IF c.cs # None THEN c.cs ELSE t.cs,
                                                    NullIfMatches(@, tcoll))]
  IN  [t EXCEPT !.coll = tcoll, !.cols = EachOf(@, loaded)]

-----------------------------------------------------------------------------
(***************************************************************************)
(* Column renames come first; the current side goes on under the new       *)
(* names, a renamed column at its end.                                     *)
(***************************************************************************)
Claims(c)         == c.from # None /\ c.from # c.n
Applies(cur, c)   == Claims(c) /\ c.from \in Names(cur.cols)
RenamesOf(cur, des) == SelectSeq(des.cols, LAMBDA c : Applies(cur, c))

RenameRefused(cur, des) ==
  \E i \in DOMAIN des.cols :
    LET c == des.cols[i]
    IN  /\ Claims(c)
        /\ \/ \E j \in DOMAIN des.cols \ {i} : des.cols[j].from = c.from
           \/ c.from \in Names(des.cols)
           \/ c.from \in Names(cur.cols) <=> c.n \in Names(cur.cols)

UnderNewNames(cur, des) ==
  LET moved   == RenamesOf(cur, des)
      new(n)  == IF \E i \in DOMAIN moved : moved[i].from = n
                 THEN moved[CHOOSE i \in DOMAIN moved : moved[i].from = n].n ELSE n
      kept    == SelectSeq(cur.cols, LAMBDA c : new(c.n) = c.n)
      under(c) == [The(cur.cols, c.from) EXCEPT !.n = c.n]
  IN  [cur EXCEPT !.cols = kept \o EachOf(moved, under),
                  !.pk   = EachOf(@, new),
                  !.keys = EachOf(@, LAMBDA k : [k EXCEPT !.cols = EachOf(@, new)])]

RenameSpecs(cur, des) ==
  EachOf(RenamesOf(cur, des), LAMBDA c : [op |-> "rename", n |-> c.from, to |-> c.n])

-----------------------------------------------------------------------------
(***************************************************************************)
(* The table's own clauses.  Files that declare neither charset nor        *)
(* collation leave both alone; a charset alone means its default           *)
(* collation, which is read as None.                                       *)
(***************************************************************************)
CharsetMatches(cur, des) == des.cs = None \/ cur.cs = des.cs

\* Mutant: files without a collation leave the table's alone.
CollationMatchesUnset(cur, des) == des.coll = None \/ cur.coll = des.coll

CollationMatches(cur, des) == (des.cs # None \/ des.coll # None) => cur.coll = des.coll

\* Mutant: the directive does not count.
DefaultNeverConverts(cur, des) ==
  IF CharsetMatches(cur, des) /\ CollationMatches(cur, des) THEN <<>>
  ELSE <<[op |-> "default", cs |-> des.cs, coll |-> des.coll]>>

DefaultSpecs(cur, des) ==
  IF CharsetMatches(cur, des) /\ CollationMatches(cur, des) THEN <<>>
  ELSE <<[op   |-> IF des.convert /\ ~CharsetMatches(cur, des) THEN "convert" ELSE "default",
          cs   |-> des.cs,
          coll |-> des.coll]>>

CommentSpecs(cur, des) ==
  IF cur.comment = des.comment THEN <<>> ELSE <<[op |-> "comment", to |-> des.comment]>>

(***************************************************************************)
(* Columns in the order of the files, each new one behind its predecessor  *)
(* there, new or not; then those that the files do not have.               *)
(***************************************************************************)
columnEqual(a, b) == a.type = b.type /\ a.cs = b.cs /\ a.coll = b.coll

\* Mutant: the anchor is the last column that was there before.
AnchorOld(cur, des, i) ==
  LET old == {j \in 1..(i - 1) : des.cols[j].n \in Names(cur.cols)}
  IN  IF old = {} THEN None ELSE des.cols[CHOOSE j \in old : \A k \in old : k <= j].n

Anchor(cur, des, i) == IF i = 1 THEN None ELSE des.cols[i - 1].n

ColumnSpec(cur, des, i) ==
  LET c == des.cols[i]
  IN  IF c.n \notin Names(cur.cols) THEN <<[op |-> "add", col |-> c, after |-> Anchor(cur, des, i)]>>
      ELSE IF columnEqual(The(cur.cols, c.n), c) THEN <<>>
      ELSE <<[op |-> "modify", col |-> c]>>

Gone(cur, des) == SelectSeq(cur.cols, LAMBDA c : c.n \notin Names(des.cols))

ColumnSpecs(cur, des, allowed) ==
  S!FlattenSeq([i \in DOMAIN des.cols |-> ColumnSpec(cur, des, i)])
    \o (IF allowed THEN EachOf(Gone(cur, des), LAMBDA c : [op |-> "drop", n |-> c.n]) ELSE <<>>)

(***************************************************************************)
(* The primary key, then indexes; those that lose all their columns in the *)
(* same plan are not dropped by name.                                      *)
(***************************************************************************)
KeySpecs(cur, des, allowed) ==
  IF cur.pk = des.pk \/ (des.pk = <<>> /\ ~allowed) THEN <<>>
  ELSE (IF cur.pk # <<>> THEN <<[op |-> "dropKey"]>> ELSE <<>>)
         \o (IF des.pk # <<>> THEN <<[op |-> "addKey", cols |-> des.pk]>> ELSE <<>>)

AllPartsDropped(k, cur, des, allowed) ==
  allowed /\ Elements(k.cols) \subseteq Names(cur.cols) \ Names(des.cols)

IndexSpecs(cur, des, allowed) ==
  LET other(k, l)  == k \notin Elements(l)
      dropped(k)   == /\ other(k, des.keys) /\ (allowed \/ k.n \in Names(des.keys))
                      /\ ~AllPartsDropped(k, cur, des, allowed)
  IN  EachOf(SelectSeq(cur.keys, dropped), LAMBDA k : [op |-> "dropIndex", n |-> k.n])
        \o EachOf(SelectSeq(des.keys, LAMBDA k : other(k, cur.keys)),
                  LAMBDA k : [op |-> "createIndex", n |-> k.n, cols |-> k.cols])

(***************************************************************************)
(* diffTable, for a current side as loaded and files as parsed.            *)
(***************************************************************************)
SpecsUnder(cur, des, allowed) ==
  DefaultSpecs(cur, des) \o CommentSpecs(cur, des) \o ColumnSpecs(cur, des, allowed)
    \o KeySpecs(cur, des, allowed) \o IndexSpecs(cur, des, allowed)

Specs(cur, des, allowed) ==
  RenameSpecs(cur, des) \o SpecsUnder(UnderNewNames(cur, des), des, allowed)

-----------------------------------------------------------------------------
(***************************************************************************)
(* --bulk-alter puts the specifications of ALTER TABLEs that follow one    *)
(* another into one statement; a rename is one of its own, because within  *)
(* a statement names mean the table as it was, and so is a CREATE INDEX.   *)
(***************************************************************************)
\* Mutant: renames are folded like the rest.
CombinableRenames(s) == s.op # "createIndex"

Combinable(s) == s.op \notin {"rename", "createIndex"}

CombineSameTableAlters(specs) ==
  LET extend(done, s) ==
        IF done # <<>> /\ Combinable(s) /\ Combinable(Head(S!Last(done)))
        THEN [done EXCEPT ![Len(done)] = Append(@, s)] ELSE Append(done, <<s>>)
  IN  S!FoldLeft(extend, <<>>, specs)

Statements(specs, bulk) ==
  IF bulk THEN CombineSameTableAlters(specs) ELSE EachOf(specs, LAMBDA s : <<s>>)
=============================================================================
