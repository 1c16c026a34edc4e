------------------------------- MODULE MCAlter -------------------------------
(***************************************************************************)
(* Three families of tables and files: the order and the names of columns; *)
(* the primary key and an index; charsets and collations.                  *)
(***************************************************************************)
EXTENDS AlterProperties, FiniteSets

MCLatin == "latin1"

Int(n)            == [n |-> n, type |-> "int", cs |-> None, coll |-> None, from |-> None]
Text(n, cs, coll) == [n |-> n, type |-> "text", cs |-> cs, coll |-> coll, from |-> None]
From(c, old)      == [c EXCEPT !.from = old]
Ints(names)       == [i \in DOMAIN names |-> Int(names[i])]

Other(cs) == [of |-> cs, default |-> FALSE]

Table(cols) ==
  [cols |-> cols, cs |-> MCLatin, coll |-> Default(MCLatin), comment |-> None,
   pk |-> <<>>, keys |-> <<>>]

Files(cols) ==
  [cols |-> cols, cs |-> None, coll |-> None, comment |-> None,
   pk |-> <<>>, keys |-> <<>>, convert |-> FALSE]

Arranged(names) == {s \in S!SetToAllKPermutations(names) : s # <<>>}

Jobs(starts, files) == [start : starts, files : files, allowed : BOOLEAN, bulk : BOOLEAN]

-----------------------------------------------------------------------------
(***************************************************************************)
(* Every order of up to three columns to every order of up to four, two of *)
(* them new, one perhaps renamed and retyped.                              *)
(***************************************************************************)
Renaming(s) ==
  {[i \in DOMAIN s |-> IF s[i] = "x" THEN From(Text("x", None, None), "c") ELSE Int(s[i])]}

Orders ==
  Jobs({Table(Ints(s)) : s \in Arranged({"a", "b", "c"})},
       {Files(Ints(s)) : s \in Arranged({"a", "b", "x", "y"})}
         \cup UNION {{Files(r) : r \in Renaming(s)} : s \in Arranged({"a", "x", "y"})})

(***************************************************************************)
(* Every primary key and every index over two columns, one of which stays, *)
(* goes, or is renamed, or both go.                                        *)
(***************************************************************************)
Lists(names) == {<<>>} \cup {s \in Arranged(names) : Len(s) <= 2}
Keys(names)  == {<<>>} \cup {<<[n |-> "i", cols |-> s]>> : s \in Lists(names) \ {<<>>}}

Keyed(t, names) == {[t EXCEPT !.pk = p, !.keys = k] : p \in Lists(names), k \in Keys(names)}

Indexed ==
  Jobs(Keyed(Table(Ints(<<"a", "b">>)), {"a", "b"}),
       Keyed(Files(Ints(<<"a">>)), {"a"}) \cup Keyed(Files(Ints(<<"x", "a">>)), {"x", "a"})
         \cup Keyed(Files(<<Int("a"), From(Int("x"), "b")>>), {"x", "a"})
         \cup {[f EXCEPT !.comment = "note"] : f \in Keyed(Files(Ints(<<"x">>)), {"x"})})

-----------------------------------------------------------------------------
(***************************************************************************)
(* Every charset and collation of a table and of one or two columns.  The  *)
(* two charsets are alike in all but name: the first table has the first.  *)
(***************************************************************************)
Clauses ==
  {[cs |-> None, coll |-> None]} \cup {[cs |-> c, coll |-> None] : c \in Charsets}
    \cup [cs : {None}, coll : Collations]
    \cup {[cs |-> k.of, coll |-> k] : k \in Collations}

Stores(n) == {Text(n, k.of, k) : k \in Collations}
Plain(n)  == {Text(n, c, Default(c)) : c \in Charsets}
Writes(n) == {Text(n, k.cs, k.coll) : k \in Clauses}

CharsetTables(colss) ==
  {[Table(cols) EXCEPT !.coll = k] : cols \in colss, k \in {Default(MCLatin), Other(MCLatin)}}

CharsetFiles(colss) ==
  {[Files(cols) EXCEPT !.cs = k.cs, !.coll = k.coll, !.convert = v] :
     cols \in colss, k \in Clauses, v \in BOOLEAN}

CharsetJobs(starts, files) ==
  [start : CharsetTables(starts), files : {f \in CharsetFiles(files) : f.convert => f.cs # None},
   allowed : {TRUE}, bulk : BOOLEAN]

MCCharsets ==
  CharsetJobs({<<c>> : c \in Stores("a") \cup {Int("a")}},
              {<<c>> : c \in Writes("a")} \cup {<<c, Text("b", None, None)>> : c \in Writes("a")}
                \cup {<<Text("a", None, None), c>> : c \in Writes("b")})
  \cup CharsetJobs({<<c, d>> : c \in Plain("a"), d \in Stores("b")},
                   {<<c, Text("b", None, None)>> : c \in Writes("a")})

MCAlterScenarios == Orders \cup Indexed \cup MCCharsets

(***************************************************************************)
(* The example of CAVEATS.md with the charset spelled out.                 *)
(***************************************************************************)
SpelledOut ==
  {[start |-> [Table(<<Text("a", "utf8mb4", Default("utf8mb4"))>>)
                 EXCEPT !.cs = "utf8mb4", !.coll = Default("utf8mb4")],
    files |-> [Files(<<Text("a", "latin1", None)>>) EXCEPT !.cs = "latin1"],
    allowed |-> FALSE, bulk |-> FALSE]}
=============================================================================
