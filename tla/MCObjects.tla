----------------------------- MODULE MCObjects -----------------------------
(***************************************************************************)
(* The columns, keys and CHECK of one table, and views over each other.    *)
(***************************************************************************)
EXTENDS Universe

MCNames == {"t", "u", "v", "w"}
MCRank  == [n \in MCNames \cup {"g"} |->
              CASE n = "t" -> 1 [] n = "u" -> 2 [] n = "v" -> 3 [] n = "w" -> 4 [] n = "g" -> 1]

(***************************************************************************)
(* One table whose columns, primary key, secondary index and CHECK change  *)
(* together, with column and index renames and a guarded statement.        *)
(***************************************************************************)
Lists(C) == {<<c>> : c \in C} \cup {<<c, d>> : c \in C, d \in C}
Proper(C) == {<<>>} \cup {s \in Lists(C) : Len(s) = 1 \/ s[1] # s[2]}

Table(cols, pk, key, name, chk) ==
  [EmptySnapshot EXCEPT !.tables = {"t"},
                        !.cols   = cols,
                        !.pks    = {Pk("t", pk)} \ {Pk("t", <<>>)},
                        !.keys   = {Key("t", name, key)} \ {Key("t", name, <<>>)},
                        !.checks = {Check("t", "c", chk)} \ {Check("t", "c", {})}]

TableStart ==
  {Table({Col("t", "x", "d"), Col("t", "y", "d")}, pk, key, "k", chk) :
     pk \in {<<>>, <<"x">>, <<"x", "y">>},
     key \in {<<>>, <<"y">>, <<"x", "y">>, <<"y", "x">>},
     chk \in {{}, {"x"}}}

Columned(C, d) == {Col("t", c, IF c = "x" THEN d ELSE "d") : c \in C}

TableGoals ==
  UNION {
    {Table(Columned(C, d), pk, key, name, chk) :
       d \in {"d", "e"}, pk \in Proper(C) \ {<<"y", "x">>}, key \in Proper(C),
       name \in {"k", "l"}, chk \in {{}, {"x"} \cap C}} :
    C \in {{"x", "y"}, {"x"}, {"y"}, {"x", "z"}}}

Renames(s) ==
  SUBSET ({Directive("column", "t", "y", "z") : r \in {x \in s.cols : x.n = "z"}} \cup
          {Directive("index", "t", "k", "l") : r \in {x \in s.keys : x.n = "l"}})

Desireds == UNION {{AsDesired(s, rs, {"g"}) : rs \in Renames(s)} : s \in TableGoals}

TableScenarios ==
  {x \in {[db |-> AsDatabase(s, {}), des |-> des, shown |-> MCNames, allow |-> {"all"}] :
            s \in TableStart,
            des \in {d \in Desireds : \E x \in TableStart : Plannable(x, d, MCNames)}} :
     Unobstructed(x.db, x.des, x.shown)}

(***************************************************************************)
(* Every acyclic set of up to three views over a table, and the same with  *)
(* one of the views being a table instead: from each of them to each.      *)
(*                                                                         *)
(* A view that reads none of the others reads t.                           *)
(***************************************************************************)
Over(T, V, reads) ==
  [EmptySnapshot EXCEPT
     !.tables = T,
     !.cols   = {Col(t, "x", "d") : t \in T},
     !.views  = {View(v, IF reads[v] = {} THEN {"t"} ELSE reads[v]) : v \in V}]

Shapes ==
  UNION {
    {Over(T, V, reads) : reads \in {f \in [V -> SUBSET ((T \cup V) \ {"t"})] :
                                       \A v \in V : v \notin f[v]}} :
    <<T, V>> \in {<<{"t"}, V>> : V \in SUBSET {"u", "v", "w"}} \cup
                 {<<{"t", "u"}, V>> : V \in SUBSET {"v", "w"}}}

ViewStart == {s \in Shapes : WellFormed(s)}

(***************************************************************************)
(* The files may also declare views that read each other in a circle.      *)
(***************************************************************************)
ViewGoals == ViewStart \cup {s \in Shapes : Cyclic(s.views) /\ s.tables = {"t"}}

ViewScenarios ==
  {[db |-> AsDatabase(s, {}), des |-> AsDesired(d, {}, {}), shown |-> MCNames, allow |-> {"all"}] :
     s \in ViewStart, d \in ViewGoals}

MCScenarios == TableScenarios \cup ViewScenarios
=============================================================================
