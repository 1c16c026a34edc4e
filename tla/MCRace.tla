------------------------------- MODULE MCRace -------------------------------
(***************************************************************************)
(* Two runs of the same files against one server.  The migration renames a *)
(* table and a column under a foreign key, replaces an index, drops a      *)
(* column and a view, adds a view and runs a guarded statement.            *)
(***************************************************************************)
EXTENDS Universe

MCNames == {"a", "b", "c", "v", "w"}
MCRank  == [n \in MCNames \cup {"g"} |->
              CASE n = "a" -> 1 [] n = "b" -> 2 [] n = "c" -> 3
                [] n = "v" -> 4 [] n = "w" -> 5 [] n = "g" -> 1]

Start ==
  [tables |-> {"a", "c"},
   cols   |-> {Col("a", "x", "d"), Col("c", "x", "d"), Col("c", "z", "d")},
   pks    |-> {Pk("a", <<"x">>), Pk("c", <<"x">>)},
   keys   |-> {Key("c", "k", <<"z">>)},
   checks |-> {},
   fks    |-> {Fk("f", "c", "x", "a", "x")},
   views  |-> {View("v", {"c"})}]

Goal ==
  [tables |-> {"b", "c"},
   cols   |-> {Col("b", "y", "d"), Col("c", "x", "d"), Col("c", "y", "d")},
   pks    |-> {Pk("b", <<"y">>), Pk("c", <<"x">>)},
   keys   |-> {Key("c", "k", <<"x">>)},
   checks |-> {},
   fks    |-> {Fk("f", "c", "x", "b", "y")},
   views  |-> {View("w", {"b"})}]

GoalRenames == {Directive("table", "b", "a", "b"), Directive("column", "b", "x", "y")}

MCScenarios ==
  {[db |-> AsDatabase(Start, {}), des |-> AsDesired(Goal, GoalRenames, {"g"}),
    shown |-> MCNames, allow |-> {"all"}]}
=============================================================================
