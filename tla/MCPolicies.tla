----------------------------- MODULE MCPolicies -----------------------------
(***************************************************************************)
(* Every --allow-drop list against every way to take objects out of a      *)
(* schema that has one of each kind, or to have one replaced, and the      *)
(* migration of MCRace, with somebody else's DDL at any moment.            *)
(***************************************************************************)
EXTENDS MCRace

Full ==
  [tables |-> {"a", "b"},
   cols   |-> {Col("a", "x", "d"), Col("a", "y", "d"), Col("b", "x", "d")},
   pks    |-> {Pk("a", <<"x">>), Pk("b", <<"x">>)},
   keys   |-> {Key("a", "k", <<"y">>)},
   checks |-> {Check("b", "c", {"x"})},
   fks    |-> {Fk("f", "b", "x", "a", "x")},
   views  |-> {View("v", {"b"})}]

Changed == {Key("a", "k", <<"y", "x">>)}

DropGoals ==
  {s \in {[tables |-> T, cols |-> InTables(C, T), pks |-> InTables(Full.pks, T),
           keys |-> K, checks |-> X, fks |-> F, views |-> V] :
            T \in SUBSET Full.tables \ {{}}, C \in {Full.cols, Full.cols \ {Col("a", "y", "d")}},
            K \in {{}, Full.keys, Changed}, X \in SUBSET Full.checks,
            F \in SUBSET Full.fks, V \in SUBSET Full.views} : WellFormed(s)}

PolicyScenarios ==
  {[db |-> AsDatabase(Full, {}), des |-> AsDesired(s, {}, {}), shown |-> MCNames, allow |-> A] :
     s \in DropGoals, A \in SUBSET Categories}

PoliciesAndMigration == PolicyScenarios \cup MCScenarios

(***************************************************************************)
(* By hand: the desired table created before the rename, a foreign key or  *)
(* a view dropped, a column added, the new name of a renamed one among     *)
(* them.                                                                   *)
(***************************************************************************)
MCForeign ==
  {Stmt("create", "CreateTable", "b", NoName, Ungated),
   Stmt("fk drop", "DropForeignKey", "b", "f", Ungated),
   Stmt("fk drop", "DropForeignKey", "c", "f", Ungated),
   Stmt("view drop", "DropView", NoName, "v", Ungated),
   Stmt("alter", "AddColumn", "c", "y", Ungated),
   Stmt("alter", "AddColumn", "a", "y", Ungated)}
=============================================================================
