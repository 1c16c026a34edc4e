----------------------------- MODULE MCFindings -----------------------------
(***************************************************************************)
(* The smallest migrations in which the program does not do what its own   *)
(* documents say.  Each scenario is checked by a run of its own.           *)
(***************************************************************************)
EXTENDS Universe

MCNames == {"a", "b"}
MCRank  == [n \in MCNames |-> IF n = "a" THEN 1 ELSE 2]

One(s, des, shown, allow) ==
  {[db |-> AsDatabase(s, {}), des |-> des, shown |-> shown, allow |-> allow]}

Base ==
  [EmptySnapshot EXCEPT !.tables = {"a"},
                        !.cols   = {Col("a", c, "d") : c \in {"x", "y"}},
                        !.pks    = {Pk("a", <<"x">>)}]

(***************************************************************************)
(* Table a renamed to b, and --include a.                                  *)
(***************************************************************************)
AsB == [Base EXCEPT !.tables = {"b"},
                    !.cols   = {Col("b", c, "d") : c \in {"x", "y"}},
                    !.pks    = {Pk("b", <<"x">>)}]

HiddenDestination ==
  One(Base, AsDesired(AsB, {Directive("table", "b", "a", "b")}, {}), {"a"}, {"table"})

(***************************************************************************)
(* The index that covers a foreign key of b widened.                       *)
(***************************************************************************)
Child(key) ==
  [Base EXCEPT !.tables = {"a", "b"},
               !.cols   = @ \cup {Col("b", c, "d") : c \in {"x", "y"}},
               !.keys   = {Key("b", "k", key)},
               !.fks    = {Fk("f", "b", "x", "a", "x")}]

CoveringIndexWidened ==
  One(Child(<<"x">>), AsDesired(Child(<<"x", "y">>), {}, {}), MCNames, {"all"})
=============================================================================
