----------------------------- MODULE MCRenames -----------------------------
(***************************************************************************)
(* Table and column renames against foreign keys.  Every table has one     *)
(* column, called x or y, with a primary key on it; at most one foreign    *)
(* key, also to its own table.  The desired schema ranges over all such    *)
(* schemas of at most two tables, under every combination of directives.   *)
(***************************************************************************)
EXTENDS Universe

MCNames == {"a", "b", "c"}
MCColumns == {"x", "y"}
MCRank == [n \in {"a", "b", "c"} |-> CASE n = "a" -> 1 [] n = "b" -> 2 [] n = "c" -> 3]

Tables(T, col) ==
  [EmptySnapshot EXCEPT !.tables = T,
                        !.cols = {Col(t, col[t], "d") : t \in T},
                        !.pks  = {Pk(t, <<col[t]>>) : t \in T}]

WithFk(s, col, fk) ==
  [s EXCEPT !.fks = {Fk("f", e[1], col[e[1]], e[2], col[e[2]]) : e \in fk}]

AtMostOne(U) == {{}} \cup {{u} : u \in U}

Schemas(T) ==
  {WithFk(Tables(T, col), col, fk) :
     col \in [T -> MCColumns], fk \in AtMostOne(T \X T)}

TableRenames(T) ==
  {rs \in SUBSET {Directive("table", t, old, t) : t \in T, old \in MCNames} :
     \A r, s \in rs : r.t = s.t => r = s}

Other(c) == IF c = "x" THEN "y" ELSE "x"
ColumnRenames(s) ==
  SUBSET {Directive("column", r.t, Other(r.n), r.n) : r \in s.cols}

Desireds ==
  UNION {UNION {{AsDesired(s, tr \cup cr, {}) : tr \in TableRenames(s.tables), cr \in ColumnRenames(s)} :
                  s \in Schemas(T)} :
           T \in {U \in SUBSET MCNames : Cardinality(U) \in 1..2}}

Start ==
  {s \in Schemas({"a", "b"}) :
     /\ \A r \in s.cols : r.n = "x"
     /\ \A f \in s.fks : f.ref = "a"}

MCScenarios ==
  {[db |-> AsDatabase(s, {}), des |-> des, shown |-> MCNames, allow |-> {"all"}] :
     s \in Start,
     des \in {d \in Desireds : \E x \in Start : Plannable(x, d, MCNames)}}

FreeScenarios ==
  {x \in MCScenarios : Unobstructed(x.db, x.des, x.shown)}

(***************************************************************************)
(* Filters: the same without column renames, through every --include list  *)
(* that hides something.                                                   *)
(***************************************************************************)
Plain(s) == \A r \in s.cols : r.n = "x"

FilteredScenarios ==
  {[db |-> AsDatabase(s, {}), des |-> des, shown |-> shown, allow |-> {"all"}] :
     s \in Start,
     des \in {d \in Desireds : Plain(d) /\ d.renames = TableDirectives(d)},
     shown \in {V \in SUBSET MCNames : Cardinality(V) \in 1..2}}

AllScenarios == FreeScenarios \cup FilteredScenarios
=============================================================================
