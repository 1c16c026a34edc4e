------------------------------- MODULE MCViews -------------------------------
(***************************************************************************)
(* Every digraph over four names as files for an empty server, and every   *)
(* start over three names, half-migrated ones with missing views included, *)
(* with every closed set of files over them, and for an empty server files *)
(* that read what is nowhere, which the server refuses.                    *)
(***************************************************************************)
EXTENDS ViewProperties

G == INSTANCE Graphs

MCNames == 1..4
Few     == 1..3

Over(names, reads(_, _)) ==
  UNION {{g \in [d -> SUBSET names] : \A v \in d : reads(d, v) \cap g[v] = g[v]} :
           d \in SUBSET names}

Loops(g)  == G!HasCycle([node |-> MCNames, edge |-> {e \in (DOMAIN g) \X MCNames : e[2] \in g[e[1]]}])
Closed    == Over(Few, LAMBDA d, v : d \ {v})
Open      == {g \in Over(Few, LAMBDA d, v : Few \ {v}) : ~Loops(g)}
NoViews   == [v \in {} |-> {}]
Everyone  == [MCNames -> SUBSET MCNames]

MCViewScenarios ==
  [start : Open, files : {g \in Closed : ~Loops(g)}, allowed : BOOLEAN]
  \cup [start : {NoViews}, files : Open, allowed : {TRUE}]
  \cup [start : {NoViews},
        files : {g \in Everyone : \A v \in MCNames : v \notin g[v]}, allowed : {TRUE}]
=============================================================================
