------------------------- MODULE PartitionUniverse --------------------------
(***************************************************************************)
(* Building blocks for small partition clauses: up to three partitions in  *)
(* the catalog, up to four in the files, valid or not.                     *)
(***************************************************************************)
EXTENDS PartitionProperties

MCBounds   == 1..4
MCLiterals == 1..3
MCMax      == 5
MCValues   == 0..4
MCOptions  == {"", "comment"}

Range(n, to)         == [name |-> n, spelling |-> "p", to |-> to, in |-> {}, option |-> ""]
List(n, in)          == [name |-> n, spelling |-> "p", to |-> MCMax, in |-> in, option |-> ""]
Clause(kind, defs)   == [kind |-> kind, scheme |-> "e", defs |-> defs, count |-> Unset]
Counted(n)           == [kind |-> "HASH", scheme |-> "e", defs |-> <<>>, count |-> n]
None                 == [kind |-> "none", scheme |-> "e", defs |-> <<>>, count |-> Unset]

(***************************************************************************)
(* The same clause with one partition commented or spelled otherwise.      *)
(***************************************************************************)
Touched(l) ==
  {l} \cup {[l EXCEPT !.defs[i].option = "comment"] : i \in Slots(l)}
      \cup {[l EXCEPT !.defs[i].spelling = "P"] : i \in Slots(l)}

Ranges(kind, names, bounds) ==
  {Clause(kind, [i \in DOMAIN names |-> Range(names[i], b[i])]) : b \in [DOMAIN names -> bounds]}

ListsOver(names, sets) ==
  {Clause("LIST", [i \in DOMAIN names |-> List(names[i], b[i])]) : b \in [DOMAIN names -> sets]}

Orders ==
  {<<"p", "q", "r">>, <<"p", "q">>, <<"p">>}

Goals ==
  Orders \cup {<<"p", "q", "r", "s">>, <<"p", "q", "s", "r">>, <<"p", "r", "s", "q">>, <<"p", "s", "s", "q">>,
               <<"p", "s", "q">>, <<"p", "q", "q">>, <<"q", "r">>, <<"p", "r">>, <<"q", "p">>, <<"q">>}

Pairs(Curs, Dess, Allows) == [cur : Curs, des : Dess, allow : Allows, runs : {{"c"}}]

RangesOver(kind, lists, bounds) == UNION {Ranges(kind, n, bounds) : n \in lists}
Valid(S) == {l \in S : Creatable(l)}
=============================================================================
