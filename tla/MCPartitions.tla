---------------------------- MODULE MCPartitions ----------------------------
(***************************************************************************)
(* Every change of a small partition clause by one run, and one change of  *)
(* every kind by two runs at once.                                         *)
(***************************************************************************)
EXTENDS PartitionUniverse

(***************************************************************************)
(* By RANGE: all bounds, MAXVALUE and an expression (4) among them.        *)
(***************************************************************************)
MCRange ==
  LET All    == MCBounds \cup {MCMax}
      before == Valid(RangesOver("RANGE", Orders, All))
      four   == Valid(RangesOver("RANGE", {<<"p", "q", "r", "s">>}, All))
  IN  Pairs(before, RangesOver("RANGE", Goals, All), {{}, {"partition"}})
      \cup Pairs(before, UNION {Touched(l) : l \in before}, {{}})
      \cup Pairs(four, UNION {Touched(m) : m \in UNION {Touched(l) : l \in four}}, {{}})

(***************************************************************************)
(* By LIST every distribution of three values; RANGE COLUMNS; by HASH and  *)
(* KEY up to four partitions, or a number left out; and changes from one   *)
(* scheme to another, or to no partition at all.                           *)
(***************************************************************************)
Samples ==
  {None, Counted(2), [Counted(2) EXCEPT !.scheme = "g"],
   Clause("RANGE", <<Range("p", 2)>>), Clause("LIST", <<List("p", {1})>>)}

MCList ==
  LET Some    == SUBSET (0..2) \ {{}}
      Ones    == {{v} : v \in 0..2}
      before  == Valid(UNION {ListsOver(n, Some) : n \in Orders})
      columns == RangesOver("RANGE COLUMNS", Orders, MCBounds)
  IN  Pairs(before, UNION {ListsOver(n, Some) : n \in Orders}, {{}, {"partition"}})
      \cup Pairs(before, UNION {ListsOver(n, Ones) : n \in Goals \ Orders}, {{}, {"partition"}})
      \cup Pairs(before, UNION {Touched(m) : m \in UNION {Touched(l) : l \in before}}, {{}})
      \cup Pairs(Valid(columns), columns, {{"all"}})
      \cup Pairs({Counted(k) : k \in {Unset} \cup 1..4}, {Counted(k) : k \in Unset..4}, {{}, {"partition"}})
      \cup Pairs(Samples, Samples \cup {Clause("RANGE", <<>>), Clause("LIST", <<>>)}, {{"all"}})

(***************************************************************************)
(* Two runs: a bound and an option, values that grow, values that move,    *)
(* partitions added, dropped, and inserted before MAXVALUE.                *)
(***************************************************************************)
By(kind, a, b, c) ==
  IF kind = "LIST"
  THEN Clause(kind, <<List("p", a), List("q", b), List("r", c)>>)
  ELSE Clause(kind, <<Range("p", a), Range("q", b), Range("r", c)>>)

Commented(l, i) == [l EXCEPT !.defs[i].option = "comment"]

MCRace ==
  LET to(cur, des) == [cur |-> cur, des |-> des, allow |-> {}, runs |-> Clients]
      pair         == Clause("RANGE", <<Range("p", 1), Range("q", 2)>>)
      triple       == By("RANGE", 1, 2, 3)
      closed       == By("RANGE", 1, 3, MCMax)
      lists        == By("LIST", {0}, {1}, {2})
  IN  {to(closed, Commented(By("RANGE", 2, 3, MCMax), 3)),
       to(lists, Commented(By("LIST", {0, 3}, {1}, {2}), 3)),
       to(By("LIST", {0, 3}, {1}, {2}), By("LIST", {0}, {1}, {2, 3})),
       to(pair, triple),
       [to(triple, pair) EXCEPT !.allow = {"partition"}],
       to(Clause("RANGE", <<Range("p", 1), Range("s", MCMax)>>),
          Clause("RANGE", <<Range("p", 1), Range("q", 2), Range("s", MCMax)>>))}

MCScenarios == MCRange \cup MCList \cup MCRace
=============================================================================
