---------------------------- MODULE MCDirectives ----------------------------
(***************************************************************************)
(* Three short texts, with directives and block comments put in at every   *)
(* place.                                                                  *)
(***************************************************************************)
EXTENDS DirectiveProperties

TableBase ==
  <<Sql("table", "t"), Break, Sql("column", "a"), Break, Sql("index", "a"), Break,
    Sql("closing", "utf8mb4"), End, Break, Sql("trigger", "g"), End, Break>>
ViewBase ==
  <<Sql("view", "v"), End, Break, Sql("table", "t"), Break, Sql("column", "a"), Break,
    Sql("primary", None), Break, Sql("closing", None), End>>
LineBase ==
  <<Sql("table", "t"), Sql("column", "a"), Break, Sql("closing", "utf8mb4"), End, Break>>

Names == {"renamed-from", "execute", "convert-charset", "typo"}

Insert(seq, i, more) == SubSeq(seq, 1, i) \o more \o SubSeq(seq, i + 1, Len(seq))

(***************************************************************************)
(* Not between a directive and the end of its line.                        *)
(***************************************************************************)
Places == 0..13

Free(t, i) == i <= Len(t) /\ (i = 0 \/ t[i].k \notin {"dir", "--"})

With(names, ts) ==
  {Insert(x[1], x[2], <<Dir(x[3], 0), Break>>) : x \in
     {y \in ts \X Places \X names : Free(y[1], y[2])}}

WithDirective(ts) == With(Names, ts)
WithRename(ts)    == With({"renamed-from", "typo"}, ts)

WithNote(ts) ==
  {Insert(x[1], x[2], <<Note, Break>>) : x \in {y \in ts \X Places : Free(y[1], y[2])}}

WithBlock(ts) ==
  {Insert(Insert(x[1], x[3], <<Close>>), x[2], <<Open>>) : x \in
     {y \in ts \X Places \X Places : y[2] <= y[3] /\ Free(y[1], y[2]) /\ Free(y[1], y[3])}}

Numbered(t) == [i \in DOMAIN t |-> IF t[i].k = "dir" THEN [t[i] EXCEPT !.id = i] ELSE t[i]]

All(bases) == bases \cup WithDirective(bases) \cup WithDirective(WithDirective(bases))

MCTexts ==
  {Numbered(t) : t \in All({TableBase, ViewBase, LineBase})
                         \cup WithBlock(WithDirective({TableBase, ViewBase}))
                         \cup WithNote(WithDirective(WithDirective({LineBase})))
                         \cup WithBlock(WithRename(WithRename({LineBase})))}
=============================================================================
