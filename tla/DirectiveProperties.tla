------------------------- MODULE DirectiveProperties -------------------------
(***************************************************************************)
(* What a reader of the text takes its directives to mean, and that        *)
(* ParseSQL takes them so.                                                 *)
(***************************************************************************)
EXTENDS Directives

(***************************************************************************)
(* A directive that is a comment of the text, the statement it is in or in *)
(* front of, and the line.                                                 *)
(***************************************************************************)
Live      == LiveAt(text, {"dir"})
Ends      == LiveAt(text, {";"})
Words     == LiveAt(text, {"sql"})
Breaks    == {i \in DOMAIN text : text[i] = Break}

Same(at, p, q) == \A i \in at : ~(p < i /\ i < q) /\ ~(q < i /\ i < p)

SqlBefore(p) == {q \in Words : q < p /\ Same(Ends, p, q)}
SqlAfter(p)  == {q \in Words : p < q /\ Same(Ends, p, q)}

Next1(set)  == CHOOSE q \in set : \A r \in set : q <= r

Meaning(p) ==
  LET words  == SqlBefore(p) \cup SqlAfter(p)
      target == IF SqlBefore(p) = {} THEN Next1(words) ELSE Next1(SqlAfter(p))
  IN  IF text[p].d = "execute" THEN SqlOf([i \in DOMAIN text |-> IF i \in words THEN text[i] ELSE Break])
      ELSE <<text[target].s, text[target].n>>

(***************************************************************************)
(* Where the scanners do not look: behind SQL on the same line, and for an *)
(* execute directive behind the start of the statement.  They do not see   *)
(* a block comment either that is opened behind SQL.                       *)
(***************************************************************************)
BehindSql(p)  == \E q \in SqlBefore(p) : Same(Breaks, p, q)
BehindEnd(p)  == \E q \in Ends : q < p /\ Same(Breaks, p, q)
Overlooked(p) == BehindSql(p) \/ (text[p].d = "execute" /\ SqlBefore(p) # {})

BlocksLead == \A p \in LiveAt(text, {"/*"}) : ~BehindSql(p) /\ ~BehindEnd(p)

-----------------------------------------------------------------------------
(***************************************************************************)
(* Of a text that is taken, no directive is dropped, each one acts on what *)
(* follows it: dropped, a renamed-from would make a DROP and a CREATE.     *)
(***************************************************************************)
NoneLost ==
  pc = "parsed" /\ BlocksLead =>
    \A p \in Live : text[p].d = "typo" \/ Overlooked(p)
                      \/ [id |-> text[p].id, to |-> Meaning(p)] \in attached

(***************************************************************************)
(* Nothing acts that is not a comment of its own (a directive inside a     *)
(* block comment is commented out), and nothing acts twice.                *)
(***************************************************************************)
NoneInvented ==
  pc = "parsed" /\ BlocksLead =>
    \A e \in attached : \E p \in Live : text[p].id = e.id /\ Meaning(p) = e.to

(***************************************************************************)
(* The validator and the extractors go by the same lines: a directive with *)
(* a wrong name or wrong arguments is never passed over, wherever it has a *)
(* line of its own.                                                        *)
(***************************************************************************)
TyposRefused ==
  pc = "parsed" /\ BlocksLead =>
    \A p \in Live : text[p].d = "typo" => BehindSql(p) \/ BehindEnd(p)

(***************************************************************************)
(* A text without a mistake is taken: comments and blocks around, between  *)
(* and on the lines of its directives do not matter.                       *)
(***************************************************************************)
Renames(p) == text[p].d = "renamed-from"

Front(p) == SqlBefore(p) = {}

Placed(p) ==
  /\ text[p].d # "typo" /\ SqlAfter(p) # {}
  /\ \/ text[p].d = "execute" /\ Front(p)
     \/ /\ Front(p) /\ text[Next1(SqlAfter(p))].s = "table"
        /\ Renames(p) \/ \E q \in SqlAfter(p) : text[q].s = "closing" /\ text[q].n # None
     \/ Renames(p) /\ ~Front(p) /\ text[Next1(SqlAfter(p))].s \in Renameable

Alone(p) ==
  \A q \in Live \ {p} :
    \/ ~Same(Ends, p, q)
    \/ /\ Renames(p) \/ Renames(q)
       /\ text[p].d # "execute" /\ text[q].d # "execute"
       /\ Front(p) => ~Front(q)
       /\ ~Front(p) /\ ~Front(q) => Next1(SqlAfter(p)) # Next1(SqlAfter(q))

Legal ==
  /\ BlocksLead
  /\ \A p \in Live : Placed(p)
  /\ \A p \in Live : Alone(p)
  /\ \A i \in DOMAIN SplitStatementToPieces(text) :
       LET piece == SplitStatementToPieces(text)[i]
       IN  Parses(SqlOf(piece)) \/ Guarded(piece)

LegalAccepted == pc = "refused" => ~Legal

(***************************************************************************)
(* CAVEATS.md:867: comments that look like a directive "go through         *)
(* ValidateDirectives first and unknown / malformed shapes error out at    *)
(* parse time".                                                            *)
(***************************************************************************)
TyposErrorOut == pc = "parsed" => \A p \in Live : text[p].d # "typo"
=============================================================================
