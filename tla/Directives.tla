----------------------------- MODULE Directives -----------------------------
(***************************************************************************)
(* ParseSQL and the scanners of parser/directive.go.  Directives are line  *)
(* comments, so they are looked for line by line in the text, next to a    *)
(* parser that reads the same text and drops its comments.                 *)
(*                                                                         *)
(* A text is a sequence of fragments.  What a line comment says, directive *)
(* or not, reaches to the end of its line; every directive has the rest of *)
(* the line to itself, and one with a wrong name or wrong arguments is a   *)
(* "typo".                                                                 *)
(***************************************************************************)
EXTENDS Naturals, Sequences

CONSTANTS
  Texts,  \* desired SQL, the files joined
  None

S == INSTANCE SequencesExt

Open  == [k |-> "/*"]
Close == [k |-> "*/"]
Note  == [k |-> "--"]
End   == [k |-> ";"]
Break == [k |-> "newline"]

Sql(shape, n) == [k |-> "sql", s |-> shape, n |-> n]
Dir(name, id) == [k |-> "dir", d |-> name, id |-> id]

VARIABLES
  text,
  pc,
  pieces,    \* statements still to look at
  tables,    \* names of the tables parsed
  attached   \* directives parsed, with what each one acts on

vars == <<text, pc, pieces, tables, attached>>

-----------------------------------------------------------------------------
(***************************************************************************)
(* The loop that all scanners share: a line inside a block comment is      *)
(* skipped up to the close, blocks at the start of a line are taken off,   *)
(* and Op gets what is left with the number of the line.                   *)
(***************************************************************************)
Lines(seq) ==
  S!FoldLeft(LAMBDA ls, f : IF f = Break THEN Append(ls, <<>>)
                            ELSE [ls EXCEPT ![Len(ls)] = Append(@, f)],
             << <<>> >>, seq)

Joined(lines) == S!FlattenSeq([i \in DOMAIN lines |-> Append(lines[i], Break)])

reduced(st, f) ==
  IF st.rest # <<>> THEN [st EXCEPT !.rest = Append(@, f)]
  ELSE IF st.block THEN [st EXCEPT !.block = f # Close]
  ELSE IF f = Open THEN [st EXCEPT !.block = TRUE]
  ELSE [st EXCEPT !.rest = <<f>>]

\* Mutant: no line is inside a block comment.
reduceLeadingBlocksPerLine(inBlock, line) ==
  S!FoldLeft(reduced, [block |-> FALSE, rest |-> <<>>], line)

reduceLeadingBlocks(inBlock, line) ==
  S!FoldLeft(reduced, [block |-> inBlock, rest |-> <<>>], line)

Scan(Op(_, _, _), init, lines) ==
  S!FoldLeftDomain(
    LAMBDA st, i :
      LET r == reduceLeadingBlocks(st.block, lines[i])
      IN  IF r.rest = <<>> THEN [st EXCEPT !.block = r.block]
          ELSE [Op(st, r.rest, i) EXCEPT !.block = FALSE],
    init, lines)

Comment(rest)      == Head(rest).k \in {"--", "dir"}
Matches(rest, d)   == Head(rest).k = "dir" /\ Head(rest).d = d

-----------------------------------------------------------------------------
(***************************************************************************)
(* Over the whole text.                                                    *)
(***************************************************************************)
\* Mutant: up to the first line of SQL.
validateDirectivesLeading(t) ==
  LET validate(st, rest, i) ==
        IF Comment(rest) THEN [st EXCEPT !.ok = @ /\ (st.sql \/ ~Matches(rest, "typo"))]
        ELSE [st EXCEPT !.sql = TRUE]
  IN  Scan(validate, [block |-> FALSE, ok |-> TRUE, sql |-> FALSE], Lines(t)).ok

validateDirectives(t) ==
  LET validate(st, rest, i) == [st EXCEPT !.ok = @ /\ ~Matches(rest, "typo")]
  IN  Scan(validate, [block |-> FALSE, ok |-> TRUE], Lines(t)).ok

(***************************************************************************)
(* In front of a statement.  `error` is a second one, and for the charset  *)
(* also one behind the start of the statement, which the others leave to   *)
(* extractInlineRenames or ignore.                                         *)
(***************************************************************************)
Leading(d, lateIsError, piece) ==
  LET extract(st, rest, i) ==
        IF ~Comment(rest) THEN [st EXCEPT !.sql = TRUE]
        ELSE IF ~Matches(rest, d) \/ (st.sql /\ ~lateIsError) THEN st
        ELSE IF st.sql \/ st.id # None THEN [st EXCEPT !.error = TRUE]
        ELSE [st EXCEPT !.id = Head(rest).id, !.line = i]
  IN  Scan(extract, [block |-> FALSE, sql |-> FALSE, error |-> FALSE, id |-> None, line |-> 0],
           Lines(piece))

extractExecuteDirective(piece)   == Leading("execute", FALSE, piece)
extractStmtRenameFrom(piece)     == Leading("renamed-from", FALSE, piece)
extractStmtConvertCharset(piece) == Leading("convert-charset", TRUE, piece)

payloadHasNoSQL(lines) ==
  LET look(st, rest, i) == [st EXCEPT !.sql = @ \/ ~Comment(rest)]
  IN  ~Scan(look, [block |-> FALSE, sql |-> FALSE], lines).sql

(***************************************************************************)
(* Inside a statement: a directive waits for the next line of SQL, which   *)
(* says by its first words what it is.  `to` maps targets to directives,   *)
(* `bad` are the unsupported ones.                                         *)
(***************************************************************************)
Renameable == {"column", "index", "check", "foreign key"}

classifyInlineLine(rest) ==
  IF Head(rest).k # "sql" THEN <<"column", None>>
  ELSE IF Head(rest).s \in Renameable THEN <<Head(rest).s, Head(rest).n>>
  ELSE IF Head(rest).s \in {"primary", "closing"} THEN None
  ELSE <<"column", None>>

\* Mutant: the last of several directives counts.
StackedLast(st, id) == [st EXCEPT !.pending = id]

Stacked(st, id) == [st EXCEPT !.bad = @ \cup ({st.pending} \ {None}), !.pending = id]

\* Mutant: a directive goes on waiting when it has found its line.
AttachedSticky(st, target) ==
  IF target = None THEN [st EXCEPT !.bad = @ \cup {st.pending}]
  ELSE [st EXCEPT !.to = {e \in @ : e.to # target} \cup {[id |-> st.pending, to |-> target]}]

Attached(st, target) ==
  IF target = None THEN [st EXCEPT !.bad = @ \cup {st.pending}, !.pending = None]
  ELSE [st EXCEPT !.to      = {e \in @ : e.to # target} \cup {[id |-> st.pending, to |-> target]},
                  !.pending = None]

extractInlineRenames(piece) ==
  LET extract(st, rest, i) ==
        IF Comment(rest)
        THEN IF st.sql /\ Matches(rest, "renamed-from") THEN Stacked(st, Head(rest).id) ELSE st
        ELSE IF st.sql /\ st.pending # None THEN Attached(st, classifyInlineLine(rest))
        ELSE [st EXCEPT !.sql = TRUE]
      end == Scan(extract, [block |-> FALSE, sql |-> FALSE, pending |-> None,
                            to |-> {}, bad |-> {}], Lines(piece))
  IN  [to |-> end.to, bad |-> end.bad \cup ({end.pending} \ {None})]

-----------------------------------------------------------------------------
(***************************************************************************)
(* The SQL parser: where a comment begins and ends, wherever on a line;    *)
(* statements between semicolons; what is a statement.                     *)
(***************************************************************************)
lexed(in, f) ==
  CASE in = "block" -> IF f = Close THEN "code" ELSE in
    [] in = "line"  -> IF f = Break THEN "code" ELSE in
    [] in = "code"  -> IF f = Open THEN "block" ELSE IF f.k \in {"--", "dir"} THEN "line" ELSE in

Modes(seq) ==
  S!FoldLeft(LAMBDA modes, f : Append(modes, lexed(S!Last(modes), f)), <<"code">>, seq)

LiveAt(seq, kinds) ==
  LET modes == Modes(seq) IN {i \in DOMAIN seq : modes[i] = "code" /\ seq[i].k \in kinds}

SqlOf(seq) ==
  LET live == LiveAt(seq, {"sql"})
  IN  S!FoldLeftDomain(LAMBDA l, i : IF i \in live THEN Append(l, seq[i]) ELSE l, <<>>, seq)

SplitStatementToPieces(seq) ==
  LET ends == LiveAt(seq, {";"})
      cut(ps, i) == IF i \in ends THEN Append(ps, <<>>)
                    ELSE [ps EXCEPT ![Len(ps)] = Append(@, seq[i])]
  IN  SelectSeq(S!FoldLeftDomain(cut, << <<>> >>, seq),
                LAMBDA p : \E i \in DOMAIN p : p[i] # Break)

Table(sql)     == Len(sql) > 2 /\ Head(sql).s = "table" /\ S!Last(sql).s = "closing"
Parses(sql)    == sql = <<>> \/ Table(sql) \/ (Len(sql) = 1 /\ Head(sql).s = "view")
TargetsIn(sql) == {<<sql[i].s, sql[i].n>> : i \in DOMAIN sql}

-----------------------------------------------------------------------------
Init ==
  /\ text \in Texts
  /\ pc = "validate"
  /\ pieces = <<>>
  /\ tables = {}
  /\ attached = {}

Validate ==
  /\ pc = "validate"
  /\ IF validateDirectives(text)
     THEN pc' = "pieces" /\ pieces' = SplitStatementToPieces(text)
     ELSE pc' = "refused" /\ UNCHANGED pieces
  /\ UNCHANGED <<text, tables, attached>>

(***************************************************************************)
(* A statement under an execute directive is not parsed; it is everything  *)
(* below the directive.                                                    *)
(***************************************************************************)
Payload(piece) ==
  LET lines == Lines(piece)
  IN  SubSeq(lines, extractExecuteDirective(piece).line + 1, Len(lines))

Guarded(piece) == extractExecuteDirective(piece).id # None

GuardAllowed(piece) ==
  /\ ~extractExecuteDirective(piece).error
  /\ extractStmtRenameFrom(piece).id = None
  /\ extractInlineRenames(piece) = [to |-> {}, bad |-> {}]
  /\ ~extractStmtConvertCharset(piece).error /\ extractStmtConvertCharset(piece).id = None
  /\ ~payloadHasNoSQL(Payload(piece))

Execute ==
  /\ pc = "pieces" /\ pieces # <<>>
  /\ LET piece == Head(pieces)
     IN  /\ Guarded(piece) /\ GuardAllowed(piece)
         /\ attached' = attached \cup
              {[id |-> extractExecuteDirective(piece).id,
                to |-> SqlOf(Joined(Payload(piece)))]}
  /\ pieces' = Tail(pieces)
  /\ UNCHANGED <<text, pc, tables>>

(***************************************************************************)
(* Every other statement.                                                  *)
(***************************************************************************)
Readable(piece) ==
  /\ ~extractExecuteDirective(piece).error
  /\ ~extractStmtRenameFrom(piece).error
  /\ ~extractStmtConvertCharset(piece).error
  /\ Parses(SqlOf(piece))

Directed(piece) ==
  \/ extractStmtRenameFrom(piece).id # None
  \/ extractStmtConvertCharset(piece).id # None
  \/ extractInlineRenames(piece) # [to |-> {}, bad |-> {}]

TableAllowed(piece) ==
  LET sql == SqlOf(piece)
      ren == extractStmtRenameFrom(piece).id
      cc  == extractStmtConvertCharset(piece).id
      inl == extractInlineRenames(piece)
  IN  /\ cc # None => ren = None /\ S!Last(sql).n # None
      /\ \A e \in inl.to : e.to \in TargetsIn(sql)
      /\ inl.bad = {}
      /\ Head(sql).n \notin tables

CreateTable ==
  /\ pc = "pieces" /\ pieces # <<>>
  /\ LET piece == Head(pieces)
         name  == Head(SqlOf(piece)).n
         front == {extractStmtRenameFrom(piece).id, extractStmtConvertCharset(piece).id}
     IN  /\ ~Guarded(piece) /\ Readable(piece) /\ Table(SqlOf(piece)) /\ TableAllowed(piece)
         /\ tables' = tables \cup {name}
         /\ attached' = attached \cup extractInlineRenames(piece).to
                          \cup {[id |-> id, to |-> <<"table", name>>] : id \in front \ {None}}
  /\ pieces' = Tail(pieces)
  /\ UNCHANGED <<text, pc>>

Other ==
  /\ pc = "pieces" /\ pieces # <<>>
  /\ LET piece == Head(pieces)
     IN  ~Guarded(piece) /\ Readable(piece) /\ ~Table(SqlOf(piece)) /\ ~Directed(piece)
  /\ pieces' = Tail(pieces)
  /\ UNCHANGED <<text, pc, tables, attached>>

Refuse ==
  /\ pc = "pieces" /\ pieces # <<>>
  /\ LET piece == Head(pieces)
     IN  IF Guarded(piece) THEN ~GuardAllowed(piece)
         ELSE \/ ~Readable(piece)
              \/ IF Table(SqlOf(piece)) THEN ~TableAllowed(piece) ELSE Directed(piece)
  /\ pc' = "refused"
  /\ UNCHANGED <<text, pieces, tables, attached>>

Done ==
  /\ pc = "pieces" /\ pieces = <<>>
  /\ pc' = "parsed"
  /\ UNCHANGED <<text, pieces, tables, attached>>

Next == Validate \/ Execute \/ CreateTable \/ Other \/ Refuse \/ Done

Spec == Init /\ [][Next]_vars
=============================================================================
