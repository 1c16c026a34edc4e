# A TLA+ model of myschema

myschema is declarative schema management for MySQL: it reads the schema of a
database from `information_schema`, reads the schema somebody wants from SQL
files, computes the DDL between the two (`plan`) and runs it (`apply`).
MySQL commits every DDL statement on its own, so an `apply` is a long sequence
of small irreversible steps, planned from a catalog that was read before the
first of them, with nothing locked and nothing rolled back.  This directory
models that program, checks it with TLC and proves with TLAPS what it promises
first: that user data is kept, that nothing hidden or not opted in is touched,
that files once accepted stay accepted, that views are cut over in order, that
rows of partitions are kept and a change of partitions can be run, continued and
finished.

## 1. Inventory

### Components

| component | state it keeps | operations | interacts with |
|---|---|---|---|
| apply loop (`apply.go`) | the statements still to run | read, diff, run the next statement, stop at the first error | everything below, the server |
| diffAll (`diff_all.go`) | nine buckets of statements, skipped lines | filter both sides, call the two diffs, poll the execute checks, concatenate the buckets | table diff, view diff, server |
| table diff (`diff/tables.go`) | current and desired tables | tables on one side, on both sides; columns, constraints, indexes, foreign keys, options; drop gates | renames, partition diff |
| renames (`diff/rename.go`) | the current side, rewritten in place | table, column, index, CHECK and foreign-key directives, their refusals, five rewrite passes | table diff |
| view diff (`diff/views.go`) | the two sets of views; counters and queue of the sort | topological sort of both, puts forwards, drops backwards | diffAll |
| partition diff (`diff/partitions.go`) | partition layouts | add, drop, reorganise, coalesce, repartition | table diff |
| drop policy, filters (`options.go`) | `--allow-drop`, `--include`, `--exclude` | `IsDropAllowed`, `MatchName` | both diffs, diffAll |
| catalog reader (`catalog/`) | tables read so far | one query for the tables, four per table, one for the views | server |
| execute blocks (`model/execute.go`) | check and body of each block | check before the plan, run after it | diffAll, server |
| parser (`parser/parser.go`) | tables parsed so far, directives taken so far | split the text, parse each statement, hand each directive to what it acts on, refuse the rest | directive scanner, diffAll |
| directive scanner (`parser/directive.go`) | whether a line is inside a block comment, directives pending for the next line | validate the lines, extract four kinds of directive from raw lines | parser |
| bulk alter (`bulk_alter.go`) | one open ALTER | fold consecutive ALTERs of a table | diffAll |
| charset and collation (`model/charset.go`, and a part of `parser/`, `catalog/`, `diff/tables.go`) | none | take what is the default out of columns and tables, on both sides | table diff |
| online-DDL hints, pre-SQL (`pre_sql.go`), plan, dump (`dump.go`), expressions (`diff/expr.go`), client, command line | | | |
| MySQL | the schema, the data | accept or refuse a statement, run it atomically | everybody who connects |

### What is hard here

* **Crash and rerun.** A run stops at the first error or dies; the next one
  meets any prefix of the plan: renames half done, foreign keys dropped and
  not added, a CHECK between its DROP and its ADD.  The files still carry the
  same `renamed-from` directives.
* **Stale reads.** The catalog is read by `2 + 4n` queries outside a
  transaction.  Another `apply`, or somebody at a prompt, may run DDL between
  two of them and between the plan and each statement of it.
* **Order.** Nine buckets, an order inside each, and two topological sorts
  over different sets of views have to suit every combination of rename,
  foreign key, drop and create.
* **Prediction.** After a rename the diff works on a rewritten current side;
  what the rewrite passes predict must be what the server does.
* **Two readers.** Directives are comments: line scanners look for them in the
  text, next to a parser that drops comments and knows no lines.  Charsets are
  normalised by the parser on one side and by the catalog reader on the other,
  and compared afterwards.
* **Folding.** `--bulk-alter` makes one ALTER of many, which changes the table
  the specifications are resolved against.
* **Policy.** A drop that is not allowed is left out while everything else
  runs; nothing may vanish unasked and nothing may stay unreported.

`PROJECT.json` lists these hazards one by one, at their lines, with the
properties that catch each.

### What correct means, per component

* apply loop: claimed data is never lost (`DataKept`); with every drop allowed
  a finished run has reached the desired schema (`DoneConverged`); a run can be
  continued (`PlannableStays`, `Resumable`); retries get there (`Finishes`).
* diffs and bucket order: the server refuses no statement of a plan
  (`NeverRejected`); nothing is dropped and added for a rename's sake
  (`NothingNeedless`); a second plan is empty (`ReplanEmpty`).
* policy, filters: `DropsOptedIn`, `ObjectsOptedIn`, `NothingHidden`,
  `HiddenUntouched`.
* view diff: the sort is a dependency order (`Ordered`) and fails on cycles
  only (`StuckOnCycle`); the server takes every statement (`NeverRejected`), no
  view breaks but one that is about to be replaced (`OnlyChangedDangle`), the
  views are cut over one whole view at a time (`ImplementsCutover`), reruns
  settle (`Settles`).
* table diff in detail, bulk alter, charset: no statement is refused, folded or
  not (`NeverRejected`); new columns land where the files have them
  (`AddedInPlace`); nothing left to do means that the table is the declared one
  (`EmptyPlanFaithful`); two applies suffice, and one where nothing says why not
  (`Stages`); folding changes nothing but the number of statements
  (`FoldsFaithfully`); reruns settle (`Settles`).
* parser and directive scanner: no directive is lost, none is invented, each
  acts on what follows it (`NoneLost`, `NoneInvented`), a mistyped one is an
  error (`TyposRefused`), and a text without a mistake is taken
  (`LegalAccepted`).
* partition diff: every layout on the way is legal (`NeverRejected`), a run can
  be continued and a rerun rewrites nothing twice (`Resumes`), the clause is
  reached (`DoneConverged`, `Settles`), a partition that stays as it is is not
  rewritten (`RewritesOnlyChanged`), rows go only with permission and only
  those given up (`ImplementsCustody`).

## 2. Modules

```
Catalog ── MySQL ── SchemaDiff ── SchemaApply ── ApplyProperties ── Universe ── MC*
                         │                             │
                    MySQLProofs, SchemaDiffProofs   Custody (abstract)
                         └────────── SchemaApplyProofs ┘  │  CustodyProofs
                                                          │
PartitionDiff ── PartitionApply ── PartitionProperties ───┘
                                     │    └── PartitionUniverse ── MCPartitions
                                     └── PartitionProofs

ViewOrder ── ViewApply ── ViewProperties ── MCViews
    │                       │   └── ViewCutover (abstract)
    └── ViewOrderProofs ── ViewApplyProofs

SequenceLemmas (under ViewOrderProofs, ViewApplyProofs, PartitionProofs)

TableDiff ── TableAlter ── AlterProperties ── MCAlter

Directives ── DirectiveProperties ── MCDirectives
```

The five groups are five cuts through one program, each at the grain its
hazards need.  `SchemaDiff` has every kind of object, all renames and the
concurrency, but sets of columns, opaque definitions and a view sort in one
step; `TableDiff` has one table with its columns in their order and their
charsets, `ViewOrder` the sort element by element, `PartitionDiff` one
partition clause, `Directives` the text.

* **Catalog** — a schema as a record of relations: tables, columns, primary
  keys, indexes, CHECKs, foreign keys, views; the desired schema adds the
  directives and the execute blocks.  A column's type and attributes
  (`columnEqual`) are one opaque value, an expression is the set of columns it
  mentions.
* **MySQL** — external.  Which statement the server accepts in which schema
  (1091, 1553, 1828, 3730, 3959, ...), what it does to the schema (implicit
  foreign-key indexes, indexes that shrink with a dropped column, references
  that follow a rename) and to the data (`Carried`).
* **SchemaDiff** — package `diff` and `diffAll` as pure operators: filters,
  refusals, renames with their rewrite passes, one operator per `diffX`
  function giving the *set* of statements with bucket and gate, and the order
  of a plan (`Before`, `First`).  A plan being a set with an order, statements
  the order leaves open are run by the model in every order.
* **SchemaApply** — the machine.  Each client has a program counter `pc`, what
  it has read (`snap`, `unread`), its plan (`pending`, `skipped`), its open
  checks (`checks`); the server has `db`; `cell` follows the data of every
  column of the first schema.  Actions: `ListTables`, `LoadColumns`,
  `LoadIndexes`, `LoadCheckConstraints`, `LoadForeignKeys`, `LoadViews` (one
  per query), `DiffRefused`, `DiffAll`, `CheckExecute`, `StartExec`, `Exec`,
  `Reject`, `Finish`; and around it `Crash`, `Rerun`, `SomebodyElse`.
  `Crash` stands for a failing query too, those of `executeCheckMatched`
  included: the run ends and keeps nothing.
* **ApplyProperties** — the type invariant and all properties.
* **Custody** — the abstract specification: where the data of each column is,
  what was ordered, and that a step keeps, moves or discards.  `SchemaApply`
  implements it under the mapping in `ApplyProperties` (`ImplementsCustody`).
* **PartitionDiff** — `diffPartitions` for one table.  A clause is a kind, an
  opaque scheme (expression and columns), a sequence of definitions (name, how
  it is spelled, bound or set of values, options) and, for HASH and KEY, a
  count, -1 when `PARTITIONS n` is left out.  A clause by HASH that lists its
  partitions by name is not modelled (`WellFormed`).  Bounds are integers; those
  in `Literals` are what `rangeBoundaryAsInt64` can parse, of the others the diff
  knows only whether two are the same text.
* **PartitionApply** — the apply loop for that table: `Plan` or `Refuse`,
  `Exec`, `Reject`, `Finish`, `Crash`, `Rerun`.  Reading the clause is one
  query and planning touches nothing shared, so the two are one action.  The
  server half is external: errors 1481, 1493, 1495, 1517, 1519, 1520, and which
  values lose their rows (`Loss`), assuming that the application stores rows
  with every value some partition takes.
* **PartitionProperties** — its properties, and the mapping under which it
  implements `Custody` as well, with values for places.
* **ViewOrder** — `topoSortViews` as a machine: `Load` counts for each view the
  references that are views of the same schema, `Visit` takes the head of the
  queue, lowers the counters of its dependents in the order of their names and
  queues those that reach zero; `Circular` is what is left when the queue runs
  dry.
* **ViewApply** — `DiffViews` and the loop that runs its statements:
  `SortDesired`, `Sort`, `SortCurrent`, `Refuse`, `Plan`, `Execute`, `Reject`,
  `Finish`, `Crash`.  A view is its name and the set of names its body reads; a
  body goes with its set.  The server drops a view whatever reads it and creates
  or replaces one when everything its body reads can itself be read without it.
* **ViewCutover** — the abstract specification: one wanted view at a time gets
  its body, when all it reads is there and has its own body as far as it is
  wanted; one unwanted view at a time goes, when no other unwanted one reads it.  **ViewProperties** shows that
  `ViewApply` implements it.
* **TableDiff** — `Parsed` and `Loaded`, what parser and catalog reader make of
  charsets and collations; then, function by function, the specifications
  `diffTable` emits for one table on both sides, in their order and with their
  AFTER anchors; then `Statements`, what `bulk_alter.go` makes of them.
* **TableAlter** — repeated applies of one changed CREATE TABLE: `Refuse`,
  `Plan`, `Execute`, `Reject`, `Finish`, `Crash`.  External: what one ALTER with
  several specifications does, in particular that all of them name the table as
  it was, that an unset charset means the table's as the statement leaves it,
  and that CONVERT TO rewrites every text column.
* **AlterProperties** — its properties.
* **Directives** — a text as a sequence of fragments: SQL of a shape, directives,
  comment and block delimiters, `;`, line ends.  The validator, the splitting at
  `;`, the four extractors and the loop of `ParseSQL` with its refusals:
  `Validate`, `Execute`, `CreateTable`, `Other`, `Refuse`, `Done`.  **DirectiveProperties** reads the same text without lines, as a
  sequence of comments and statements, and compares.
* **PartitionUniverse**, **Universe**, and all modules `MC*` — finite sets of
  scenarios.
* **MySQLProofs**, **SchemaDiffProofs**, **SchemaApplyProofs**,
  **CustodyProofs**, **ViewOrderProofs**, **ViewApplyProofs**,
  **PartitionProofs** — theorems and lemmas; **SequenceLemmas** — what several of
  them need to know of sequences.

Operators under a comment `Mutant:` are plausible bugs, each the counterpart
of the definition below it; no specification uses them.

## 3. Runs

A scenario is a first schema, desired files, filters and an `--allow-drop`
list.  Scenario sets are enumerated, not picked, wherever that is feasible.

| run | bounds | shows |
|---|---|---|
| `Renames` | every start and every goal over two of three table names, one column called x or y and at most one foreign key (self references too), every table and column directive; and without column renames through every filter that hides a table; 1 client, 1 crash | types; claimed data kept; no statement refused; files stay plannable after a crash; at every statement the diff of the live schema asks for exactly what is left of the plan (`Resumable`; its excuse for keys has no case here); hidden tables untouched |
| `Objects` | one table, columns x, y, z, two definitions, primary key and index over up to two columns, a CHECK, a column and an index rename, an execute block; and every acyclic set of three views, or two and a table, to every other | statements inside one ALTER sequence and across the buckets are in an order the server takes; second plan empty; convergence |
| `Policies` | all 64 `--allow-drop` lists against every way to lose or replace one object of each kind, and the migration of `Race` by one run with a statement of somebody else's at any moment; 1 crash, 1 foreign DDL statement | opt-in, completeness of the `-- skipped:` report, the refinement of Custody, from torn and stale reads too |
| `Race` | two clients interleaved at every query and statement, under fairness | convergence of both, `Finishes` |
| `Views` | every digraph over four views as files for an empty server; every acyclic start over three names, with bodies that read missing views, to every closed acyclic set of files over them, drops allowed or not; files that read what is nowhere; 1 crash | the sort is right on every graph; every statement accepted; the refinement of ViewCutover; reruns settle |
| `Alter` | every order of up to three columns to every order of up to four, two of them new, one renamed and retyped; primary key and index over up to two columns while columns go, come or are renamed; every charset and collation of a table and one or two columns, `convert-charset` included; each with and without `--bulk-alter`; 1 crash | positions, order, two-stage convergence, folding, and what an empty plan promises |
| `Partitions` | RANGE: up to three partitions (four when only options and bounds change), bounds 1..4 of which 4 is an expression, and MAXVALUE; every desired clause over thirteen name lists, also disordered and with a name twice. LIST: every distribution of three values over up to three partitions, both `--allow-drop` settings. RANGE COLUMNS; HASH counts 1..4 and none, and 0 in the files; clauses without a partition; kinds and schemes against each other; 1 crash. And two clients on one change of every RANGE and LIST kind | types; legal intermediate layouts, continuation, convergence, minimal rewriting, custody of rows, `Settles` |
| `Directives` | three texts (table, view and trigger statements over one or several lines); none, one or two directives of every kind, mistyped ones included, at every place; with a block comment over every range or a line comment at every place | scanners and parser agree |

The largest, `Alter`, `Policies` and `Renames`, have about half a million distinct
states each.

Two tables suffice for renames because every pass relates at most a table and
the one its foreign key refers to; a third *name* is there for chains and
swaps.  Three views give every dependency shape in which a wrong order shows:
chain, fork, join; four add the diamond and cycles beside a part without one.  One crash suffices for one client because a rerun starts
from the database alone: a second crash meets a state that is a first crash of
a run started in between.

Three columns give a column with two neighbours, of which either may go, come
or be renamed.  Two charsets with two collations each give every relation
of a column to its table that the normalisations tell apart: same, same charset
with another collation, other charset, its default or not.  Nothing tells the two
charsets apart but their names, so the first table always has the first one.  Two directives
are what it takes to compete for one line or one statement, and one block comment
what it takes to hide either.

Four partitions give every shape `diffPartitions` tells apart: a run in the
middle with an unchanged slot on both sides, two runs, a run that pulls in the
slot behind it next to another run, an insert before the MAXVALUE partition
with one before it.

`CHECK_DEADLOCK FALSE` in all runs: a finished run stops.

### Fairness

`Fairness` is weak fairness of `Step(p) \/ Rerun(p)` for each client: a process
that is not killed goes on (there is no lock it could wait for; each query and
statement returns), and an operator whose run failed repeats it with the same
files.  No fairness is assumed of crashes or foreign DDL, and none between the
clients beyond that.  `ViewApply` and `TableAlter` assume the same of their one
run.  In `TableAlter` it is written with the condition under which `Step` is
enabled, `pc \in {"idle", "apply"}`, in place of ENABLED: the two are the same
there, and TLC need not compute plans to find out.

### What the scenarios leave out

Some migrations are refused by the server as planned, or never come to rest.
Each is named in the modules and kept out of the runs that claim otherwise:

* `CheckedColumnTouched` (`Universe`) — renaming or dropping a column a CHECK
  mentions (error 3959); `CAVEATS.md` documents it.
* `PrimaryKeyColumnsDropped` (`Universe`) — a primary key all of whose columns
  are dropped is gone when DROP PRIMARY KEY comes (1091, `diff/tables.go:268`).
  The run `Alter` has these migrations: its `NeverRejected` excuses exactly this
  statement (`KeyGone`), and its `Settles` says that the next run makes up for
  it; folded by `--bulk-alter` it works at once.
* `CoveringKeyReplaced` (`Universe`) — see run `CoveringIndex`.
* `RenamedByReplacement` (`Universe`) — a renamed CHECK or foreign key is
  dropped and added; a run that dies in between is refused for ever by
  `validateConstraintRenames` (`diff/rename.go:420`), which finds neither name.
  Hence `PlannableStays` and `Resumable` are checked without such renames.
* `NeverRejected` of the partitions excuses what the diff leaves to the
  server: disordered bounds that are expressions (`PARTITIONING.md` says so), a
  name used twice in an ADD, a lowered last RANGE bound (`EndShrinks`),
  planned as a REORGANIZE that is refused with 1520 (`diff/partitions.go:370`),
  and files that keep no partition or do not say how many (`Emptied`): the
  number left out is -1 in the parser's tree and is subtracted as such
  (`diff/partitions.go:168`), so the COALESCE is of one more than there are.
  It speaks of a run that is alone (`Alone`): of two at once, one may well be
  refused.
* `Resumes` and `DoneConverged` of the partitions leave out a table by HASH or
  KEY whose clause does not say how many partitions it has (`Uncounted`): taking
  -1 from the desired number adds one too many, and the next plan takes it away.
* `RewritesOnlyChanged` speaks of statements the server carries out; one that it
  refuses reads and writes nothing.
* `Settles` of the partitions leaves out HASH: `ADD PARTITION PARTITIONS n` is
  relative, so two concurrent runs of the same files overshoot.  Nobody else
  changes the clause in `PartitionApply`; a LIST value added by hand between
  the reading and the REORGANIZE would be dropped with its rows.
* `Settleable` (`AlterProperties`) — a column that spells out the charset or the
  collation its table has anyway is modified by every plan (run
  `CharsetSpelledOut`), and so is one that gives only a collation of another
  charset.
* `Lost`, `LostDefault` (`AlterProperties`) — a COLLATE that is some charset's
  default, without any charset at the column or the table, is taken out by the
  parser (`parser/parser.go:457`–`474`) and never reaches the diff.
* `EmptyPlanFaithful` speaks of a column's collation only when the table's is
  its charset's default: otherwise the catalog reader has taken out the column's
  (`catalog/tables.go:231`).
* `Clobbers` (`AlterProperties`) — CONVERT TO folded with a column that names a
  charset overwrites it; the next apply repairs it, as `CAVEATS.md` says.
* `Overlooked` (`DirectiveProperties`) — the scanners look only at the start of
  a line, and for `execute` only in front of a statement: a well-formed
  directive behind SQL is ignored (`parser/directive_test.go:685` has the second
  case).  `BlocksLead`: they do not see a block comment opened behind SQL.

`NeverRejected` and `NothingNeedless` of `ApplyProperties` are claimed for runs
without filters: a run that filters may plan a CREATE or a rename onto a name
that is taken and hidden from it, and the server refuses that.

`ModifyColumn` is always accepted: whether data fits a new type depends on the
data.

### Where the code and its documents disagree

| run | property | what happens |
|---|---|---|
| `HiddenRename` | `RenamedDataKept` | filters remove a renamed table's declaration and with it its directive; the source is planned as DROP TABLE |
| `CoveringIndex` | `NeverRejected` | replacing the index that covers an unchanged foreign key drops it first, which fails with 1553 |
| `CharsetSpelledOut` | `ConvergesInOneApply` | spelling out the charset of the table at its columns, a workaround in `CAVEATS.md`, leads to a MODIFY in every plan |
| `TrailingTypo` | `TyposErrorOut` | a mistyped directive behind SQL on its line is passed over |

None of them contradicts `DataKept`: `HiddenRename` is about the files as
written, `DataKept` about the files the filters let through, which is what the
code promises to compare.

## 4. Proofs

All theorems hold for every value of the constants, under the assumptions the
modules state: `NoNameAssumption` (the empty string names nothing),
`RankAssumption`, `ScenarioAssumption` (scenarios are well typed, the columns of
the first schema are columns of its tables, and each directive sits on a declared
object, one per object), `ForeignAssumption`
(somebody else's DDL neither removes nor renames data), `BoundAssumption`;
for views `ViewsAssumption`, `ViewScenarioAssumption` and `CrashBoundAssumption`;
for partitions `BoundsAssumption` (bounds are integers below MAXVALUE),
`PartitionScenarioAssumption` (both clauses are well typed, and the first is one
the server takes) and `PartitionBoundAssumption`.

* `TypeCorrect` — `Spec => []TypeOK`.  `EffectType` (module `MySQLProofs`) is
  the server's half: every statement leads from a schema to a schema.
* `ClaimedDataKept` — `Spec => []DataKept`.  `DataKept` is not inductive: the
  loop runs whatever is in `pending`.  The inductive invariant `Safe` adds
  `PlansSound`: each pending statement is *justified* and permitted.  What makes
  it inductive is that `Justified(des, s)` speaks of the files only: a DROP
  TABLE names a table that is not declared and not the source of a directive, a
  RENAME follows a directive whose source is not declared.  So a plan that was
  sound stays sound whatever happens to the catalog it came from.  `DiffSound`
  proves that every plan of every diff that is not refused is sound, for *any*
  snapshot; `RouteKept` that a justified statement leaves claimed data on its
  route.  Hence the theorem needs no bound on clients, crashes or foreign DDL.
* `CustodyImplemented` — `Spec => ImplementsCustody`, from the same invariant.
* `ClaimedStays` — `Custody` keeps what it is stated to keep.
* `HiddenKept`, `DataDropsOptedIn`, `ObjectDropsOptedIn` — `Spec =>` the action
  properties `HiddenUntouched`, `DropsOptedIn`, `ObjectsOptedIn`.  `Safe` carries
  them too: `PlansSound` says in addition that a statement is `Scoped`, that is,
  about tables and views the filters show.  `EffectHidden` is the server's
  half: a scoped statement changes no row of a hidden table, but for the target
  of a foreign key when the table it refers to is renamed.
  For the objects it matters which statement takes one along: an index goes with
  its table or its last column, and is otherwise dropped under its own gate or
  because the files have another one under its name.  All three are about steps
  of a run (`foreign' = foreign`); somebody at a prompt may do anything.
* `AcceptedFilesStayAccepted` — `Spec => [](Undisturbed /\ Fit(Des) =>
  PlannableStays)`: wherever runs of accepted files were interrupted, the next
  one is not refused.  That the diff accepts a schema does not carry over to the
  next schema by itself: it is said of names after `applyTableRenames`, and a
  statement may come from a plan of another run.  The inductive invariant
  `Awaiting` says it of the tables as they are: of the two names of a directive
  exactly one is there (`TablesAwait`, `ColumnsAwait`, `OneOf`), a column is in a
  table (`Rooted`), and the shown views are in no circle (`ViewsAwait`).
  `AcceptedAwaits` and `AwaitedAccepts` show that it is what the diff asks for,
  `RunAwaits` that a statement keeps it.  That needs one more thing of a pending
  statement: what it creates or adds is declared and is not the destination of a
  rename (`Additive`, in `PlansSound` beside `Justified`; `DiffAdditive` proves it
  of every plan).  So whichever of two runs carries out a rename, no run's CREATE
  or ADD makes its destination anew.  For the views it needs the server: a
  body that reads, through others, the view it is for is refused.
  `Fit` leaves out two kinds of files.  Directives of CHECKs, foreign keys and
  indexes may be carried out as a DROP and an ADD, and between the two the property
  is false (`RenamedByReplacement`, section 3).  And column directives that
  contradict each other in a table still to be created are not looked at until it
  is there (`diff/tables.go:61`): those files are accepted once.
* `EmptyPlanHidesNothing`, `EmptyPlanConverges` — `Spec => []` of
  `ReplanEmpty => NothingHidden` and of `ReplanEmpty => DoneConverged`.  Both say
  that an empty second plan can be believed, whatever the schema and the files
  are and however many runs, crashes and reruns came before; that a second plan
  *is* empty stays with TLC.  The first half is the diff's: where it finds
  nothing that the policy permits, everything declared is there
  (`AllDeclaredThere`), and for everything else it has the drop that the policy
  left out (`AllElseSaid`), none when every drop is allowed (`NothingBesides`).
  That is not obvious because the diff compares with a catalog its own rewrite
  passes have gone over, and because it leaves out the DROP INDEX of an index
  whose columns all go.  `NothingRenamed` shows that the passes are the identity
  then, provided that the keys and foreign keys of the catalog name columns that
  are there (`Whole`): otherwise `rewriteFKRefColumn` and the rewriting of key
  parts could change rows that no statement is about.  The second half is the
  server's and the loop's.  `StillConsistent` is the inductive invariant that
  keeps the live schema so: no statement leaves a key over a column that is gone
  or renamed, a second row for a column, or a CHECK without its table
  (`RunConsistent`, with a lemma for each kind of row).  `StillThere` says that
  the data of a column is in a column that is there, wherever it has been taken,
  `AllHandled` that a run knows each execute block as applied, has still to check
  it or has still to run it.
  Assumed are a first schema and files in which this holds (`Consistent`, `Sane`:
  what MySQL enforces and the parser builds; the files' foreign keys are not
  assumed to lead anywhere), that nobody else runs DDL, and for
  `EmptyPlanConverges` that the filters hide no table a shown one is renamed from
  (`SourcesShown`; without it the data stays with the hidden table,
  `HiddenRename` in section 3).  All scenarios of `Objects` and `Policies`
  satisfy all of them.
* `SortedByReferences`, `EndsEarlyOnlyOnCycles` — `Spec => []Ordered` and
  `Spec => []StuckOnCycle` of `ViewOrder`, for every finite set of views and
  every references, views that read themselves or each other included
  (`ViewsAssumption`: views are finitely many integers, standing for names in
  their order).  Neither is inductive: that the head of the queue may be placed
  depends on its counter having been right all along.  The inductive invariant
  `SortInv` says that a counter is the number of references not yet placed
  (`Counters`), that a view is queued or placed exactly when its counter is zero
  (`Zeros`), once (`Once`), and that what is placed has all it reads in front of
  it (`ReadsFirst`).  `LoadSorts` and `VisitSorts` are its two steps; the lemmas
  under them are about one view leaving a queue and a set losing one element.
* `AppliesSorted`, `StatementsAccepted`, `CutoverImplemented`, `NoViewBroken`,
  `EndsReached` — of `ViewApply`: the sorts inside an apply, `[]NeverRejected`,
  `ImplementsCutover`, `[]OnlyChangedDangle`, and that a run with nothing left to
  do has reached the files.  A plan is made from two sorted lists and outlives
  them, so `RunInv` says what is left of it in terms of the server as it is now
  (`Schedule`): every statement is still needed (`Due`), each view comes once,
  a view is put after all that is listed before it and not new yet
  (`PutsInOrder`), dropped after the unwanted ones that read it
  (`DropsInOrder`), and nothing is missing (`NothingMissing`).  `PlanSchedules`
  derives it from `Ordered` of the two sorts; `ExecuteSchedules` keeps it.
  `StatementsAccepted` is stated for files that have all they read and no
  view that reads itself (`Whole`); with others, MySQL refuses the CREATE.
* `TypeCorrect`, `PartitionCustody` (module `PartitionProofs`) — `Spec =>
  []TypeOK` and `Spec => ImplementsCustody` of `PartitionApply`, for any clauses
  and concurrent runs.  That two runs do not throw away rows between them is not
  obvious: a statement meets a clause that is not the one it was planned for.
  `CustodyInv` adds two things.  `PendingSound`: a pending DROP names only
  partitions the files have not, and a pending REORGANIZE by LIST still has the
  clause's partitions where it was planned to find them (`InPlace`), keeps all
  values of theirs that the files keep (`KeepsValues`), and gives up the others
  only with permission (`Moves`).  `ClaimedHome`: a value the files claim is in a
  partition that the files have.  `PlanSound` proves the plan sound, with
  `DropsAre` for the walk that finds what to drop; `MovesKeep` that a statement of
  one run leaves the statements of the others sound; `HomesStay` that it leaves
  claimed values at home.

* `PlansResume`, `RunsConverge`, `NoIdleRewrite`, `PartitionsAccepted` (module
  `PartitionProofs`) — `Spec =>` `[]Resumes`, `[]DoneConverged`,
  `[]RewritesOnlyChanged`, `[]NeverRejected` of `PartitionApply`: what a run
  promises that no other one interferes with, for any clauses, any number of
  partitions and crashes.  A rerun plans from a clause that is neither the old
  one nor the desired one, so nothing about it follows from what was planned
  first.  `AloneInv` says what does: a run that is executing holds exactly the
  plan for the clause there is *now* (`OnPlan`), and a run that is done has left
  the desired clause or reported why not (`Finished`); the other clients do
  nothing (`Bystanders`).  Its one hard step is `PlanContinues`: the plan after a
  statement is the plan before it without that statement.  It has a case for each
  thing `diffPartitions` can do: by RANGE a REORGANIZE of one run of slots leaves
  the other runs the runs of the new clause (`RunKeepsPlan`); by LIST one that
  moves values is the only one there is; ADD and DROP are of the clause's end and
  of names, so that what is left to add or drop is counted off (`AddAttains`,
  `DropAttains`).  `EmptyAgrees` is the converse: an empty plan means that the
  clauses agree.  `NoIdleRewrite` adds that runs consist of changed slots and of
  the slot behind a moved bound (`RunProportional`).  `PartitionsAccepted` follows
  the rules of the server: the bounds of a rewritten clause increase because
  those of both sides do and a run ends where they meet (`RunNamed`, `RunLegal`),
  and those to be dropped are found in it in the order they are named
  (`DropTaken`).

`SequenceLemmas` has an induction rule in the form the provers can use, for sets
of numbers (`Induction`): it is what shows that the walk of `Consumed`, a
recursive function, exists and is what its equations say (`WalkExists`).  It also
shows that a finite set of numbers has one ascending listing (`Enumerated`,
`OneListing`), which is how slots and runs become statements.

Only model-checked: liveness (`Finishes`, and `Settles` three times); the
properties of `ApplyProperties` about how a plan runs down on the server
(`NeverRejected`, `Resumable`, `NothingNeedless`, `ReplanEmpty`); everything about one table in detail and
about directives, where `Statements`, `Parsed` and the scanners are folds over
sequences with a state of several parts.

## 5. Not modelled

* Text: the translation of vitess trees into rows, SQL rendering, quoting,
  normalisation of expressions and of view bodies (`diff/expr.go`), the SRID and
  the defaults of columns, glob matching.  View names are matched exactly; the
  case of names is not modelled.
* Of the table diff, in `TableDiff`: CHECKs, foreign keys, index renames and
  partitions (they are in `SchemaDiff` and `PartitionDiff`), AUTO_INCREMENT and
  other table options but comment, charset and collation.  The guard that unique
  keys cover the partition columns, and the checks of a clause in CREATE TABLE.
* Of the scanners: string literals over several lines, two directives on one
  line.  ALTER TABLE, CREATE VIEW and unknown statements are one kind, `Other`:
  the loop treats them alike as far as directives go.
* Online-DDL hints: finished statements get a suffix, no state.  What a pinned
  ALGORITHM adds, a statement refused in the middle, is what `Crash` does.
* Pre-SQL: a list of statements run before anything is read, stopped at the
  first error.  What it does to the schema happens before the first query.
* `plan` is the reading half of `apply`.  `dump` reads the schema and writes
  files nothing reads back.
* Connection and command line: pure I/O.

## 6. Plan

Done: the apply loop with renames, objects, policies and races; partitions; the
order of views; one table in detail with bulk alter, positions and charsets;
directives.  Proved: types, custody of data, filters and drop policy, that accepted
files stay accepted and what an empty second plan means; the sort of views and all
safety properties of applying them; types, custody and all safety properties of
changing partitions.

1. **SchemaApply** — how a plan runs down when nobody interferes: `NeverRejected`,
   and from it `ReplanEmpty`, `Resumable` and `NothingNeedless`.
2. **TableAlter** — that the parsed side and the loaded one of a table that is
   as declared are equal; that folding keeps the specifications and their order.
3. **Directives** — that the validator and the extractors agree on what a line is.
