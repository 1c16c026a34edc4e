---------------------------- MODULE SchemaApply ----------------------------
(***************************************************************************)
(* `myschema apply`: clients that each read the catalog query by query,    *)
(* diff it with the desired files, poll the execute checks and run the     *)
(* plan statement by statement against one MySQL server.                   *)
(*                                                                         *)
(* Nothing is locked and nothing is rolled back.  A client may die between *)
(* any two steps, and somebody else may run DDL in the meantime; the       *)
(* operator then starts apply again with the same files.                   *)
(***************************************************************************)
EXTENDS SchemaDiff

CONSTANTS
  Clients,     \* concurrent apply runs of the same desired files
  Scenarios,   \* the databases, files, filters and policies they start from
  MaxCrashes,  \* how often a client may die
  ForeignDDL,  \* statements somebody else may run
  MaxForeign   \* and how often

(***************************************************************************)
(* db is the schema before the first run, in which a column is a column of *)
(* a table, des the desired files, shown the names the --include and       *)
(* --exclude filters let through and allow the --allow-drop list.          *)
(***************************************************************************)
Rooted(d) == \A r \in d.cols : r.t \in d.tables

Scenario == {x \in [db    : Database,
                    des   : Desired,
                    shown : SUBSET Names,
                    allow : SUBSET (Categories \cup {"all"})] : Rooted(x.db) /\ Directed(x.des)}

ASSUME ScenarioAssumption == Scenarios \subseteq Scenario

(***************************************************************************)
(* Somebody else's DDL takes no data away and renames none.                *)
(***************************************************************************)
ASSUME ForeignAssumption ==
  ForeignDDL \subseteq {s \in Statement : s.op \notin Destructive}

ASSUME BoundAssumption == MaxCrashes \in Nat /\ MaxForeign \in Nat

VARIABLES
  db,       \* the schema of the server
  cell,     \* where the data of every column of the first schema is now
  job,      \* the scenario
  pc,       \* what each client does next
  snap,     \* what it has read of the catalog
  unread,   \* the tables it has still to query, each with its next query
  pending,  \* its statements still to run
  skipped,  \* what it reports as skipped
  checks,   \* its execute blocks still to check
  crashes, foreign

vars == <<db, cell, job, pc, snap, unread, pending, skipped, checks, crashes, foreign>>
client == <<pc, snap, unread, pending, skipped, checks>>

Queries == 1..4  \* loadColumns, loadIndexes, loadCheckConstraints, loadForeignKeys
Stages  == {"start", "load", "diff", "check", "exec", "done", "failed", "refused"}

Des    == FilteredDesired(job.des, job.shown)
Cur(p) == Filtered(snap[p], job.shown)

Origin(d) == {<<r.t, r.n>> : r \in d.cols}

Init ==
  /\ job \in Scenarios
  /\ db = job.db
  /\ cell = [g \in Origin(job.db) |-> g]
  /\ pc = [p \in Clients |-> "start"]
  /\ snap = [p \in Clients |-> EmptySnapshot]
  /\ unread = [p \in Clients |-> {}]
  /\ pending = [p \in Clients |-> {}]
  /\ skipped = [p \in Clients |-> {}]
  /\ checks = [p \in Clients |-> {}]
  /\ crashes = 0
  /\ foreign = 0

-----------------------------------------------------------------------------
(***************************************************************************)
(* Catalog.Tables and Catalog.Views: the list of tables, then four queries *)
(* per table in the order of their names, then the views.  Every query     *)
(* sees the schema as it is when it runs.                                  *)
(***************************************************************************)
ListTables(p) ==
  /\ pc[p] = "start"
  /\ snap' = [snap EXCEPT ![p] = [EmptySnapshot EXCEPT !.tables = db.tables]]
  /\ unread' = [unread EXCEPT ![p] = db.tables \X Queries]
  /\ pc' = [pc EXCEPT ![p] = "load"]
  /\ UNCHANGED <<db, cell, job, pending, skipped, checks, crashes, foreign>>

NextQuery(todo) ==
  CHOOSE x \in todo : \A y \in todo \ {x} :
    Rank[x[1]] < Rank[y[1]] \/ (Rank[x[1]] = Rank[y[1]] /\ x[2] < y[2])

Query(p, x, read) ==
  /\ pc[p] = "load"
  /\ unread[p] # {}
  /\ x = NextQuery(unread[p])
  /\ unread' = [unread EXCEPT ![p] = @ \ {x}]
  /\ snap' = [snap EXCEPT ![p] = read]
  /\ UNCHANGED <<db, cell, job, pc, pending, skipped, checks, crashes, foreign>>

LoadColumns(p, t) ==
  Query(p, <<t, 1>>, [snap[p] EXCEPT !.cols = @ \cup Of(db.cols, t)])
LoadIndexes(p, t) ==
  Query(p, <<t, 2>>, [snap[p] EXCEPT !.pks  = @ \cup Of(db.pks, t),
                                     !.keys = @ \cup Of(db.keys, t)])
LoadCheckConstraints(p, t) ==
  Query(p, <<t, 3>>, [snap[p] EXCEPT !.checks = @ \cup Of(db.checks, t)])
LoadForeignKeys(p, t) ==
  Query(p, <<t, 4>>, [snap[p] EXCEPT !.fks = @ \cup Of(db.fks, t)])

LoadViews(p) ==
  /\ pc[p] = "load"
  /\ unread[p] = {}
  /\ snap' = [snap EXCEPT ![p].views = db.views]
  /\ pc' = [pc EXCEPT ![p] = "diff"]
  /\ UNCHANGED <<db, cell, job, unread, pending, skipped, checks, crashes, foreign>>

(***************************************************************************)
(* diffAll: a refusal ends the run before anything is changed.             *)
(***************************************************************************)
Forget(p, stage) ==
  /\ pc' = [pc EXCEPT ![p] = stage]
  /\ snap' = [snap EXCEPT ![p] = EmptySnapshot]
  /\ unread' = [unread EXCEPT ![p] = {}]
  /\ pending' = [pending EXCEPT ![p] = {}]
  /\ skipped' = [skipped EXCEPT ![p] = {}]
  /\ checks' = [checks EXCEPT ![p] = {}]

DiffRefused(p) ==
  /\ pc[p] = "diff"
  /\ Refused(Cur(p), Des)
  /\ Forget(p, "refused")
  /\ UNCHANGED <<db, cell, job, crashes, foreign>>

DiffAll(p) ==
  /\ pc[p] = "diff"
  /\ ~Refused(Cur(p), Des)
  /\ pending' = [pending EXCEPT ![p] = Planned(Cur(p), Des, job.allow)]
  /\ skipped' = [skipped EXCEPT ![p] = Skipped(Cur(p), Des, job.allow)]
  /\ checks' = [checks EXCEPT ![p] = job.des.guards]
  /\ pc' = [pc EXCEPT ![p] = "check"]
  /\ UNCHANGED <<db, cell, job, snap, unread, crashes, foreign>>

(***************************************************************************)
(* executeCheckMatched runs on the live database, before any statement of  *)
(* the plan does.                                                          *)
(***************************************************************************)
\* Mutant: no rows taken for "applied".
CheckMissed(g) == g \notin db.objects

executeCheckMatched(g) == g \in db.objects

ExecuteStmt(g) == Stmt("execute", "Execute", NoName, g, Ungated)

CheckExecute(p, g) ==
  /\ pc[p] = "check"
  /\ g \in checks[p]
  /\ \A h \in checks[p] \ {g} : Rank[g] < Rank[h]
  /\ checks' = [checks EXCEPT ![p] = @ \ {g}]
  /\ IF executeCheckMatched(g)
     THEN /\ skipped' = [skipped EXCEPT ![p] = @ \cup {ExecuteStmt(g)}]
          /\ UNCHANGED pending
     ELSE /\ pending' = [pending EXCEPT ![p] = @ \cup {ExecuteStmt(g)}]
          /\ UNCHANGED skipped
  /\ UNCHANGED <<db, cell, job, pc, snap, unread, crashes, foreign>>

StartExec(p) ==
  /\ pc[p] = "check"
  /\ checks[p] = {}
  /\ pc' = [pc EXCEPT ![p] = "exec"]
  /\ UNCHANGED <<db, cell, job, snap, unread, pending, skipped, checks, crashes, foreign>>

(***************************************************************************)
(* The loop of Apply: the next statement, or the end at the first error.   *)
(***************************************************************************)
Ready(p) == IF pc[p] = "exec" THEN First(pending[p], Cur(p), Des) ELSE {}

Run(s) ==
  /\ Accepts(db, s, job.des)
  /\ db' = Effect(db, s, job.des)
  /\ cell' = Carried(cell, s)

Exec(p, s) ==
  /\ Run(s)
  /\ pending' = [pending EXCEPT ![p] = @ \ {s}]
  /\ UNCHANGED <<job, pc, snap, unread, skipped, checks, crashes, foreign>>

Reject(p, s) ==
  /\ ~Accepts(db, s, job.des)
  /\ Forget(p, "failed")
  /\ UNCHANGED <<db, cell, job, crashes, foreign>>

Finish(p) ==
  /\ pc[p] = "exec"
  /\ pending[p] = {}
  /\ pc' = [pc EXCEPT ![p] = "done"]
  /\ snap' = [snap EXCEPT ![p] = EmptySnapshot]
  /\ UNCHANGED <<db, cell, job, unread, pending, skipped, checks, crashes, foreign>>

(***************************************************************************)
(* A killed process, a lost connection or a query that fails (one of the   *)
(* reads, or executeCheckMatched's): the run is over and what it had read  *)
(* and planned is gone.  And the next run.                                 *)
(***************************************************************************)
Crash(p) ==
  /\ pc[p] \notin {"start", "done", "failed", "refused"}
  /\ crashes < MaxCrashes
  /\ crashes' = crashes + 1
  /\ Forget(p, "failed")
  /\ UNCHANGED <<db, cell, job, foreign>>

Rerun(p) ==
  /\ pc[p] \in {"failed", "refused"}
  /\ pc' = [pc EXCEPT ![p] = "start"]
  /\ UNCHANGED <<db, cell, job, snap, unread, pending, skipped, checks, crashes, foreign>>

SomebodyElse(s) ==
  /\ s \in ForeignDDL
  /\ foreign < MaxForeign
  /\ foreign' = foreign + 1
  /\ Run(s)
  /\ UNCHANGED <<job, client, crashes>>

-----------------------------------------------------------------------------
Read(p) ==
  \/ ListTables(p)
  \/ \E t \in Names : \/ LoadColumns(p, t)
                      \/ LoadIndexes(p, t)
                      \/ LoadCheckConstraints(p, t)
                      \/ LoadForeignKeys(p, t)
  \/ LoadViews(p)

Step(p) ==
  \/ Read(p)
  \/ DiffRefused(p)
  \/ DiffAll(p)
  \/ \E g \in Guards : CheckExecute(p, g)
  \/ StartExec(p)
  \/ \E s \in Ready(p) : Exec(p, s) \/ Reject(p, s)
  \/ Finish(p)

Next ==
  \/ \E p \in Clients : Step(p) \/ Crash(p) \/ Rerun(p)
  \/ \E s \in ForeignDDL : SomebodyElse(s)

(***************************************************************************)
(* A run goes on until it ends, and the operator repeats one that failed.  *)
(***************************************************************************)
Fairness == \A p \in Clients : WF_vars(Step(p) \/ Rerun(p))

Spec     == Init /\ [][Next]_vars
FairSpec == Spec /\ Fairness
=============================================================================
