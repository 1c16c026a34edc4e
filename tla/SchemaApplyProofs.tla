------------------------- MODULE SchemaApplyProofs --------------------------
(***************************************************************************)
(* The types, the custody of user data, the refinement of Custody, what    *)
(* the filters and the drop policy promise, that files once accepted stay  *)
(* accepted, and what an empty second plan means, for every value of the   *)
(* constants.                                                              *)
(*                                                                         *)
(* The inductive invariant is Safe: the types, DataKept, and PlansSound,   *)
(* which says of every statement a client still has to run that the files  *)
(* justify it, the policy permits it, the filters show what it touches and *)
(* what it adds is declared and no rename brings it (Additive).            *)
(* Without PlansSound a step of the loop could run anything; it can be     *)
(* kept because all four speak of the desired files and the operator's     *)
(* choices only, never of the catalog a plan was made from.                *)
(*                                                                         *)
(* What is said of the live schema needs an invariant of it besides, kept  *)
(* as long as nobody else changes it: StillAwaiting for files that stay    *)
(* accepted, StillConsistent, StillThere and AllHandled for what a run     *)
(* leaves behind.                                                          *)
(***************************************************************************)
EXTENDS ApplyProperties, MySQLProofs, SchemaDiffProofs

(***************************************************************************)
(* The filtered files of a scenario are desired files.                     *)
(***************************************************************************)
LEMMA DesType ==
  ASSUME job \in Scenario
  PROVE  Des \in Desired /\ Directed(Des) /\ job.des \in Desired
<1>1. job.des \in Desired /\ Directed(job.des) BY DEF Scenario
<1> QED BY <1>1, FilteredType, FilteredDirected DEF Des

(***************************************************************************)
(* A statement leaves the data of a column at a place or nowhere.          *)
(***************************************************************************)
LEMMA CarriedType ==
  ASSUME NEW O, NEW c \in [O -> Place \cup {Nowhere}], NEW s \in Statement
  PROVE  Carried(c, s) \in [O -> Place \cup {Nowhere}]
<1>1. SUFFICES ASSUME NEW g \in O PROVE Carried(c, s)[g] \in Place \cup {Nowhere}
  BY DEF Carried
<1>2. Carried(c, s)[g] =
        CASE s.op = "RenameTable" /\ c[g][1] = s.t      -> <<s.to, c[g][2]>>
          [] s.op = "RenameColumn" /\ c[g] = <<s.t, s.n>> -> <<s.t, s.to>>
          [] s.op = "DropColumn" /\ c[g] = <<s.t, s.n>> -> Nowhere
          [] s.op = "DropTable" /\ c[g][1] = s.t        -> Nowhere
          [] OTHER                                      -> c[g]
  BY DEF Carried
<1>3. NoName \notin Names BY NoNameAssumption, KindsAre
<1>4. CASE s.op = "RenameTable" /\ c[g][1] = s.t
  <2>1. s.t \in Names /\ s.to \in Names BY <1>4 DEF Statement
  <2>2. c[g] \in Place BY <1>3, <1>4, <2>1 DEF Nowhere
  <2> QED BY <1>2, <1>4, <2>1, <2>2 DEF Place
<1>5. CASE s.op = "RenameColumn" /\ c[g] = <<s.t, s.n>>
  <2>1. s.to \in Columns BY <1>5 DEF Statement
  <2>2. <<s.t, s.to>> \in Place \/ s.t = NoName BY <1>5, <2>1 DEF Place, Nowhere, Statement
  <2>3. s.t \in Names BY <1>5 DEF Statement
  <2> QED BY <1>2, <1>3, <1>5, <2>2, <2>3
<1>6. CASE ~(s.op = "RenameTable" /\ c[g][1] = s.t) /\ ~(s.op = "RenameColumn" /\ c[g] = <<s.t, s.n>>)
  BY <1>2, <1>6
<1> QED BY <1>4, <1>5, <1>6

(***************************************************************************)
(* An execute block is a statement.                                        *)
(***************************************************************************)
LEMMA ExecuteType ==
  ASSUME NEW g \in Guards
  PROVE  ExecuteStmt(g) \in Statement /\ ExecuteStmt(g).op = "Execute"
BY BucketsAre, KindsAre DEF ExecuteStmt, Stmt, Statement, Ops

(***************************************************************************)
(* It needs no category and touches no table and no view.                  *)
(***************************************************************************)
LEMMA ExecuteSound ==
  ASSUME NEW g \in Guards
  PROVE  /\ Justified(Des, ExecuteStmt(g))
         /\ Permitted(job.allow, ExecuteStmt(g))
         /\ Scoped(job.shown, Des, ExecuteStmt(g))
         /\ Additive(Des, ExecuteStmt(g))
<1>1. ExecuteStmt(g).op = "Execute" /\ ExecuteStmt(g).gate = Ungated
  BY DEF ExecuteStmt, Stmt
<1> QED BY <1>1 DEF Justified, Destructive, Permitted, Scoped, Visible, Entitled, Additive

(***************************************************************************)
(* The empty snapshot is a snapshot.                                       *)
(***************************************************************************)
LEMMA EmptyType == EmptySnapshot \in Snapshot
BY DEF EmptySnapshot, Snapshot

(***************************************************************************)
(* The statement a client runs next is one it has planned.                 *)
(***************************************************************************)
LEMMA ReadyPending == \A p : Ready(p) \subseteq pending[p]
BY DEF Ready, First

(***************************************************************************)
(* The types hold at first.                                                *)
(***************************************************************************)
LEMMA InitType == Init => TypeOK
<1> SUFFICES ASSUME Init PROVE TypeOK OBVIOUS
<1>1. job \in Scenario BY ScenarioAssumption DEF Init
<1>2. job.db \in Database BY <1>1 DEF Scenario
<1>3. Origin(job.db) \subseteq Place BY <1>2 DEF Origin, Database, ColumnRow, Place
<1>4. cell \in [Origin(job.db) -> Place \cup {Nowhere}] BY <1>3 DEF Init
<1> QED BY <1>1, <1>2, <1>4, EmptyType, BoundAssumption DEF Init, TypeOK, Stages

(***************************************************************************)
(* They hold when a client gives up and forgets its run.                   *)
(***************************************************************************)
LEMMA ForgetType ==
  ASSUME TypeOK, NEW p \in Clients, NEW stage \in Stages, Forget(p, stage),
         UNCHANGED <<db, cell, job, foreign>>, crashes' \in 0..MaxCrashes
  PROVE  TypeOK'
BY EmptyType DEF TypeOK, Forget

(***************************************************************************)
(* They hold for the server when a statement runs.                         *)
(***************************************************************************)
LEMMA RunType ==
  ASSUME TypeOK, NEW s \in Statement, Run(s), UNCHANGED job
  PROVE  db' \in Database /\ cell' \in [Origin(job'.db) -> Place \cup {Nowhere}]
<1>1. job.des \in Desired BY DesType DEF TypeOK
<1> QED BY <1>1, EffectType, CarriedType DEF TypeOK, Run

(***************************************************************************)
(* They hold when a client has read the answer to one query.               *)
(***************************************************************************)
LEMMA QueryType ==
  ASSUME TypeOK, NEW p \in Clients, NEW x, NEW read \in Snapshot, Query(p, x, read)
  PROVE  TypeOK'
BY DEF TypeOK, Query

(***************************************************************************)
(* They hold when a client reads the catalog.                              *)
(***************************************************************************)
LEMMA ReadType ==
  ASSUME TypeOK, NEW p \in Clients, Read(p)
  PROVE  TypeOK'
<1>1. CASE ListTables(p)
  <2>1. [EmptySnapshot EXCEPT !.tables = db.tables] \in Snapshot
    BY EmptyType DEF TypeOK, Database, Snapshot
  <2>2. db.tables \X Queries \in SUBSET (Names \X Queries) BY DEF TypeOK, Database
  <2> QED BY <1>1, <2>1, <2>2 DEF TypeOK, ListTables, Stages
<1>2. CASE LoadViews(p)
  <2>1. [snap[p] EXCEPT !.views = db.views] \in Snapshot
    BY SMTT(60) DEF TypeOK, Database, Snapshot
  <2>2. snap' = [snap EXCEPT ![p] = [snap[p] EXCEPT !.views = db.views]]
    BY <1>2 DEF LoadViews
  <2> QED BY <1>2, <2>1, <2>2 DEF TypeOK, LoadViews, Stages
<1>3. ASSUME NEW t \in Names
      PROVE  /\ [snap[p] EXCEPT !.cols = @ \cup Of(db.cols, t)] \in Snapshot
             /\ [snap[p] EXCEPT !.pks  = @ \cup Of(db.pks, t),
                                !.keys = @ \cup Of(db.keys, t)] \in Snapshot
             /\ [snap[p] EXCEPT !.checks = @ \cup Of(db.checks, t)] \in Snapshot
             /\ [snap[p] EXCEPT !.fks = @ \cup Of(db.fks, t)] \in Snapshot
  BY ZenonT(30) DEF TypeOK, Database, Snapshot, Of
<1>4. ASSUME NEW t \in Names, LoadColumns(p, t) PROVE TypeOK'
  BY <1>3, <1>4, QueryType DEF LoadColumns
<1>5. ASSUME NEW t \in Names, LoadIndexes(p, t) PROVE TypeOK'
  BY <1>3, <1>5, QueryType DEF LoadIndexes
<1>6. ASSUME NEW t \in Names, LoadCheckConstraints(p, t) PROVE TypeOK'
  BY <1>3, <1>6, QueryType DEF LoadCheckConstraints
<1>7. ASSUME NEW t \in Names, LoadForeignKeys(p, t) PROVE TypeOK'
  BY <1>3, <1>7, QueryType DEF LoadForeignKeys
<1> QED BY <1>1, <1>2, <1>4, <1>5, <1>6, <1>7 DEF Read

(***************************************************************************)
(* A plan is sound whatever the client has read.                           *)
(***************************************************************************)
LEMMA PlanSound ==
  ASSUME TypeOK, NEW p \in Clients, ~Refused(Cur(p), Des)
  PROVE  \A s \in Diff(Cur(p), Des, job.allow) :
           Sound(Des, s) /\ Scoped(job.shown, Des, s) /\ Additive(Des, s)
<1>1. Cur(p) \in Snapshot BY FilteredType DEF Cur, TypeOK
<1>2. Des \in Desired /\ Directed(Des) BY DesType DEF TypeOK
<1>3. Cur(p).tables \subseteq job.shown /\ ViewNames(Cur(p).views) \subseteq job.shown
  BY FilteredShown DEF Cur, TypeOK
<1>4. Des.tables \subseteq job.shown /\ ViewNames(Des.views) \subseteq job.shown
  BY DesType, FilteredShown DEF Des, TypeOK
<1> HIDE DEF Cur, Des
<1> QED BY <1>1, <1>2, <1>3, <1>4, DiffSound, DiffScoped, DiffAdditive

(***************************************************************************)
(* The types hold after every step of a client.                            *)
(***************************************************************************)
LEMMA StepType ==
  ASSUME TypeOK, NEW p \in Clients, Step(p)
  PROVE  TypeOK'
<1>1. CASE Read(p) BY <1>1, ReadType
<1>2. CASE DiffRefused(p) BY <1>2, ForgetType DEF DiffRefused, Stages, TypeOK
<1>3. CASE DiffAll(p)
  <2>1. Diff(Cur(p), Des, job.allow) \subseteq Statement BY <1>3, PlanSound DEF DiffAll, Sound
  <2>2. Planned(Cur(p), Des, job.allow) \subseteq Statement /\
        Skipped(Cur(p), Des, job.allow) \subseteq Statement
    BY <2>1 DEF Planned, Skipped
  <2>3. job.des.guards \subseteq Guards BY DesType DEF TypeOK, Desired
  <2> QED BY <1>3, <2>2, <2>3 DEF DiffAll, TypeOK, Stages
<1>4. ASSUME NEW g \in Guards, CheckExecute(p, g) PROVE TypeOK'
  <2>1. ExecuteStmt(g) \in Statement BY ExecuteType
  <2>2. CASE executeCheckMatched(g)
    BY <1>4, <2>1, <2>2 DEF CheckExecute, TypeOK
  <2>3. CASE ~executeCheckMatched(g)
    BY <1>4, <2>1, <2>3 DEF CheckExecute, TypeOK
  <2> QED BY <2>2, <2>3
<1>5. CASE StartExec(p) BY <1>5 DEF StartExec, TypeOK, Stages
<1>6. ASSUME NEW s \in Ready(p), Exec(p, s) PROVE TypeOK'
  <2>1. s \in Statement BY ReadyPending DEF TypeOK
  <2>2. db' \in Database /\ cell' \in [Origin(job'.db) -> Place \cup {Nowhere}]
    BY <1>6, <2>1, RunType DEF Exec
  <2> QED BY <1>6, <2>2 DEF Exec, TypeOK
<1>7. ASSUME NEW s \in Ready(p), Reject(p, s) PROVE TypeOK'
  BY <1>7, ForgetType DEF Reject, Stages, TypeOK
<1>8. CASE Finish(p) BY <1>8, EmptyType DEF Finish, TypeOK, Stages
<1> QED BY <1>1, <1>2, <1>3, <1>4, <1>5, <1>6, <1>7, <1>8 DEF Step

(***************************************************************************)
(* The types hold after every step.                                        *)
(***************************************************************************)
LEMMA NextType == TypeOK /\ [Next]_vars => TypeOK'
<1> SUFFICES ASSUME TypeOK, [Next]_vars PROVE TypeOK' OBVIOUS
<1>1. ASSUME NEW p \in Clients, Step(p) PROVE TypeOK' BY <1>1, StepType
<1>2. ASSUME NEW p \in Clients, Crash(p) PROVE TypeOK'
  <2>1. crashes' \in 0..MaxCrashes BY <1>2, BoundAssumption DEF Crash, TypeOK
  <2> QED BY <1>2, <2>1, ForgetType DEF Crash, Stages
<1>3. ASSUME NEW p \in Clients, Rerun(p) PROVE TypeOK' BY <1>3 DEF Rerun, TypeOK, Stages
<1>4. ASSUME NEW s \in ForeignDDL, SomebodyElse(s) PROVE TypeOK'
  <2>1. s \in Statement BY ForeignAssumption
  <2>2. db' \in Database /\ cell' \in [Origin(job'.db) -> Place \cup {Nowhere}]
    BY <1>4, <2>1, RunType DEF SomebodyElse
  <2>3. foreign' \in 0..MaxForeign BY <1>4, BoundAssumption DEF SomebodyElse, TypeOK
  <2> QED BY <1>4, <2>2, <2>3 DEF SomebodyElse, TypeOK, client
<1>5. CASE UNCHANGED vars BY <1>5 DEF vars, TypeOK
<1> QED BY <1>1, <1>2, <1>3, <1>4, <1>5 DEF Next

(***************************************************************************)
(* Every variable always has its type, for any number of clients, crashes  *)
(* and foreign statements.                                                 *)
(***************************************************************************)
THEOREM TypeCorrect == Spec => []TypeOK
BY InitType, NextType, PTL DEF Spec

(***************************************************************************)
(* Every statement a client still has to run is sound, permitted and shown.*)
(***************************************************************************)
PlansSound == \A p \in Clients : \A s \in pending[p] :
                /\ Justified(Des, s)
                /\ Permitted(job.allow, s)
                /\ Scoped(job.shown, Des, s)
                /\ Additive(Des, s)

(***************************************************************************)
(* The inductive invariant.                                                *)
(***************************************************************************)
Safe == TypeOK /\ PlansSound /\ DataKept

(***************************************************************************)
(* The filtered files change only with the job.                            *)
(***************************************************************************)
LEMMA DesSame ==
  ASSUME UNCHANGED job
  PROVE  Des' = Des
BY DEF Des

(***************************************************************************)
(* A declared table is not renamed away.                                   *)
(***************************************************************************)
LEMMA ClaimedUnrenamed ==
  ASSUME NEW des, SoundTables(des), NEW t \in des.tables
  PROVE  NewTable(des, t) = t
<1>1. CASE \E r \in TableDirectives(des) : r.old = t
  <2>1. PICK r \in TableDirectives(des) : r.old = t BY <1>1
  <2>2. r.new = t BY <2>1 DEF SoundTables
  <2>3. \A s \in TableDirectives(des) : s.old = r.old => s = r BY <2>1 DEF SoundTables
  <2>4. NewName(TableDirectives(des), r.old) = r.new BY <2>3, NewNameOf
  <2> QED BY <2>1, <2>2, <2>4 DEF NewTable
<1>2. CASE ~\E r \in TableDirectives(des) : r.old = t
  BY <1>2, NewNameKept DEF NewTable
<1> QED BY <1>1, <1>2

(***************************************************************************)
(* The heart of the matter: a justified statement leaves the data of a claimed*)
(* column on its route.                                                    *)
(***************************************************************************)
LEMMA RouteKept ==
  ASSUME NEW des, NEW c, NEW g \in DOMAIN c, g \in Place, Claimed(des, g),
         c[g] \in Route(des, g), NEW s \in Statement, Justified(des, s)
  PROVE  Carried(c, s)[g] \in Route(des, g)
<1> DEFINE T == NewTable(des, g[1])
           C == NewColumn(des, T, g[2])
<1>1. T \in des.tables /\ Holds(des.cols, T, C) BY DEF Claimed
<1>2. g = <<g[1], g[2]>> BY DEF Place
<1>3. c[g] \in {<<g[1], g[2]>>, <<T, g[2]>>, <<T, C>>} BY <1>2 DEF Route
<1>4. Route(des, g) = {<<g[1], g[2]>>, <<T, g[2]>>, <<T, C>>} BY <1>2 DEF Route
<1>5. Carried(c, s)[g] =
        CASE s.op = "RenameTable" /\ c[g][1] = s.t      -> <<s.to, c[g][2]>>
          [] s.op = "RenameColumn" /\ c[g] = <<s.t, s.n>> -> <<s.t, s.to>>
          [] s.op = "DropColumn" /\ c[g] = <<s.t, s.n>> -> Nowhere
          [] s.op = "DropTable" /\ c[g][1] = s.t        -> Nowhere
          [] OTHER                                      -> c[g]
  BY DEF Carried
<1>6. SoundTables(des) /\ g[1] \in des.tables => T = g[1] BY ClaimedUnrenamed
<1>7. ASSUME s.op = "DropTable", c[g][1] = s.t PROVE FALSE
  <2>1. s.t \notin des.tables /\ \A r \in TableDirectives(des) : r.old # s.t
    BY <1>7 DEF Justified
  <2>2. s.t = g[1] \/ s.t = T BY <1>3, <1>7
  <2>3. s.t = g[1] => T = g[1] BY <2>1, NewNameKept DEF NewTable
  <2> QED BY <1>1, <2>1, <2>2, <2>3
<1>8. ASSUME s.op \in {"DropColumn", "RenameColumn"}, c[g] = <<s.t, s.n>>
      PROVE  s.t = T /\ (s.n = g[2] \/ s.n = C)
  <2>1. s.t \in des.tables /\ SoundTables(des) BY <1>8 DEF Justified, Destructive
  <2> QED BY <1>3, <1>6, <1>8, <2>1
<1>9. ASSUME s.op = "DropColumn", c[g] = <<s.t, s.n>> PROVE FALSE
  <2>1. ~Holds(des.cols, s.t, s.n) /\ \A r \in Directives(des, "column", s.t) : r.old # s.n
    BY <1>9 DEF Justified
  <2>2. s.t = T /\ (s.n = g[2] \/ s.n = C) BY <1>8, <1>9
  <2>3. s.n = g[2] => C = g[2] BY <2>1, <2>2, NewNameKept DEF NewColumn
  <2> QED BY <1>1, <2>1, <2>2, <2>3
<1>10. ASSUME s.op = "RenameTable", c[g][1] = s.t
       PROVE  <<s.to, c[g][2]>> \in Route(des, g)
  <2>1. PICK r \in TableDirectives(des) : r.old = s.t /\ r.new = s.to /\ r.old # r.new
    BY <1>10 DEF Justified
  <2>2. SoundTables(des) BY <1>10 DEF Justified, Destructive
  <2>3. s.t \notin des.tables BY <2>1, <2>2 DEF SoundTables
  <2>4. c[g] = <<g[1], g[2]>> /\ s.t = g[1] BY <1>1, <1>3, <1>10, <2>3
  <2>5. NewName(TableDirectives(des), r.old) = r.new BY <2>2, NewNameOf DEF SoundTables
  <2>6. s.to = T BY <2>1, <2>4, <2>5 DEF NewTable
  <2> QED BY <1>4, <2>4, <2>6
<1>11. ASSUME s.op = "RenameColumn", c[g] = <<s.t, s.n>>
       PROVE  <<s.t, s.to>> \in Route(des, g)
  <2>1. PICK r \in Directives(des, "column", s.t) : r.old = s.n /\ r.new = s.to /\ r.old # r.new
    BY <1>11 DEF Justified
  <2>2. SoundColumns(des, s.t) BY <1>11 DEF Justified
  <2>3. ~Holds(des.cols, s.t, s.n) BY <2>1, <2>2 DEF SoundColumns
  <2>4. s.t = T /\ s.n = g[2] BY <1>1, <1>8, <1>11, <2>3
  <2>5. NewName(Directives(des, "column", s.t), r.old) = r.new
    BY <2>2, NewNameOf DEF SoundColumns
  <2>6. s.to = C BY <2>1, <2>4, <2>5 DEF NewColumn
  <2> QED BY <1>4, <2>4, <2>6
<1> QED BY <1>5, <1>7, <1>9, <1>10, <1>11

(***************************************************************************)
(* A justified statement keeps all claimed data on its route.              *)
(***************************************************************************)
LEMMA RunKept ==
  ASSUME TypeOK, DataKept, NEW s \in Statement, Justified(Des, s), Run(s), UNCHANGED job
  PROVE  DataKept'
<1>1. Des' = Des BY DesSame
<1>2. cell' = Carried(cell, s) /\ DOMAIN cell' = DOMAIN cell BY DEF Run, Carried
<1>3. DOMAIN cell \subseteq Place
  BY DEF TypeOK, Origin, Scenario, Database, ColumnRow, Place
<1>4. ASSUME NEW g \in DOMAIN cell, Claimed(Des, g) PROVE Carried(cell, s)[g] \in Route(Des, g)
  BY <1>3, <1>4, RouteKept DEF DataKept
<1> QED BY <1>1, <1>2, <1>4 DEF DataKept

(***************************************************************************)
(* So does a step that runs no statement.                                  *)
(***************************************************************************)
LEMMA NothingRun == DataKept /\ cell' = cell /\ job' = job => DataKept'
BY DesSame DEF DataKept

(***************************************************************************)
(* Plans stay sound when only sound and permitted statements join them.    *)
(***************************************************************************)
LEMMA PlansKept ==
  /\ PlansSound
  /\ job' = job
  /\ \A p \in Clients : \A s \in pending'[p] :
       \/ s \in pending[p]
       \/ /\ Justified(Des, s) /\ Permitted(job.allow, s)
          /\ Scoped(job.shown, Des, s) /\ Additive(Des, s)
  => PlansSound'
BY DesSame DEF PlansSound

(***************************************************************************)
(* No plan, and no data moved yet.                                         *)
(***************************************************************************)
LEMMA InitSafe == Init => PlansSound /\ DataKept
<1> SUFFICES ASSUME Init PROVE PlansSound /\ DataKept OBVIOUS
<1>1. PlansSound BY DEF Init, PlansSound
<1>2. DataKept BY DEF Init, DataKept, Route
<1> QED BY <1>1, <1>2

(***************************************************************************)
(* Every step of a client keeps the data and leaves sound plans.           *)
(***************************************************************************)
LEMMA StepSafe ==
  ASSUME Safe, NEW p \in Clients, Step(p)
  PROVE  PlansSound' /\ DataKept'
<1> USE DEF Safe
<1>1. CASE Read(p)
  <2>1. UNCHANGED <<cell, job, pending>>
    BY <1>1 DEF Read, ListTables, LoadViews, LoadColumns, LoadIndexes, LoadCheckConstraints,
                LoadForeignKeys, Query
  <2> QED BY <2>1, NothingRun, PlansKept
<1>2. CASE DiffRefused(p)
  <2>1. UNCHANGED <<cell, job>> /\ pending' = [pending EXCEPT ![p] = {}]
    BY <1>2 DEF DiffRefused, Forget
  <2> QED BY <2>1, NothingRun, PlansKept DEF TypeOK
<1>3. CASE DiffAll(p)
  <2>1. UNCHANGED <<cell, job>> /\ ~Refused(Cur(p), Des)
    /\ pending' = [pending EXCEPT ![p] = Planned(Cur(p), Des, job.allow)]
    BY <1>3 DEF DiffAll
  <2>2. \A s \in Planned(Cur(p), Des, job.allow) :
          /\ Justified(Des, s) /\ Permitted(job.allow, s)
          /\ Scoped(job.shown, Des, s) /\ Additive(Des, s)
    BY <2>1, PlanSound DEF Planned, Sound
  <2> QED BY <2>1, <2>2, NothingRun, PlansKept DEF TypeOK
<1>4. ASSUME NEW g \in Guards, CheckExecute(p, g) PROVE PlansSound' /\ DataKept'
  <2>1. UNCHANGED <<cell, job>> /\
        (pending' = pending \/ pending' = [pending EXCEPT ![p] = @ \cup {ExecuteStmt(g)}])
    BY <1>4 DEF CheckExecute
  <2> QED BY <2>1, ExecuteSound, NothingRun, PlansKept DEF TypeOK
<1>5. CASE StartExec(p) BY <1>5, NothingRun, PlansKept DEF StartExec
<1>6. ASSUME NEW s \in Ready(p), Exec(p, s) PROVE PlansSound' /\ DataKept'
  <2>1. s \in Statement /\ Justified(Des, s) BY ReadyPending DEF TypeOK, PlansSound
  <2>2. DataKept' BY <1>6, <2>1, RunKept DEF Exec
  <2>3. UNCHANGED job /\ pending' = [pending EXCEPT ![p] = @ \ {s}] BY <1>6 DEF Exec
  <2> QED BY <2>2, <2>3, PlansKept DEF TypeOK
<1>7. ASSUME NEW s \in Ready(p), Reject(p, s) PROVE PlansSound' /\ DataKept'
  <2>1. UNCHANGED <<cell, job>> /\ pending' = [pending EXCEPT ![p] = {}]
    BY <1>7 DEF Reject, Forget
  <2> QED BY <2>1, NothingRun, PlansKept DEF TypeOK
<1>8. CASE Finish(p) BY <1>8, NothingRun, PlansKept DEF Finish
<1> QED BY <1>1, <1>2, <1>3, <1>4, <1>5, <1>6, <1>7, <1>8 DEF Step

(***************************************************************************)
(* Every step does.                                                        *)
(***************************************************************************)
LEMMA NextSafe == Safe /\ [Next]_vars => PlansSound' /\ DataKept'
<1> SUFFICES ASSUME Safe, [Next]_vars PROVE PlansSound' /\ DataKept' OBVIOUS
<1> USE DEF Safe
<1>1. ASSUME NEW p \in Clients, Step(p) PROVE PlansSound' /\ DataKept' BY <1>1, StepSafe
<1>2. ASSUME NEW p \in Clients, Crash(p) PROVE PlansSound' /\ DataKept'
  <2>1. UNCHANGED <<cell, job>> /\ pending' = [pending EXCEPT ![p] = {}]
    BY <1>2 DEF Crash, Forget
  <2> QED BY <2>1, NothingRun, PlansKept DEF TypeOK
<1>3. ASSUME NEW p \in Clients, Rerun(p) PROVE PlansSound' /\ DataKept'
  BY <1>3, NothingRun, PlansKept DEF Rerun
<1>4. ASSUME NEW s \in ForeignDDL, SomebodyElse(s) PROVE PlansSound' /\ DataKept'
  <2>1. s \in Statement /\ Justified(Des, s)
    BY ForeignAssumption DEF Justified, Destructive
  <2>2. DataKept' BY <1>4, <2>1, RunKept DEF SomebodyElse
  <2>3. UNCHANGED <<job, pending>> BY <1>4 DEF SomebodyElse, client
  <2> QED BY <2>2, <2>3, PlansKept
<1>5. CASE UNCHANGED vars BY <1>5, NothingRun, PlansKept DEF vars
<1> QED BY <1>1, <1>2, <1>3, <1>4, <1>5 DEF Next

(***************************************************************************)
(* Safe is an invariant, for any number of clients.                        *)
(***************************************************************************)
LEMMA AlwaysSafe == Spec => []Safe
<1>1. Init => Safe BY InitType, InitSafe DEF Safe
<1>2. Safe /\ [Next]_vars => Safe' BY NextType, NextSafe DEF Safe
<1> QED BY <1>1, <1>2, PTL DEF Spec

(***************************************************************************)
(* Data the desired files claim is never lost and never ends up in another *)
(* column: for every schema, any files, filters and policy, any number of  *)
(* concurrent runs, crashes and reruns, and any foreign DDL that removes and*)
(* renames no data.                                                        *)
(***************************************************************************)
THEOREM ClaimedDataKept == Spec => []DataKept
<1>1. Safe => DataKept BY DEF Safe
<1> QED BY <1>1, AlwaysSafe, PTL

-----------------------------------------------------------------------------
(***************************************************************************)
(* The refinement of Custody: the deed SchemaApply is mapped to.           *)
(***************************************************************************)
TheDeed == [claimed |-> {g \in Place : Claimed(Des, g)},
            renames |-> DeclaredRenames(Des) \cap (Place \X Place),
            discard |-> \E kind \in {"table", "column"} : IsDropAllowed(job.allow, kind)]

(***************************************************************************)
(* The data starts where Custody starts.                                   *)
(***************************************************************************)
LEMMA CustodyInit == Init => Data!Init
<1> SUFFICES ASSUME Init PROVE Data!Init OBVIOUS
<1>1. TheDeed \in Data!Deed BY DEF TheDeed, Data!Deed
<1>2. Origin(job.db) \in SUBSET Place
  <2>1. job.db \in Database BY ScenarioAssumption DEF Init, Scenario
  <2> QED BY <2>1 DEF Origin, Database, ColumnRow, Place
<1>3. cell = [g \in Origin(job.db) |-> g] BY DEF Init
<1> QED BY <1>1, <1>2, <1>3 DEF Data!Init, TheDeed

(***************************************************************************)
(* A step that runs no statement is a stutter of Custody.                  *)
(***************************************************************************)
LEMMA CustodyStutter ==
  ASSUME UNCHANGED <<cell, job>>
  PROVE  UNCHANGED <<cell, TheDeed>>
BY DesSame DEF TheDeed

(***************************************************************************)
(* A justified and permitted statement keeps, moves or discards the data of*)
(* each column as Custody allows.                                          *)
(***************************************************************************)
LEMMA CustodyRun ==
  ASSUME Safe, NEW s \in Statement, Justified(Des, s),
         s.op \in Destructive => Permitted(job.allow, s), Run(s), UNCHANGED job
  PROVE  Data!Next
<1> DEFINE d == TheDeed
<1>1. cell' = Carried(cell, s) BY DEF Run
<1>2. cell \in [DOMAIN cell -> Place \cup {Nowhere}] /\ DOMAIN cell \subseteq Place
  BY DEF Safe, TypeOK, Origin, Scenario, Database, ColumnRow, Place
<1>3. cell' \in [DOMAIN cell -> Place \cup {Nowhere}] BY <1>1, <1>2, CarriedType
<1>4. DataKept' BY RunKept DEF Safe
<1>5. UNCHANGED d BY DesSame DEF TheDeed
<1>6. ASSUME NEW g \in DOMAIN cell
      PROVE  Data!Keep(g) \/ Data!Move(g) \/ Data!Discard(g)
  <2>1. cell'[g] =
          CASE s.op = "RenameTable" /\ cell[g][1] = s.t      -> <<s.to, cell[g][2]>>
            [] s.op = "RenameColumn" /\ cell[g] = <<s.t, s.n>> -> <<s.t, s.to>>
            [] s.op = "DropColumn" /\ cell[g] = <<s.t, s.n>> -> Nowhere
            [] s.op = "DropTable" /\ cell[g][1] = s.t        -> Nowhere
            [] OTHER                                      -> cell[g]
    BY <1>1 DEF Carried
  <2>2. CASE s.op = "RenameTable" /\ cell[g][1] = s.t
    <3>1. cell'[g] = <<s.to, cell[g][2]>> BY <2>1, <2>2
    <3>2. s.t \in Names /\ NoName \notin Names BY <2>2, NoNameAssumption, KindsAre DEF Statement
    <3>3. cell[g] \in Place BY <1>2, <2>2, <3>2 DEF Nowhere
    <3>4. cell[g] = <<s.t, cell[g][2]>> /\ cell[g][2] \in Columns BY <2>2, <3>3 DEF Place
    <3>5. PICK r \in TableDirectives(Des) : r.old = s.t /\ r.new = s.to
      BY <2>2 DEF Justified
    <3>6. <<cell[g], cell'[g]>> \in DeclaredRenames(Des)
      BY <3>1, <3>4, <3>5 DEF DeclaredRenames
    <3>7. s.to \in Names BY <2>2 DEF Statement
    <3>8. cell'[g] \in Place BY <3>1, <3>4, <3>7 DEF Place
    <3> QED BY <3>3, <3>6, <3>8 DEF Data!Move
  <2>3. CASE s.op = "RenameColumn" /\ cell[g] = <<s.t, s.n>>
    <3>1. cell'[g] = <<s.t, s.to>> BY <2>1, <2>3
    <3>2. s.t \in Names /\ s.to \in Columns /\ NoName \notin Names
      BY <2>3, NoNameAssumption, KindsAre DEF Statement
    <3>3. cell[g] \in Place /\ cell'[g] \in Place BY <1>2, <2>3, <3>1, <3>2 DEF Nowhere, Place
    <3>4. PICK r \in Directives(Des, "column", s.t) : r.old = s.n /\ r.new = s.to
      BY <2>3 DEF Justified
    <3>5. <<cell[g], cell'[g]>> \in DeclaredRenames(Des)
      BY <2>3, <3>1, <3>4 DEF DeclaredRenames, Directives
    <3> QED BY <3>3, <3>5 DEF Data!Move
  <2>4. CASE \/ s.op = "DropColumn" /\ cell[g] = <<s.t, s.n>>
             \/ s.op = "DropTable" /\ cell[g][1] = s.t
    <3>1. cell'[g] = Nowhere BY <2>1, <2>4
    <3>2. NoName \notin Names BY NoNameAssumption, KindsAre
    <3>3. g \notin d.claimed
      <4>1. SUFFICES ASSUME Claimed(Des, g) PROVE FALSE BY DEF TheDeed
      <4>2. DOMAIN cell' = DOMAIN cell /\ Des' = Des BY <1>3, DesSame
      <4>3. cell'[g] \in Route(Des, g) BY <1>4, <4>1, <4>2 DEF DataKept
      <4>4. Route(Des, g) \subseteq {g, <<NewTable(Des, g[1]), g[2]>>,
                                    <<NewTable(Des, g[1]), NewColumn(Des, NewTable(Des, g[1]), g[2])>>}
        BY DEF Route
      <4>5. NewTable(Des, g[1]) \in Names
        <5>1. Des \in Desired BY DesType DEF Safe, TypeOK
        <5> HIDE DEF Des
        <5> QED BY <4>1, <5>1, RowType DEF Claimed
      <4>6. g \in Place BY <1>2
      <4> QED BY <3>1, <3>2, <4>3, <4>4, <4>5, <4>6 DEF Nowhere, Place
    <3>4. d.discard
      <4>1. s.gate \in {"table", "column"} BY <2>4 DEF Justified
      <4>2. Permitted(job.allow, s) BY <2>4 DEF Destructive
      <4> QED BY <4>1, <4>2 DEF TheDeed, Permitted, Ungated
    <3> QED BY <3>1, <3>3, <3>4 DEF Data!Discard, TheDeed
  <2>5. CASE /\ ~(s.op = "RenameTable" /\ cell[g][1] = s.t)
             /\ ~(s.op = "RenameColumn" /\ cell[g] = <<s.t, s.n>>)
             /\ ~(s.op = "DropColumn" /\ cell[g] = <<s.t, s.n>>)
             /\ ~(s.op = "DropTable" /\ cell[g][1] = s.t)
    <3>1. cell'[g] = cell[g] BY <2>1, <2>5
    <3> QED BY <3>1 DEF Data!Keep
  <2> QED BY <2>2, <2>3, <2>4, <2>5
<1> QED BY <1>3, <1>5, <1>6 DEF Data!Next, TheDeed

(***************************************************************************)
(* Every step is a step or a stutter of Custody.                           *)
(***************************************************************************)
LEMMA CustodyNext ==
  Safe /\ [Next]_vars => [Data!Next]_<<cell, TheDeed>>
<1> SUFFICES ASSUME Safe, [Next]_vars, ~(UNCHANGED <<cell, TheDeed>>)
             PROVE  Data!Next
  OBVIOUS
<1>1. ASSUME NEW p \in Clients, Step(p) PROVE Data!Next
  <2>1. CASE UNCHANGED <<cell, job>> BY <2>1, CustodyStutter
  <2>2. ASSUME NEW s \in Ready(p), Exec(p, s) PROVE Data!Next
    <3>1. s \in pending[p] BY ReadyPending
    <3>2. s \in Statement /\ Justified(Des, s) /\ Permitted(job.allow, s)
      BY <3>1 DEF Safe, TypeOK, PlansSound
    <3> QED BY <2>2, <3>2, CustodyRun DEF Exec
  <2> QED BY <1>1, <2>1, <2>2
      DEF Step, Read, ListTables, LoadViews, LoadColumns, LoadIndexes, LoadCheckConstraints,
          LoadForeignKeys, Query, DiffRefused, DiffAll, CheckExecute, StartExec, Reject, Finish
<1>2. ASSUME NEW p \in Clients, Crash(p) \/ Rerun(p) PROVE Data!Next
  BY <1>2, CustodyStutter DEF Crash, Rerun
<1>3. ASSUME NEW s \in ForeignDDL, SomebodyElse(s) PROVE Data!Next
  <2>1. s \in Statement /\ s.op \notin Destructive BY ForeignAssumption
  <2>2. Justified(Des, s) BY <2>1 DEF Justified, Destructive
  <2> QED BY <1>3, <2>1, <2>2, CustodyRun DEF SomebodyElse
<1>4. CASE UNCHANGED vars BY <1>4, CustodyStutter DEF vars
<1> QED BY <1>1, <1>2, <1>3, <1>4 DEF Next

(***************************************************************************)
(* myschema apply implements Custody: data moves only along directives, and*)
(* is discarded only when nobody claims it and the operator opted in.      *)
(***************************************************************************)
THEOREM CustodyImplemented == Spec => ImplementsCustody
<1>1. Spec => Data!Init BY CustodyInit DEF Spec
<1> QED BY CustodyInit, CustodyNext, AlwaysSafe, PTL DEF Spec, ImplementsCustody, Data!Spec, TheDeed
-----------------------------------------------------------------------------
(***************************************************************************)
(* The filters: rows of the tables that are not shown.                     *)
(***************************************************************************)
Rest(rows) == {r \in rows : r.t \notin job.shown}

Bared(fks) == {<<r.t, r.n, r.col>> : r \in Rest(fks)}

(***************************************************************************)
(* Two schemas with the same hidden rows in every relation.                *)
(***************************************************************************)
LEMMA HiddenIs ==
  ASSUME NEW d, NEW e,
         d.tables \ job.shown = e.tables \ job.shown,
         Rest(d.cols) = Rest(e.cols), Rest(d.pks) = Rest(e.pks), Rest(d.keys) = Rest(e.keys),
         Rest(d.checks) = Rest(e.checks), Bared(d.fks) = Bared(e.fks),
         {r \in d.views : r.n \notin job.shown} = {r \in e.views : r.n \notin job.shown}
  PROVE  HiddenOf(d) = HiddenOf(e)
BY DEF HiddenOf, Rest, Bared

(***************************************************************************)
(* A drop in a table that is shown takes out no hidden row.                *)
(***************************************************************************)
LEMMA DropRest ==
  ASSUME NEW rows, NEW t \in job.shown, NEW n
  PROVE  Rest(Drop(rows, t, n)) = Rest(rows) /\ Rest(Except(rows, t)) = Rest(rows)
BY DEF Rest, Drop, Except

(***************************************************************************)
(* DROP COLUMN in a shown table changes no key of a hidden one.            *)
(***************************************************************************)
LEMMA ShrinkRest ==
  ASSUME NEW N, NEW rows \in SUBSET [t : Names, n : N, cols : Seq(Columns)],
         NEW t \in job.shown, NEW c
  PROVE  Rest(Shrink(rows, t, c)) = Rest(rows)
<1>1. \A r \in rows : WithoutColumn(r, c).t = r.t BY DEF WithoutColumn
<1> QED BY <1>1 DEF Rest, Shrink

(***************************************************************************)
(* A statement that drops something leaves the hidden rows.                *)
(***************************************************************************)
LEMMA WithoutHidden ==
  ASSUME NEW d \in Database, NEW s \in Statement, Visible(job.shown, s)
  PROVE  HiddenOf(Without(d, s)) = HiddenOf(d)
<1> DEFINE e == Without(d, s)
<1>1. CASE s.op = "DropView"
  <2>1. e = [d EXCEPT !.views = {r \in @ : r.n # s.n}] BY <1>1 DEF Without
  <2>2. s.n \in job.shown BY <1>1 DEF Visible
  <2> HIDE DEF e
  <2>3. /\ e.tables = d.tables /\ e.cols = d.cols /\ e.pks = d.pks /\ e.keys = d.keys
        /\ e.checks = d.checks /\ e.fks = d.fks /\ e.views = {r \in d.views : r.n # s.n}
    BY <2>1 DEF Database
  <2>4. {r \in e.views : r.n \notin job.shown} = {r \in d.views : r.n \notin job.shown}
    BY <2>2, <2>3
  <2>5. HiddenOf(e) = HiddenOf(d) BY <2>3, <2>4, HiddenIs
  <2> QED BY <2>5 DEF e
<1>2. CASE s.op \in {"DropForeignKey", "DropConstraint", "DropIndex", "DropTable"}
  <2>1. s.t \in job.shown BY <1>2 DEF Visible
  <2>2. /\ e.tables \in {d.tables, d.tables \ {s.t}}
        /\ e.cols \in {d.cols, Except(d.cols, s.t)}
        /\ e.pks \in {d.pks, Drop(d.pks, s.t, s.n), Except(d.pks, s.t)}
        /\ e.keys \in {d.keys, Drop(d.keys, s.t, s.n), Except(d.keys, s.t)}
        /\ e.checks \in {d.checks, Drop(d.checks, s.t, s.n), Except(d.checks, s.t)}
        /\ e.fks \in {d.fks, Drop(d.fks, s.t, s.n), Except(d.fks, s.t)}
        /\ e.views = d.views
    BY <1>2 DEF Without, Database
  <2> HIDE DEF e
  <2>3. /\ Rest(e.cols) = Rest(d.cols) /\ Rest(e.pks) = Rest(d.pks)
        /\ Rest(e.keys) = Rest(d.keys) /\ Rest(e.checks) = Rest(d.checks)
        /\ Rest(e.fks) = Rest(d.fks)
    BY <2>1, <2>2, DropRest, ZenonT(60)
  <2>4. e.tables \ job.shown = d.tables \ job.shown BY <2>1, <2>2
  <2>5. HiddenOf(e) = HiddenOf(d) BY <2>2, <2>3, <2>4, HiddenIs DEF Bared
  <2> QED BY <2>5 DEF e
<1>3. CASE s.op = "DropColumn"
  <2>1. s.t \in job.shown BY <1>3 DEF Visible
  <2>2. /\ e.tables = d.tables /\ e.cols = Drop(d.cols, s.t, s.n)
        /\ e.pks = Shrink(d.pks, s.t, s.n) /\ e.keys = Shrink(d.keys, s.t, s.n)
        /\ e.checks = d.checks /\ e.fks = d.fks /\ e.views = d.views
    BY <1>3 DEF Without, Database
  <2> HIDE DEF e
  <2>3. /\ d.pks \in SUBSET [t : Names, n : {PrimaryKey}, cols : Seq(Columns)]
        /\ d.keys \in SUBSET [t : Names, n : Keys \cup ForeignKeys, cols : Seq(Columns)]
    BY DEF Database, PrimaryRow, IndexRow
  <2>4. Rest(Shrink(d.pks, s.t, s.n)) = Rest(d.pks) /\ Rest(Shrink(d.keys, s.t, s.n)) = Rest(d.keys)
    BY <2>1, <2>3, ShrinkRest
  <2>5. Rest(e.cols) = Rest(d.cols)
    <3>1. Rest(Drop(d.cols, s.t, s.n)) = Rest(d.cols) BY <2>1, DropRest
    <3> QED BY <2>2, <3>1
  <2>6. Rest(e.pks) = Rest(d.pks) /\ Rest(e.keys) = Rest(d.keys) BY <2>2, <2>4
  <2>7. HiddenOf(e) = HiddenOf(d) BY <2>2, <2>5, <2>6, HiddenIs
  <2> QED BY <2>7 DEF e
<1> QED BY <1>1, <1>2, <1>3 DEF Without

(***************************************************************************)
(* Renaming a shown table to a shown name moves no hidden row.             *)
(***************************************************************************)
LEMMA MoveRest ==
  ASSUME NEW d \in Database, NEW old \in job.shown, NEW new \in job.shown
  PROVE  /\ Rest(MoveRows(d.cols, old, new)) = Rest(d.cols)
         /\ Rest(MoveRows(d.pks, old, new)) = Rest(d.pks)
         /\ Rest(MoveRows(d.keys, old, new)) = Rest(d.keys)
         /\ Rest(MoveRows(d.checks, old, new)) = Rest(d.checks)
         /\ Rest(MoveRows(d.fks, old, new)) = Rest(d.fks)
<1>1. ASSUME NEW rows, \A r \in rows : [r EXCEPT !.t = @] = r /\ "t" \in DOMAIN r
      PROVE  Rest(MoveRows(rows, old, new)) = Rest(rows)
  <2> DEFINE f(r) == [r EXCEPT !.t = Swap(@, old, new)]
  <2>1. \A r \in rows : r.t # old => f(r) = r BY <1>1 DEF Swap
  <2>2. \A r \in rows : r.t = old => f(r).t = new BY <1>1 DEF Swap
  <2>3. MoveRows(rows, old, new) = {f(r) : r \in rows} BY DEF MoveRows
  <2> HIDE DEF f
  <2> QED BY <2>1, <2>2, <2>3 DEF Rest
<1>2. \A r \in d.cols : [r EXCEPT !.t = @] = r /\ "t" \in DOMAIN r BY DEF Database, ColumnRow
<1>3. \A r \in d.pks : [r EXCEPT !.t = @] = r /\ "t" \in DOMAIN r BY DEF Database, PrimaryRow
<1>4. \A r \in d.keys : [r EXCEPT !.t = @] = r /\ "t" \in DOMAIN r BY DEF Database, IndexRow
<1>5. \A r \in d.checks : [r EXCEPT !.t = @] = r /\ "t" \in DOMAIN r BY DEF Database, CheckRow
<1>6. \A r \in d.fks : [r EXCEPT !.t = @] = r /\ "t" \in DOMAIN r BY DEF Database, ForeignKeyRow
<1> QED BY <1>1, <1>2, <1>3, <1>4, <1>5, <1>6

(***************************************************************************)
(* A statement that renames something leaves the hidden rows.              *)
(***************************************************************************)
LEMMA RenamedHidden ==
  ASSUME NEW d \in Database, NEW s \in Statement, Visible(job.shown, s)
  PROVE  HiddenOf(Renamed(d, s)) = HiddenOf(d)
<1> DEFINE e == Renamed(d, s)
<1>1. CASE s.op = "RenameTable"
  <2> DEFINE moved == MoveRows(d.fks, s.t, s.to)
  <2>1. s.t \in job.shown /\ s.to \in job.shown /\ s.to \in Names BY <1>1 DEF Visible, Statement
  <2>2. /\ e.tables = (d.tables \ {s.t}) \cup {s.to}
        /\ e.cols = MoveRows(d.cols, s.t, s.to) /\ e.pks = MoveRows(d.pks, s.t, s.to)
        /\ e.keys = MoveRows(d.keys, s.t, s.to) /\ e.checks = MoveRows(d.checks, s.t, s.to)
        /\ e.fks = {[r EXCEPT !.ref = Swap(@, s.t, s.to)] : r \in moved}
        /\ e.views = d.views
    BY <1>1 DEF Renamed, Database
  <2>3. moved \subseteq ForeignKeyRow /\ Rest(moved) = Rest(d.fks)
    BY <2>1, MoveRowsType, MoveRest
  <2> HIDE DEF e, moved
  <2>4. Bared(e.fks) = Bared(moved)
    <3> DEFINE f(r) == [r EXCEPT !.ref = Swap(@, s.t, s.to)]
    <3>1. \A r \in moved : f(r).t = r.t /\ f(r).n = r.n /\ f(r).col = r.col
      BY <2>3 DEF ForeignKeyRow
    <3>2. e.fks = {f(r) : r \in moved} BY <2>2
    <3> HIDE DEF f
    <3> QED BY <3>1, <3>2 DEF Bared, Rest
  <2>5. Bared(moved) = Bared(d.fks) BY <2>3 DEF Bared
  <2>6. e.tables \ job.shown = d.tables \ job.shown BY <2>1, <2>2
  <2>7. /\ Rest(e.cols) = Rest(d.cols) /\ Rest(e.pks) = Rest(d.pks)
        /\ Rest(e.keys) = Rest(d.keys) /\ Rest(e.checks) = Rest(d.checks)
    BY <2>1, <2>2, MoveRest
  <2>8. HiddenOf(e) = HiddenOf(d) BY <2>2, <2>4, <2>5, <2>6, <2>7, HiddenIs
  <2> QED BY <2>8 DEF e
<1>2. CASE s.op = "RenameColumn"
  <2> DEFINE F(r) == [r EXCEPT !.col    = IF r.t = s.t THEN Swap(@, s.n, s.to) ELSE @,
                               !.refcol = IF r.ref = s.t THEN Swap(@, s.n, s.to) ELSE @]
  <2>1. s.t \in job.shown BY <1>2 DEF Visible
  <2>2. /\ e.tables = d.tables
        /\ e.cols = RenameRows(d.cols, s.t, s.n, s.to)
        /\ e.pks = RenameInCols(d.pks, s.t, s.n, s.to)
        /\ e.keys = RenameInCols(d.keys, s.t, s.n, s.to)
        /\ e.checks = d.checks /\ e.fks = {F(r) : r \in d.fks} /\ e.views = d.views
    BY <1>2 DEF Renamed, Database
  <2>3. d.fks \subseteq ForeignKeyRow /\ d.cols \subseteq ColumnRow BY DEF Database
  <2>4. /\ d.pks \subseteq [t : Names, n : {PrimaryKey}, cols : Seq(Columns)]
        /\ d.keys \subseteq [t : Names, n : Keys \cup ForeignKeys, cols : Seq(Columns)]
    BY DEF Database, PrimaryRow, IndexRow
  <2> HIDE DEF e
  <2>5. Rest(e.cols) = Rest(d.cols)
    <3>1. \A r \in d.cols : [r EXCEPT !.n = Swap(@, s.n, s.to)].t = r.t BY <2>3 DEF ColumnRow
    <3> QED BY <2>1, <2>2, <3>1 DEF Rest, RenameRows
  <2>6. ASSUME NEW N, NEW rows \in SUBSET [t : Names, n : N, cols : Seq(Columns)]
        PROVE  Rest(RenameInCols(rows, s.t, s.n, s.to)) = Rest(rows)
    <3>1. \A r \in rows : [r EXCEPT !.cols = [i \in DOMAIN @ |-> Swap(@[i], s.n, s.to)]].t = r.t
      OBVIOUS
    <3> QED BY <2>1, <3>1 DEF Rest, RenameInCols
  <2>7. Rest(e.pks) = Rest(d.pks) /\ Rest(e.keys) = Rest(d.keys) BY <2>2, <2>4, <2>6
  <2>8. Bared(e.fks) = Bared(d.fks)
    <3>1. \A r \in d.fks : F(r).t = r.t /\ F(r).n = r.n /\ (r.t # s.t => F(r).col = r.col)
      BY <2>3 DEF ForeignKeyRow
    <3> HIDE DEF F
    <3> QED BY <2>1, <2>2, <3>1 DEF Bared, Rest
  <2>9. HiddenOf(e) = HiddenOf(d) BY <2>2, <2>5, <2>7, <2>8, HiddenIs
  <2> QED BY <2>9 DEF e
<1>3. CASE s.op = "RenameIndex"
  <2>1. s.t \in job.shown BY <1>3 DEF Visible
  <2>2. /\ e.tables = d.tables /\ e.cols = d.cols /\ e.pks = d.pks
        /\ e.keys = RenameRows(d.keys, s.t, s.n, s.to)
        /\ e.checks = d.checks /\ e.fks = d.fks /\ e.views = d.views
    BY <1>3 DEF Renamed, Database
  <2>3. \A r \in d.keys : [r EXCEPT !.n = Swap(@, s.n, s.to)].t = r.t BY DEF Database, IndexRow
  <2> HIDE DEF e
  <2>4. Rest(e.keys) = Rest(d.keys) BY <2>1, <2>2, <2>3 DEF Rest, RenameRows
  <2>5. HiddenOf(e) = HiddenOf(d) BY <2>2, <2>4, HiddenIs DEF Bared
  <2> QED BY <2>5 DEF e
<1> QED BY <1>1, <1>2, <1>3 DEF Renamed

(***************************************************************************)
(* What a statement on a shown table adds is not hidden.                   *)
(***************************************************************************)
LEMMA AddRest ==
  ASSUME NEW rows, NEW x, NEW t \in job.shown
  PROVE  Rest(rows \cup Of(x, t)) = Rest(rows)
BY DEF Rest, Of

(***************************************************************************)
(* A statement that creates something leaves the hidden rows, although its *)
(* text is found in the unfiltered files.                                  *)
(***************************************************************************)
LEMMA WithHidden ==
  ASSUME NEW d \in Database, NEW s \in Statement, Visible(job.shown, s), NEW text \in Desired
  PROVE  HiddenOf(With(d, s, text)) = HiddenOf(d)
<1> DEFINE e == With(d, s, text)
<1>1. CASE s.op = "PutView"
  <2>1. s.n \in job.shown BY <1>1 DEF Visible
  <2>2. /\ e.tables = d.tables /\ e.cols = d.cols /\ e.pks = d.pks /\ e.keys = d.keys
        /\ e.checks = d.checks /\ e.fks = d.fks
        /\ e.views = {r \in d.views : r.n # s.n} \cup {r \in text.views : r.n = s.n}
    BY <1>1 DEF With, Database
  <2> HIDE DEF e
  <2>3. {r \in e.views : r.n \notin job.shown} = {r \in d.views : r.n \notin job.shown}
    BY <2>1, <2>2
  <2>4. HiddenOf(e) = HiddenOf(d) BY <2>2, <2>3, HiddenIs
  <2> QED BY <2>4 DEF e
<1>2. CASE s.op = "Execute"
  <2>1. /\ e.tables = d.tables /\ e.cols = d.cols /\ e.pks = d.pks /\ e.keys = d.keys
        /\ e.checks = d.checks /\ e.fks = d.fks /\ e.views = d.views
    BY <1>2 DEF With, Database
  <2> HIDE DEF e
  <2>2. HiddenOf(e) = HiddenOf(d) BY <2>1, HiddenIs
  <2> QED BY <2>2 DEF e
<1>3. CASE s.op = "CreateTable"
  <2>1. s.t \in job.shown BY <1>3 DEF Visible
  <2>2. /\ e.tables = d.tables \cup {s.t}
        /\ e.cols = d.cols \cup Of(text.cols, s.t) /\ e.pks = d.pks \cup Of(text.pks, s.t)
        /\ e.checks = d.checks \cup Of(text.checks, s.t)
        /\ e.keys = d.keys /\ e.fks = d.fks /\ e.views = d.views
    BY <1>3 DEF With, Database
  <2>3. \A rows, x : Rest(rows \cup Of(x, s.t)) = Rest(rows) BY <2>1, AddRest
  <2> HIDE DEF e
  <2>4. e.tables \ job.shown = d.tables \ job.shown BY <2>1, <2>2
  <2>5. Rest(e.cols) = Rest(d.cols) BY <2>2, <2>3
  <2>6. Rest(e.pks) = Rest(d.pks) BY <2>2, <2>3
  <2>7. Rest(e.checks) = Rest(d.checks) BY <2>2, <2>3
  <2>8. HiddenOf(e) = HiddenOf(d) BY <2>2, <2>4, <2>5, <2>6, <2>7, HiddenIs
  <2> QED BY <2>8 DEF e
<1>4. CASE s.op \in {"AddColumn", "ModifyColumn", "AddConstraint", "CreateIndex", "AddForeignKey"}
  <2>1. s.t \in job.shown BY <1>4 DEF Visible
  <2>2. \A rows, x : Rest(rows \cup The(x, s.t, s.n)) = Rest(rows) BY <2>1 DEF Rest, The
  <2>3. \A r \in ImplicitKeys(d, The(text.fks, s.t, s.n)) : r.t = s.t
    BY DEF ImplicitKeys, The
  <2>4. /\ e.tables = d.tables /\ e.views = d.views
        /\ \/ e.cols = d.cols
           \/ e.cols = Drop(d.cols, s.t, s.n) \cup The(text.cols, s.t, s.n)
        /\ e.pks = d.pks \/ e.pks = d.pks \cup The(text.pks, s.t, s.n)
        /\ \/ e.keys = d.keys
           \/ e.keys = d.keys \cup The(text.keys, s.t, s.n)
           \/ e.keys = d.keys \cup ImplicitKeys(d, The(text.fks, s.t, s.n))
        /\ e.checks = d.checks \/ e.checks = d.checks \cup The(text.checks, s.t, s.n)
        /\ e.fks = d.fks \/ e.fks = d.fks \cup The(text.fks, s.t, s.n)
    BY <1>4 DEF With, Database
  <2> HIDE DEF e
  <2>5. Rest(e.cols) = Rest(d.cols)
    <3>1. Rest(Drop(d.cols, s.t, s.n) \cup The(text.cols, s.t, s.n)) = Rest(Drop(d.cols, s.t, s.n))
      BY <2>2
    <3>2. Rest(Drop(d.cols, s.t, s.n)) = Rest(d.cols) BY <2>1, DropRest
    <3> QED BY <2>4, <3>1, <3>2
  <2>6. Rest(e.pks) = Rest(d.pks) BY <2>2, <2>4
  <2>7. Rest(e.checks) = Rest(d.checks) BY <2>2, <2>4
  <2>8. Rest(e.fks) = Rest(d.fks) BY <2>2, <2>4
  <2>9. Rest(e.keys) = Rest(d.keys)
    <3>1. Rest(d.keys \cup ImplicitKeys(d, The(text.fks, s.t, s.n))) = Rest(d.keys)
      BY <2>1, <2>3 DEF Rest
    <3> QED BY <2>2, <2>4, <3>1
  <2>10. HiddenOf(e) = HiddenOf(d)
    BY <2>4, <2>5, <2>6, <2>7, <2>8, <2>9, HiddenIs DEF Bared
  <2> QED BY <2>10 DEF e
<1> QED BY <1>1, <1>2, <1>3, <1>4 DEF With

(***************************************************************************)
(* A statement on shown names leaves the hidden rows.                      *)
(***************************************************************************)
LEMMA EffectHidden ==
  ASSUME NEW d \in Database, NEW s \in Statement, Visible(job.shown, s), NEW text \in Desired
  PROVE  HiddenOf(Effect(d, s, text)) = HiddenOf(d)
<1>1. Without(d, s) \in Database /\ Renamed(Without(d, s), s) \in Database
  BY WithoutType, RenamedType
<1> QED BY <1>1, WithoutHidden, RenamedHidden, WithHidden DEF Effect
(***************************************************************************)
(* What a run does to the server, for the rest of this module: a step of a *)
(* client that is none of somebody else's changes neither the schema nor   *)
(* the data, or runs a statement that is sound, permitted and shown.       *)
(***************************************************************************)
LEMMA RunSteps ==
  ASSUME Safe, [Next]_vars
  PROVE  /\ job' = job
         /\ \/ UNCHANGED <<db, cell, foreign>>
            \/ /\ foreign' = foreign
               /\ \E s \in Statement : /\ Run(s)
                                       /\ Justified(Des, s)
                                       /\ Permitted(job.allow, s)
                                       /\ Scoped(job.shown, Des, s)
                                       /\ Additive(Des, s)
            \/ /\ foreign' = foreign + 1
               /\ \E s \in Statement : Run(s) /\ s.op \notin Destructive
<1>1. CASE UNCHANGED vars BY <1>1 DEF vars
<1>2. ASSUME NEW p \in Clients, Crash(p) \/ Rerun(p) PROVE UNCHANGED <<db, cell, job, foreign>>
  BY <1>2 DEF Crash, Rerun
<1>3. ASSUME NEW s \in ForeignDDL, SomebodyElse(s)
      PROVE  job' = job /\ foreign' = foreign + 1 /\ s \in Statement /\ Run(s) /\ s.op \notin Destructive
  BY <1>3, ForeignAssumption DEF SomebodyElse
<1>4. ASSUME NEW p \in Clients, NEW s \in Ready(p), Exec(p, s)
      PROVE  /\ UNCHANGED <<job, foreign>> /\ s \in Statement /\ Run(s)
             /\ Justified(Des, s) /\ Permitted(job.allow, s) /\ Scoped(job.shown, Des, s)
             /\ Additive(Des, s)
  BY <1>4, ReadyPending DEF Exec, Safe, TypeOK, PlansSound
<1>5. ASSUME NEW p \in Clients, Step(p)
      PROVE  \/ UNCHANGED <<db, cell, job, foreign>>
             \/ \E s \in Ready(p) : Exec(p, s)
  BY <1>5 DEF Step, Read, ListTables, LoadViews, LoadColumns, LoadIndexes, LoadCheckConstraints,
              LoadForeignKeys, Query, DiffRefused, DiffAll, CheckExecute, StartExec, Reject, Finish
<1>6. CASE Next
  <2>1. CASE \E p \in Clients : Step(p) BY <1>4, <1>5, <2>1
  <2>2. CASE \E p \in Clients : Crash(p) \/ Rerun(p) BY <1>2, <2>2
  <2>3. CASE \E s \in ForeignDDL : SomebodyElse(s) BY <1>3, <2>3
  <2> QED BY <1>6, <2>1, <2>2, <2>3 DEF Next
<1> QED BY <1>1, <1>6

(***************************************************************************)
(* Whatever is hidden by --include and --exclude keeps its rows, whatever  *)
(* a run has read before: the catalog and the files are filtered alike, so *)
(* no statement names a hidden table or view.                              *)
(***************************************************************************)
THEOREM HiddenKept == Spec => HiddenUntouched
<1>1. ASSUME Safe, [Next]_vars PROVE foreign' = foreign => HiddenOf(db') = HiddenOf(db)
  <2>1. CASE UNCHANGED <<db, cell>> BY <2>1
  <2>2. ASSUME NEW s \in Statement, Run(s), Scoped(job.shown, Des, s)
        PROVE  HiddenOf(db') = HiddenOf(db)
    <3>1. db \in Database /\ job.des \in Desired BY <1>1, DesType DEF Safe, TypeOK
    <3>2. db' = Effect(db, s, job.des) BY <2>2 DEF Run
    <3> QED BY <2>2, <3>1, <3>2, EffectHidden DEF Scoped
  <2>3. foreign \in Nat BY <1>1, BoundAssumption DEF Safe, TypeOK
  <2> QED BY <1>1, <2>1, <2>2, <2>3, RunSteps
<1> QED BY <1>1, AlwaysSafe, PTL DEF Spec, HiddenUntouched

-----------------------------------------------------------------------------
(***************************************************************************)
(* Data goes away only when --allow-drop names its category, and the data  *)
(* of a hidden table never does.                                           *)
(***************************************************************************)
THEOREM DataDropsOptedIn == Spec => DropsOptedIn
<1>1. ASSUME Safe, [Next]_vars PROVE DataOptedIn
  <2>1. SUFFICES ASSUME NEW g \in DOMAIN cell, cell[g] # Nowhere, cell'[g] = Nowhere
                 PROVE  /\ cell[g][1] \in job.shown
                        /\ \/ IsDropAllowed(job.allow, "column")
                           \/ IsDropAllowed(job.allow, "table")
                              /\ \A h \in DOMAIN cell : cell[h][1] = cell[g][1] => cell'[h] = Nowhere
    BY DEF DataOptedIn
  <2>2. PICK s \in Statement :
          /\ Run(s)
          /\ \/ s.op \notin Destructive
             \/ Justified(Des, s) /\ Permitted(job.allow, s) /\ Scoped(job.shown, Des, s)
    BY <1>1, <2>1, RunSteps
  <2>3. \A h \in DOMAIN cell :
          cell'[h] = CASE s.op = "RenameTable" /\ cell[h][1] = s.t      -> <<s.to, cell[h][2]>>
                       [] s.op = "RenameColumn" /\ cell[h] = <<s.t, s.n>> -> <<s.t, s.to>>
                       [] s.op = "DropColumn" /\ cell[h] = <<s.t, s.n>> -> Nowhere
                       [] s.op = "DropTable" /\ cell[h][1] = s.t        -> Nowhere
                       [] OTHER                                      -> cell[h]
    BY <2>2 DEF Run, Carried
  <2>4. /\ s.op = "RenameTable" => s.to # NoName
        /\ s.op = "RenameColumn" => s.to # NoName
    BY NoNameAssumption, KindsAre DEF Statement
  <2>5. \/ s.op = "DropColumn" /\ cell[g] = <<s.t, s.n>>
        \/ s.op = "DropTable" /\ cell[g][1] = s.t
    <3>1. CASE s.op = "RenameTable" /\ cell[g][1] = s.t
      <4>1. cell'[g] = <<s.to, cell[g][2]>> BY <2>3, <3>1
      <4> QED BY <2>1, <2>4, <3>1, <4>1 DEF Nowhere
    <3>2. CASE s.op = "RenameColumn" /\ cell[g] = <<s.t, s.n>>
      <4>1. cell'[g] = <<s.t, s.to>> BY <2>3, <3>2
      <4> QED BY <2>1, <2>4, <3>2, <4>1 DEF Nowhere
    <3>3. CASE /\ ~(s.op = "RenameTable" /\ cell[g][1] = s.t)
               /\ ~(s.op = "RenameColumn" /\ cell[g] = <<s.t, s.n>>)
               /\ ~(s.op = "DropColumn" /\ cell[g] = <<s.t, s.n>>)
               /\ ~(s.op = "DropTable" /\ cell[g][1] = s.t)
      <4>1. cell'[g] = cell[g] BY <2>3, <3>3
      <4> QED BY <2>1, <4>1
    <3> QED BY <3>1, <3>2, <3>3
  <2>6. /\ s.gate = IF s.op = "DropColumn" THEN "column" ELSE "table"
        /\ IsDropAllowed(job.allow, s.gate)
        /\ s.t \in job.shown
    BY <2>2, <2>5 DEF Destructive, Justified, Permitted, Ungated, Scoped, Visible
  <2>7. CASE s.op = "DropColumn" BY <2>5, <2>6, <2>7
  <2>8. CASE s.op = "DropTable"
    <3>1. \A h \in DOMAIN cell : cell[h][1] = s.t => cell'[h] = Nowhere BY <2>3, <2>8
    <3> QED BY <2>5, <2>6, <2>8, <3>1
  <2> QED BY <2>5, <2>7, <2>8
<1> QED BY <1>1, AlwaysSafe, PTL DEF Spec, DropsOptedIn
-----------------------------------------------------------------------------
(***************************************************************************)
(* A statement does one of three things: it takes out, renames, or adds.   *)
(***************************************************************************)
DropOps   == {"DropView", "DropForeignKey", "DropConstraint", "DropIndex", "DropColumn", "DropTable"}
RenameOps == {"RenameTable", "RenameColumn", "RenameIndex"}

LEMMA OneEffect ==
  ASSUME NEW d, NEW s, NEW text
  PROVE  /\ s.op \in DropOps => Effect(d, s, text) = Without(d, s)
         /\ s.op \in RenameOps => Effect(d, s, text) = Renamed(d, s)
         /\ s.op \notin DropOps \cup RenameOps => Effect(d, s, text) = With(d, s, text)
<1>1. s.op \notin DropOps => Without(d, s) = d BY DEF Without, DropOps
<1>2. \A x : s.op \notin RenameOps => Renamed(x, s) = x BY DEF Renamed, RenameOps
<1>3. \A x : s.op \in DropOps \cup RenameOps => With(x, s, text) = x
  BY DEF With, DropOps, RenameOps
<1>4. DropOps \cap RenameOps = {} BY DEF DropOps, RenameOps
<1> QED BY <1>1, <1>2, <1>3, <1>4 DEF Effect

(***************************************************************************)
(* Nothing is gone whose table and name are still there.                   *)
(***************************************************************************)
LEMMA NoneGone ==
  ASSUME NEW rows, NEW rows2, \A r \in rows : \E x \in rows2 : x.t = r.t /\ x.n = r.n
  PROVE  Gone(rows, rows2) = {}
BY DEF Gone, Holds

(***************************************************************************)
(* What a drop takes out of a relation is what it names.                   *)
(***************************************************************************)
LEMMA DropGone ==
  ASSUME NEW rows, NEW t, NEW n, NEW r \in Gone(rows, Drop(rows, t, n))
  PROVE  r.t = t /\ r.n = n
BY DEF Gone, Holds, Drop

(***************************************************************************)
(* A key that goes with a dropped column had no other column.              *)
(***************************************************************************)
LEMMA ShrinkGone ==
  ASSUME NEW N, NEW rows \in SUBSET [t : Names, n : N, cols : Seq(Columns)], NEW t, NEW c,
         NEW r \in Gone(rows, Shrink(rows, t, c))
  PROVE  r.t = t /\ ListOf(r.cols) \subseteq {c}
<1>1. r \in rows /\ ~Holds(Shrink(rows, t, c), r.t, r.n) BY DEF Gone
<1>2. r.t = t /\ WithoutColumn(r, c).cols = <<>>
  <2> DEFINE x == IF r.t = t THEN WithoutColumn(r, c) ELSE r
  <2>1. x.t = r.t /\ x.n = r.n BY <1>1 DEF WithoutColumn
  <2>2. x \notin Shrink(rows, t, c) BY <1>1, <2>1 DEF Holds
  <2> QED BY <1>1, <2>1, <2>2 DEF Shrink
<1>3. r.cols \in Seq(Columns) BY <1>1
<1>4. CASE \E i \in DOMAIN r.cols : r.cols[i] = c
  <2> DEFINE k == CHOOSE i \in DOMAIN r.cols : r.cols[i] = c
  <2>1. k \in DOMAIN r.cols /\ r.cols[k] = c BY <1>4
  <2>2. WithoutColumn(r, c).cols = S!RemoveAt(r.cols, k) BY <1>1, <1>4 DEF WithoutColumn
  <2> HIDE DEF k
  <2>3. S!RemoveAt(r.cols, k) = SubSeq(r.cols, 1, k - 1) \o SubSeq(r.cols, k + 1, Len(r.cols))
    BY DEF S!RemoveAt
  <2>4. k \in 1..Len(r.cols) /\ Len(r.cols) \in Nat BY <1>3, <2>1
  <2>5. /\ SubSeq(r.cols, 1, k - 1) \in Seq(Columns) /\ Len(SubSeq(r.cols, 1, k - 1)) = k - 1
        /\ SubSeq(r.cols, k + 1, Len(r.cols)) \in Seq(Columns)
        /\ Len(SubSeq(r.cols, k + 1, Len(r.cols))) = Len(r.cols) - k
    BY <1>3, <2>4, SubSeqProperties
  <2> DEFINE p == SubSeq(r.cols, 1, k - 1)
             q == SubSeq(r.cols, k + 1, Len(r.cols))
  <2>6. Len(S!RemoveAt(r.cols, k)) = Len(r.cols) - 1
    <3>1. p \in Seq(Columns) /\ q \in Seq(Columns) /\ Len(p) = k - 1 /\ Len(q) = Len(r.cols) - k
      BY <2>5
    <3> HIDE DEF p, q
    <3>2. Len(p \o q) = Len(p) + Len(q) BY <3>1, ConcatProperties
    <3>3. S!RemoveAt(r.cols, k) = p \o q BY <2>3 DEF p, q
    <3>4. k \in Nat /\ Len(r.cols) \in Nat BY <2>4
    <3>5. Len(p) + Len(q) = Len(r.cols) - 1 BY <3>1, <3>4
    <3> QED BY <3>2, <3>3, <3>5
  <2>7. Len(r.cols) = 1
    <3>1. S!RemoveAt(r.cols, k) = <<>> BY <1>2, <2>2
    <3>2. Len(S!RemoveAt(r.cols, k)) = 0 BY <3>1
    <3>3. Len(r.cols) - 1 = 0 BY <2>6, <3>2
    <3>4. Len(r.cols) \in Nat BY <2>4
    <3> QED BY <3>3, <3>4
  <2> QED BY <1>2, <1>3, <2>1, <2>4, <2>7 DEF ListOf
<1>5. CASE ~\E i \in DOMAIN r.cols : r.cols[i] = c
  <2>1. r.cols = <<>> BY <1>2, <1>5 DEF WithoutColumn
  <2> QED BY <1>2, <2>1 DEF ListOf
<1> QED BY <1>4, <1>5

(***************************************************************************)
(* A permitted statement whose gate is a category has that category        *)
(* allowed.                                                                *)
(***************************************************************************)
LEMMA GateAllowed ==
  ASSUME NEW s, Permitted(job.allow, s), NEW kind \in Categories, s.gate = kind
  PROVE  IsDropAllowed(job.allow, kind)
BY DEF Permitted, Categories, Ungated

(***************************************************************************)
(* A table that is dropped or renamed takes its objects along.             *)
(***************************************************************************)
LEMMA TableObjects ==
  ASSUME Safe, NEW s \in Statement, s.op \in {"DropTable", "RenameTable"}, Run(s),
         Justified(Des, s), Permitted(job.allow, s)
  PROVE  ObjectsGone
<1>1. db \in Database BY DEF Safe, TypeOK
<1>2. /\ db' = IF s.op = "DropTable" THEN Without(db, s) ELSE Renamed(db, s)
      /\ s.t \in db.tables
      /\ s.op = "RenameTable" => s.to \notin db.tables
  BY OneEffect DEF Run, DropOps, RenameOps, Accepts, AcceptsDrop, AcceptsRename, Relations
<1>3. /\ db'.tables = db.tables \ {s.t} \/ db'.tables = (db.tables \ {s.t}) \cup {s.to}
      /\ s.op = "RenameTable" => s.to \in db'.tables
      /\ db'.views = db.views
  BY <1>1, <1>2 DEF Without, Renamed, Database
<1>4. TableGone(s.t)
  <2>1. CASE s.op = "DropTable"
    <3>1. db'.tables = db.tables \ {s.t} BY <1>1, <1>2, <2>1 DEF Without, Database
    <3> QED BY <1>2, <3>1 DEF TableGone
  <2>2. CASE s.op = "RenameTable" BY <1>2, <1>3, <2>2 DEF TableGone
  <2> QED BY <2>1, <2>2
<1>5. ASSUME NEW r \in Gone(db.fks, db'.fks) PROVE r.t = s.t
  <2>1. SUFFICES ASSUME r.t # s.t PROVE FALSE OBVIOUS
  <2>2. r \in db.fks /\ r \in ForeignKeyRow BY <1>1 DEF Gone, Database
  <2>3. CASE s.op = "DropTable"
    <3>1. db'.fks = Except(db.fks, s.t) BY <1>1, <1>2, <2>3 DEF Without, Database
    <3>2. r \in db'.fks BY <2>1, <2>2, <3>1 DEF Except
    <3> QED BY <3>2 DEF Gone, Holds
  <2>4. CASE s.op = "RenameTable"
    <3>1. db'.fks = {[x EXCEPT !.ref = Swap(@, s.t, s.to)] : x \in MoveRows(db.fks, s.t, s.to)}
      BY <1>1, <1>2, <2>4 DEF Renamed, Database
    <3>2. r \in MoveRows(db.fks, s.t, s.to)
      <4>1. [r EXCEPT !.t = Swap(@, s.t, s.to)] = r BY <2>1, <2>2 DEF ForeignKeyRow, Swap
      <4> QED BY <2>2, <4>1 DEF MoveRows
    <3>3. [r EXCEPT !.ref = Swap(@, s.t, s.to)] \in db'.fks BY <3>1, <3>2
    <3>4. /\ [r EXCEPT !.ref = Swap(@, s.t, s.to)].t = r.t
          /\ [r EXCEPT !.ref = Swap(@, s.t, s.to)].n = r.n
      BY <2>2 DEF ForeignKeyRow
    <3> QED BY <3>3, <3>4 DEF Gone, Holds
  <2> QED BY <2>3, <2>4
<1>6. ASSUME NEW r \in Gone(db.checks, db'.checks) PROVE r.t = s.t
  <2>1. SUFFICES ASSUME r.t # s.t PROVE FALSE OBVIOUS
  <2>2. r \in db.checks /\ r \in CheckRow BY <1>1 DEF Gone, Database
  <2>3. db'.checks = Except(db.checks, s.t) \/ db'.checks = MoveRows(db.checks, s.t, s.to)
    BY <1>1, <1>2 DEF Without, Renamed, Database
  <2>4. [r EXCEPT !.t = Swap(@, s.t, s.to)] = r BY <2>1, <2>2 DEF CheckRow, Swap
  <2>5. r \in db'.checks BY <2>1, <2>2, <2>3, <2>4 DEF MoveRows, Except
  <2> QED BY <2>5 DEF Gone, Holds
<1>7. ASSUME NEW r \in Gone(db.keys, db'.keys) PROVE r.t = s.t
  <2>1. SUFFICES ASSUME r.t # s.t PROVE FALSE OBVIOUS
  <2>2. r \in db.keys /\ r \in IndexRow BY <1>1 DEF Gone, Database
  <2>3. db'.keys = Except(db.keys, s.t) \/ db'.keys = MoveRows(db.keys, s.t, s.to)
    BY <1>1, <1>2 DEF Without, Renamed, Database
  <2>4. [r EXCEPT !.t = Swap(@, s.t, s.to)] = r BY <2>1, <2>2 DEF IndexRow, Swap
  <2>5. r \in db'.keys BY <2>1, <2>2, <2>3, <2>4 DEF MoveRows, Except
  <2> QED BY <2>5 DEF Gone, Holds
<1>8. ASSUME NEW t \in db.tables \ db'.tables
      PROVE  IsDropAllowed(job.allow, "table") \/ NewTable(Des, t) \in db'.tables \ db.tables
  <2>1. t = s.t BY <1>3
  <2>2. CASE s.op = "DropTable" BY <2>2, GateAllowed DEF Justified, Categories
  <2>3. CASE s.op = "RenameTable"
    <3>1. PICK r \in TableDirectives(Des) : r.old = s.t /\ r.new = s.to BY <2>3 DEF Justified
    <3>2. \A x \in TableDirectives(Des) : x.old = r.old => x = r
      BY <2>3, <3>1 DEF Justified, Destructive, SoundTables
    <3>3. NewName(TableDirectives(Des), r.old) = r.new BY <3>2, NewNameOf
    <3> QED BY <1>2, <1>3, <2>1, <2>3, <3>1, <3>3 DEF NewTable
  <2> QED BY <2>2, <2>3
<1> QED BY <1>3, <1>4, <1>5, <1>6, <1>7, <1>8 DEF ObjectsGone, KeyGone, TakenOut

(***************************************************************************)
(* A statement that drops something else than a table.                     *)
(***************************************************************************)
LEMMA DroppedObjects ==
  ASSUME Safe, NEW s \in Statement, s.op \in DropOps, s.op # "DropTable", Run(s),
         Justified(Des, s), Permitted(job.allow, s), Entitled(Des, s)
  PROVE  ObjectsGone
<1>1. db \in Database BY DEF Safe, TypeOK
<1>2. db' = Without(db, s) BY OneEffect DEF Run
<1>3. /\ db'.tables = db.tables
      /\ db'.fks = IF s.op = "DropForeignKey" THEN Drop(db.fks, s.t, s.n) ELSE db.fks
      /\ db'.checks = IF s.op = "DropConstraint" THEN Drop(db.checks, s.t, s.n) ELSE db.checks
      /\ db'.keys = CASE s.op = "DropIndex"  -> Drop(db.keys, s.t, s.n)
                      [] s.op = "DropColumn" -> Shrink(db.keys, s.t, s.n)
                      [] OTHER               -> db.keys
      /\ s.op # "DropView" => db'.views = db.views
  BY <1>1, <1>2 DEF Without, Database, DropOps
<1>4. \A rows : Gone(rows, rows) = {} BY NoneGone
<1>5. ASSUME NEW r \in Gone(db.fks, db'.fks) PROVE TakenOut(r, Des.fks, "foreign_key")
  <2>1. s.op = "DropForeignKey" BY <1>3, <1>4
  <2>2. r.t = s.t /\ r.n = s.n BY <1>3, <2>1, DropGone
  <2> QED BY <2>1, <2>2, GateAllowed DEF Entitled, TakenOut, Categories
<1>6. ASSUME NEW r \in Gone(db.checks, db'.checks)
      PROVE  TakenOut(r, Des.pks \cup Des.checks, "constraint")
  <2>1. s.op = "DropConstraint" BY <1>3, <1>4
  <2>2. r.t = s.t /\ r.n = s.n BY <1>3, <2>1, DropGone
  <2> QED BY <2>1, <2>2, GateAllowed DEF Entitled, TakenOut, Categories
<1>7. ASSUME NEW r \in Gone(db.keys, db'.keys) PROVE KeyGone(r)
  <2>1. CASE s.op = "DropIndex"
    <3>1. r.t = s.t /\ r.n = s.n BY <1>3, <2>1, DropGone
    <3> QED BY <2>1, <3>1, GateAllowed DEF Entitled, KeyGone, TakenOut, Categories
  <2>2. CASE s.op = "DropColumn"
    <3>1. r.t = s.t /\ ListOf(r.cols) \subseteq {s.n}
      <4>1. db.keys \in SUBSET [t : Names, n : Keys \cup ForeignKeys, cols : Seq(Columns)]
        BY <1>1 DEF Database, IndexRow
      <4>2. r \in Gone(db.keys, Shrink(db.keys, s.t, s.n)) BY <1>3, <2>2
      <4> QED BY <4>1, <4>2, ShrinkGone
    <3>2. ~Holds(Des.cols, s.t, s.n) /\ IsDropAllowed(job.allow, "column")
      BY <2>2, GateAllowed DEF Justified, Categories
    <3> QED BY <3>1, <3>2 DEF KeyGone
  <2>3. CASE s.op \notin {"DropIndex", "DropColumn"} BY <1>3, <1>4, <2>3
  <2> QED BY <2>1, <2>2, <2>3
<1>8. ViewNames(db.views) \ ViewNames(db'.views) # {} => IsDropAllowed(job.allow, "view")
  BY <1>3, GateAllowed DEF Entitled, Categories
<1> QED BY <1>3, <1>5, <1>6, <1>7, <1>8 DEF ObjectsGone

(***************************************************************************)
(* A renamed column takes nothing out, a renamed index is where its        *)
(* directive says.                                                         *)
(***************************************************************************)
LEMMA RenamedObjects ==
  ASSUME Safe, NEW s \in Statement, s.op \in {"RenameColumn", "RenameIndex"}, Run(s),
         Entitled(Des, s)
  PROVE  ObjectsGone
<1>1. db \in Database BY DEF Safe, TypeOK
<1>2. db' = Renamed(db, s) BY OneEffect DEF Run, RenameOps
<1>3. db'.tables = db.tables /\ db'.checks = db.checks /\ db'.views = db.views
  BY <1>1, <1>2 DEF Renamed, Database
<1>4. \A rows : Gone(rows, rows) = {} BY NoneGone
<1>5. Gone(db.fks, db'.fks) = {}
  <2>1. CASE s.op = "RenameColumn"
    <3> DEFINE f(r) == [r EXCEPT !.col    = IF r.t = s.t THEN Swap(@, s.n, s.to) ELSE @,
                                 !.refcol = IF r.ref = s.t THEN Swap(@, s.n, s.to) ELSE @]
    <3>1. db'.fks = {f(r) : r \in db.fks} BY <1>1, <1>2, <2>1 DEF Renamed, Database
    <3>2. \A r \in db.fks : f(r).t = r.t /\ f(r).n = r.n BY <1>1 DEF Database, ForeignKeyRow
    <3> HIDE DEF f
    <3> QED BY <3>1, <3>2, NoneGone
  <2>2. CASE s.op = "RenameIndex"
    <3>1. db'.fks = db.fks BY <1>1, <1>2, <2>2 DEF Renamed, Database
    <3> QED BY <3>1, <1>4
  <2> QED BY <2>1, <2>2
<1>6. ASSUME NEW r \in Gone(db.keys, db'.keys) PROVE KeyGone(r)
  <2>1. r \in db.keys /\ r \in IndexRow BY <1>1 DEF Gone, Database
  <2>2. CASE s.op = "RenameColumn"
    <3> DEFINE x == [r EXCEPT !.cols = [i \in DOMAIN @ |-> Swap(@[i], s.n, s.to)]]
    <3>1. db'.keys = RenameInCols(db.keys, s.t, s.n, s.to)
      BY <1>1, <1>2, <2>2 DEF Renamed, Database
    <3>2. x.t = r.t /\ x.n = r.n BY <2>1 DEF IndexRow
    <3>3. x \in db'.keys \/ r \in db'.keys BY <2>1, <3>1 DEF RenameInCols
    <3> HIDE DEF x
    <3> QED BY <3>2, <3>3 DEF Gone, Holds
  <2>3. CASE s.op = "RenameIndex"
    <3> DEFINE x == [r EXCEPT !.n = Swap(@, s.n, s.to)]
    <3>1. db'.keys = RenameRows(db.keys, s.t, s.n, s.to)
      BY <1>1, <1>2, <2>3 DEF Renamed, Database
    <3>2. x.t = r.t /\ x.n = IF r.n = s.n THEN s.to ELSE r.n BY <2>1 DEF IndexRow, Swap
    <3>3. IF r.t = s.t THEN x \in db'.keys ELSE r \in db'.keys BY <2>1, <3>1 DEF RenameRows
    <3> HIDE DEF x
    <3>4. r.t = s.t /\ r.n = s.n BY <3>2, <3>3 DEF Gone, Holds
    <3>5. Holds(db'.keys, r.t, s.to) BY <3>2, <3>3, <3>4 DEF Holds
    <3> QED BY <2>3, <3>4, <3>5 DEF Entitled, KeyGone
  <2> QED BY <2>2, <2>3
<1> QED BY <1>3, <1>4, <1>5, <1>6 DEF ObjectsGone

(***************************************************************************)
(* A statement that adds something takes nothing out.                      *)
(***************************************************************************)
LEMMA AddedObjects ==
  ASSUME Safe, NEW s \in Statement, s.op \notin DropOps \cup RenameOps, Run(s), Entitled(Des, s)
  PROVE  ObjectsGone
<1>1. db \in Database BY DEF Safe, TypeOK
<1>2. db' = With(db, s, job.des) BY OneEffect DEF Run
<1>3. /\ db.tables \subseteq db'.tables /\ db.fks \subseteq db'.fks
      /\ db.checks \subseteq db'.checks /\ db.keys \subseteq db'.keys
  BY <1>1, <1>2 DEF With, Database
<1>4. ViewNames(db.views) \subseteq ViewNames(db'.views)
  <2>1. CASE s.op = "PutView"
    <3>1. db'.views = {r \in db.views : r.n # s.n} \cup {r \in job.des.views : r.n = s.n}
      BY <1>1, <1>2, <2>1 DEF With, Database
    <3>2. Des.views \subseteq job.des.views
      BY DesType DEF Des, FilteredDesired, Filtered, Desired, Safe, TypeOK
    <3>3. s.n \in ViewNames(job.des.views) BY <2>1, <3>2 DEF Entitled, ViewNames
    <3> QED BY <3>1, <3>3 DEF ViewNames
  <2>2. CASE s.op # "PutView"
    <3>1. db'.views = db.views BY <1>1, <1>2, <2>2 DEF With, Database
    <3> QED BY <3>1
  <2> QED BY <2>1, <2>2
<1>5. \A rows, rows2 : rows \subseteq rows2 => Gone(rows, rows2) = {} BY NoneGone
<1> QED BY <1>3, <1>4, <1>5 DEF ObjectsGone

(***************************************************************************)
(* A run takes a view, a foreign key, a CHECK, an index or a table out     *)
(* only as the drop policy allows it, whatever catalog its plan was made   *)
(* from and whatever has happened since.                                   *)
(***************************************************************************)
THEOREM ObjectDropsOptedIn == Spec => ObjectsOptedIn
<1>1. ASSUME Safe, [Next]_vars PROVE foreign' = foreign => ObjectsGone
  <2>1. CASE UNCHANGED <<db, cell>>
    <3>1. \A rows : Gone(rows, rows) = {} BY NoneGone
    <3> QED BY <2>1, <3>1 DEF ObjectsGone
  <2>2. ASSUME NEW s \in Statement, Run(s), Justified(Des, s), Permitted(job.allow, s),
               Scoped(job.shown, Des, s)
        PROVE  ObjectsGone
    <3>1. Entitled(Des, s) BY <2>2 DEF Scoped
    <3>2. \/ s.op \in {"DropTable", "RenameTable"}
          \/ s.op \in DropOps /\ s.op # "DropTable"
          \/ s.op \in {"RenameColumn", "RenameIndex"}
          \/ s.op \notin DropOps \cup RenameOps
      BY DEF DropOps, RenameOps
    <3> QED BY <1>1, <2>2, <3>1, <3>2, TableObjects, DroppedObjects, RenamedObjects, AddedObjects
  <2>3. foreign \in Nat BY <1>1, BoundAssumption DEF Safe, TypeOK
  <2> QED BY <1>1, <2>1, <2>2, <2>3, RunSteps
<1> QED BY <1>1, AlwaysSafe, PTL DEF Spec, ObjectsOptedIn

-----------------------------------------------------------------------------
(***************************************************************************)
(* Files the diff goes on accepting.                                       *)
(*                                                                         *)
(* Fit says of the files what the diff looks at only in a table that is    *)
(* there already: that the column directives of a table do not contradict  *)
(* each other or its columns.  And it leaves out the directives a run      *)
(* carries out in two statements, DROP and ADD (those of a CHECK and of a  *)
(* foreign key, and of an index that changes too), between which neither   *)
(* name exists.                                                            *)
(***************************************************************************)
Fit(des) ==
  /\ \A r \in des.renames : r.kind \in {"table", "column"}
  /\ \A t \in des.tables : SoundColumns(des, t)

(***************************************************************************)
(* What the diff needs of a schema, said of the tables themselves: of the  *)
(* two names of a directive exactly one is there, in the table that is, or *)
(* is to be renamed to, the one that declares it; and no circle of views.  *)
(***************************************************************************)
TablesAwait(d)  == OneOf(TableDirectives(Des), d.tables \cap job.shown)
ColumnsAwait(d) ==
  \A u \in d.tables \cap job.shown :
    OneOf(Directives(Des, "column", NewTable(Des, u)), NamesOf(d.cols, u))
ViewsAwait(d)   == ~Cyclic(ShownViews(d.views, job.shown))

Awaiting(d) == Rooted(d) /\ TablesAwait(d) /\ ColumnsAwait(d) /\ ViewsAwait(d)

(***************************************************************************)
(* The filtered schema, field by field.                                    *)
(***************************************************************************)
LEMMA FilteredIs ==
  ASSUME NEW d \in Database, NEW shown
  PROVE  /\ Filtered(d, shown).tables = d.tables \cap shown
         /\ Filtered(d, shown).cols = InTables(d.cols, shown)
         /\ Filtered(d, shown).views = ShownViews(d.views, shown)
BY DEF Filtered, Database, ShownViews

(***************************************************************************)
(* The tables of a schema after applyTableRenames, and their columns.      *)
(***************************************************************************)
LEMMA MovedTables ==
  ASSUME NEW d \in Database, NEW shown, NEW des, SoundTables(des)
  PROVE  RenamedTables(Filtered(d, shown), des).tables = {NewTable(des, u) : u \in d.tables \cap shown}
<1> DEFINE T == d.tables \cap shown
           rs == TableDirectives(des)
<1>1. RenamedTables(Filtered(d, shown), des).tables = {NewName(Effective(rs, T), u) : u \in T}
  BY FilteredIs DEF RenamedTables, Filtered, Database
<1>2. \A r, s \in rs : r.old = s.old => r = s BY DEF SoundTables
<1>3. ASSUME NEW u \in T PROVE NewName(Effective(rs, T), u) = NewTable(des, u)
  BY <1>2, EffectiveName DEF NewTable
<1> QED BY <1>1, <1>3

LEMMA MovedColumns ==
  ASSUME NEW d \in Database, Rooted(d), NEW shown, NEW des, SoundTables(des), NEW t
  PROVE  NamesOf(RenamedTables(Filtered(d, shown), des).cols, t) =
           UNION {NamesOf(d.cols, u) : u \in {x \in d.tables \cap shown : NewTable(des, x) = t}}
<1> DEFINE T == d.tables \cap shown
           rs == TableDirectives(des)
           cols == InTables(d.cols, shown)
           To(r) == [r EXCEPT !.t = NewName(Effective(rs, T), @)]
           moved == {To(r) : r \in cols}
<1>1. RenamedTables(Filtered(d, shown), des).cols = moved
  BY FilteredIs DEF RenamedTables, Filtered, Database
<1>2. \A r, s \in rs : r.old = s.old => r = s BY DEF SoundTables
<1>3. \A u \in T : NewName(Effective(rs, T), u) = NewTable(des, u)
  BY <1>2, EffectiveName DEF NewTable
<1>4. cols \subseteq ColumnRow /\ \A r \in cols : r.t \in T
  BY DEF InTables, Rooted, Database
<1>5. \A r \in cols : To(r).t = NewTable(des, r.t) /\ To(r).n = r.n
  BY <1>3, <1>4 DEF ColumnRow
<1> HIDE DEF To
<1>6. ASSUME NEW n PROVE n \in NamesOf(moved, t) <=> \E r \in cols : NewTable(des, r.t) = t /\ r.n = n
  BY <1>5 DEF NamesOf, Of
<1>7. ASSUME NEW n
      PROVE  (\E r \in cols : NewTable(des, r.t) = t /\ r.n = n) <=>
             \E u \in {x \in T : NewTable(des, x) = t} : n \in NamesOf(d.cols, u)
  BY <1>4 DEF NamesOf, Of, InTables
<1> HIDE DEF moved, cols, T
<1>8. NamesOf(moved, t) = UNION {NamesOf(d.cols, u) : u \in {x \in T : NewTable(des, x) = t}}
  BY <1>6, <1>7
<1> QED BY <1>1, <1>8 DEF T

(***************************************************************************)
(* At most one table stands for each declared one.                         *)
(***************************************************************************)
LEMMA OneSource ==
  ASSUME NEW des, Directed(des), SoundTables(des), NEW T, OneOf(TableDirectives(des), T),
         NEW u \in T, NEW v \in T, NewTable(des, u) = NewTable(des, v)
  PROVE  u = v
<1> DEFINE rs == TableDirectives(des)
<1>1. \A r, s \in rs : r.old = s.old => r = s BY DEF SoundTables
<1>2. \A r, s \in rs : r.new = s.new => r = s BY DEF Directed, TableDirectives
<1>3. ASSUME NEW x
      PROVE  NewTable(des, x) = x \/ \E r \in Asking(rs) : r.old = x /\ r.new = NewTable(des, x)
  <2>1. CASE \E r \in rs : r.old = x
    <3>1. PICK r \in rs : r.old = x BY <2>1
    <3>2. NewName(rs, r.old) = r.new BY <1>1, NewNameOf
    <3> QED BY <3>1, <3>2 DEF NewTable, Asking
  <2>2. CASE \A r \in rs : r.old # x BY <2>2, NewNameKept DEF NewTable
  <2> QED BY <2>1, <2>2
<1> HIDE DEF rs
<1>4. ASSUME NEW x \in T, NEW y \in T, NewTable(des, x) = y PROVE x = y
  BY <1>3, <1>4 DEF OneOf, rs
<1>5. CASE NewTable(des, u) = u BY <1>4, <1>5
<1>6. CASE NewTable(des, v) = v BY <1>4, <1>6
<1>7. CASE NewTable(des, u) # u /\ NewTable(des, v) # v
  <2>1. PICK r \in Asking(rs) : r.old = u /\ r.new = NewTable(des, u) BY <1>3, <1>7
  <2>2. PICK s \in Asking(rs) : s.old = v /\ s.new = NewTable(des, v) BY <1>3, <1>7
  <2>3. r = s BY <1>2, <2>1, <2>2 DEF Asking
  <2> QED BY <2>1, <2>2, <2>3
<1> QED BY <1>5, <1>6, <1>7

(***************************************************************************)
(* So applyColumnRenames finds in a declared table the columns of the one  *)
(* that stands for it.                                                     *)
(***************************************************************************)
LEMMA ColumnsFound ==
  ASSUME NEW d \in Database, Rooted(d), NEW shown, NEW des, Directed(des), SoundTables(des),
         OneOf(TableDirectives(des), d.tables \cap shown), NEW u \in d.tables \cap shown
  PROVE  NamesOf(RenamedTables(Filtered(d, shown), des).cols, NewTable(des, u)) = NamesOf(d.cols, u)
<1> DEFINE us == {x \in d.tables \cap shown : NewTable(des, x) = NewTable(des, u)}
<1>1. us = {u} BY OneSource
<1>2. UNION {NamesOf(d.cols, x) : x \in us} = NamesOf(d.cols, u) BY <1>1
<1>3. \A t : NamesOf(RenamedTables(Filtered(d, shown), des).cols, t) =
             UNION {NamesOf(d.cols, x) : x \in {y \in d.tables \cap shown : NewTable(des, y) = t}}
  BY MovedColumns
<1> QED BY <1>2, <1>3

(***************************************************************************)
(* Fit files are accepted for a schema if and only if it awaits them, once *)
(* they have been accepted for some schema.                                *)
(***************************************************************************)
LEMMA AcceptedAwaits ==
  ASSUME job \in Scenario, Fit(Des), NEW d \in Database, Rooted(d),
         ~Refused(Filtered(d, job.shown), Des)
  PROVE  Awaiting(d)
<1> DEFINE live == Filtered(d, job.shown)
           T == d.tables \cap job.shown
<1>1. Des \in Desired /\ Directed(Des) BY DesType
<1>2. SoundTables(Des) BY TablesSoundWhenPlanned
<1>3. TablesAwait(d)
  <2>1. ~RenameRefused(TableDirectives(Des), Des.tables, T) BY FilteredIs DEF Refused
  <2> QED BY <2>1, NotRefused DEF TablesAwait
<1>4. ViewsAwait(d) BY FilteredIs DEF Refused, ViewsAwait
<1>5. ColumnsAwait(d)
  <2>1. SUFFICES ASSUME NEW u \in T
                 PROVE  OneOf(Directives(Des, "column", NewTable(Des, u)), NamesOf(d.cols, u))
    BY DEF ColumnsAwait
  <2> DEFINE t == NewTable(Des, u)
             moved == RenamedTables(live, Des)
  <2>2. NamesOf(moved.cols, t) = NamesOf(d.cols, u) BY <1>1, <1>2, <1>3, ColumnsFound DEF TablesAwait
  <2>3. t \in moved.tables BY <1>2, MovedTables
  <2>4. CASE t \in Des.tables
    <3>1. ~RenameRefused(Directives(Des, "column", t), NamesOf(Des.cols, t), NamesOf(moved.cols, t))
      BY <2>3, <2>4 DEF Refused, NestedRefused
    <3>2. OneOf(Directives(Des, "column", t), NamesOf(moved.cols, t))
      <4> HIDE DEF moved, t
      <4> QED BY <3>1, NotRefused
    <3> QED BY <2>2, <3>2
  <2>5. CASE t \notin Des.tables
    <3>1. Directives(Des, "column", t) = {} BY <1>1, <2>5 DEF Directives, Directed
    <3> QED BY <3>1 DEF OneOf, Asking
  <2> QED BY <2>4, <2>5
<1> QED BY <1>3, <1>4, <1>5 DEF Awaiting

LEMMA AwaitedAccepts ==
  ASSUME job \in Scenario, Fit(Des), SoundTables(Des), ~Cyclic(Des.views),
         NEW d \in Database, Awaiting(d)
  PROVE  ~Refused(Filtered(d, job.shown), Des)
<1> DEFINE live == Filtered(d, job.shown)
           T == d.tables \cap job.shown
           moved == RenamedTables(live, Des)
<1>1. Des \in Desired /\ Directed(Des) BY DesType
<1>2. ~RenameRefused(TableDirectives(Des), Des.tables, live.tables)
  <2>1. OneOf(TableDirectives(Des), T) BY DEF Awaiting, TablesAwait
  <2>2. \A r \in Asking(TableDirectives(Des)) : r.old \notin Des.tables BY DEF SoundTables, Asking
  <2>3. \A r, s \in TableDirectives(Des) : r.old = s.old => r = s BY DEF SoundTables
  <2> HIDE DEF T
  <2>4. ~RenameRefused(TableDirectives(Des), Des.tables, T) BY <2>1, <2>2, <2>3, NotRefused
  <2> QED BY <2>4, FilteredIs DEF T
<1>3. ~Cyclic(live.views) BY FilteredIs DEF Awaiting, ViewsAwait
<1>4. ASSUME NEW t \in Des.tables \cap moved.tables PROVE ~NestedRefused(moved, Des, t)
  <2>1. PICK u \in T : t = NewTable(Des, u) BY MovedTables
  <2>2. NamesOf(moved.cols, t) = NamesOf(d.cols, u)
    BY <1>1, <2>1, ColumnsFound DEF Awaiting, TablesAwait
  <2>3. SoundColumns(Des, t) BY DEF Fit
  <2> DEFINE ds == Directives(Des, "column", t)
  <2>4. OneOf(ds, NamesOf(moved.cols, t)) BY <2>1, <2>2 DEF Awaiting, ColumnsAwait
  <2>5. \A r \in Asking(ds) : r.old \notin NamesOf(Des.cols, t)
    BY <2>3 DEF SoundColumns, Asking, NamesOf, Of, Holds
  <2>6. \A r, s \in ds : r.old = s.old => r = s BY <2>3 DEF SoundColumns
  <2> HIDE DEF moved
  <2>7. ~RenameRefused(ds, NamesOf(Des.cols, t), NamesOf(moved.cols, t))
    <3> HIDE DEF ds
    <3> QED BY <2>4, <2>5, <2>6, NotRefused
  <2>8. \A kind \in {"index", "constraint", "foreign_key"} : Directives(Des, kind, t) = {}
    BY DEF Fit, Directives
  <2>9. \A declared, present : ~RenameRefused({}, declared, present) BY DEF RenameRefused
  <2> QED BY <2>7, <2>8, <2>9 DEF NestedRefused
<1> HIDE DEF live, moved
<1> QED BY <1>2, <1>3, <1>4 DEF Refused, live, moved

-----------------------------------------------------------------------------
(***************************************************************************)
(* What a statement does to the tables, to the columns, and to the views.  *)
(***************************************************************************)
LEMMA TableEffect ==
  ASSUME NEW d \in Database, NEW s, NEW text
  PROVE  Effect(d, s, text).tables =
           CASE s.op = "DropTable"   -> d.tables \ {s.t}
             [] s.op = "RenameTable" -> (d.tables \ {s.t}) \cup {s.to}
             [] s.op = "CreateTable" -> d.tables \cup {s.t}
             [] OTHER                -> d.tables
<1>1. CASE s.op \in DropOps
  <2>1. Effect(d, s, text) = Without(d, s) BY <1>1, OneEffect
  <2> QED BY <1>1, <2>1 DEF Without, Database, DropOps
<1>2. CASE s.op \in RenameOps
  <2>1. Effect(d, s, text) = Renamed(d, s) BY <1>2, OneEffect
  <2> QED BY <1>2, <2>1 DEF Renamed, Database, RenameOps
<1>3. CASE s.op \notin DropOps \cup RenameOps
  <2>1. Effect(d, s, text) = With(d, s, text) BY <1>3, OneEffect
  <2> QED BY <1>3, <2>1 DEF With, Database, RenameOps, DropOps
<1> QED BY <1>1, <1>2, <1>3

LEMMA ColumnEffect ==
  ASSUME NEW d \in Database, NEW s, NEW text
  PROVE  Effect(d, s, text).cols =
           CASE s.op = "DropTable"    -> Except(d.cols, s.t)
             [] s.op = "DropColumn"   -> Drop(d.cols, s.t, s.n)
             [] s.op = "RenameTable"  -> MoveRows(d.cols, s.t, s.to)
             [] s.op = "RenameColumn" -> RenameRows(d.cols, s.t, s.n, s.to)
             [] s.op = "CreateTable"  -> d.cols \cup Of(text.cols, s.t)
             [] s.op \in {"AddColumn", "ModifyColumn"} ->
                  Drop(d.cols, s.t, s.n) \cup The(text.cols, s.t, s.n)
             [] OTHER                 -> d.cols
<1>1. CASE s.op \in DropOps
  <2>1. Effect(d, s, text) = Without(d, s) BY <1>1, OneEffect
  <2> QED BY <1>1, <2>1 DEF Without, Database, DropOps
<1>2. CASE s.op \in RenameOps
  <2>1. Effect(d, s, text) = Renamed(d, s) BY <1>2, OneEffect
  <2> QED BY <1>2, <2>1 DEF Renamed, Database, RenameOps
<1>3. CASE s.op \notin DropOps \cup RenameOps
  <2>1. Effect(d, s, text) = With(d, s, text) BY <1>3, OneEffect
  <2> QED BY <1>3, <2>1 DEF With, Database, RenameOps, DropOps
<1> QED BY <1>1, <1>2, <1>3

LEMMA ViewEffect ==
  ASSUME NEW d \in Database, NEW s, NEW text
  PROVE  Effect(d, s, text).views =
           CASE s.op = "DropView" -> {r \in d.views : r.n # s.n}
             [] s.op = "PutView"  -> {r \in d.views : r.n # s.n} \cup {r \in text.views : r.n = s.n}
             [] OTHER             -> d.views
<1>1. CASE s.op \in DropOps
  <2>1. Effect(d, s, text) = Without(d, s) BY <1>1, OneEffect
  <2> QED BY <1>1, <2>1 DEF Without, Database, DropOps
<1>2. CASE s.op \in RenameOps
  <2>1. Effect(d, s, text) = Renamed(d, s) BY <1>2, OneEffect
  <2> QED BY <1>2, <2>1 DEF Renamed, Database, RenameOps
<1>3. CASE s.op \notin DropOps \cup RenameOps
  <2>1. Effect(d, s, text) = With(d, s, text) BY <1>3, OneEffect
  <2> QED BY <1>3, <2>1 DEF With, Database, RenameOps, DropOps
<1> QED BY <1>1, <1>2, <1>3

(***************************************************************************)
(* The columns of a table after each statement that has to do with some.   *)
(***************************************************************************)
LEMMA NamesKept ==
  ASSUME NEW cols, NEW t, NEW u, u # t
  PROVE  NamesOf(Except(cols, t), u) = NamesOf(cols, u)
BY DEF NamesOf, Of, Except

LEMMA NamesLeft ==
  ASSUME NEW cols, NEW t, NEW n, NEW u
  PROVE  NamesOf(Drop(cols, t, n), u) = IF u = t THEN NamesOf(cols, u) \ {n} ELSE NamesOf(cols, u)
BY DEF NamesOf, Of, Drop

LEMMA NamesMoved ==
  ASSUME NEW cols \in SUBSET ColumnRow, NEW t, NEW to, NEW u
  PROVE  /\ u \notin {t, to} => NamesOf(MoveRows(cols, t, to), u) = NamesOf(cols, u)
         /\ NamesOf(cols, to) = {} => NamesOf(MoveRows(cols, t, to), to) = NamesOf(cols, t)
<1> DEFINE M(r) == [r EXCEPT !.t = Swap(@, t, to)]
<1>1. \A r \in cols : M(r).t = Swap(r.t, t, to) /\ M(r).n = r.n BY DEF ColumnRow
<1>2. MoveRows(cols, t, to) = {M(r) : r \in cols} BY DEF MoveRows
<1> HIDE DEF M
<1> QED BY <1>1, <1>2 DEF NamesOf, Of, Swap

LEMMA NamesElsewhere ==
  ASSUME NEW cols \in SUBSET ColumnRow, NEW t, NEW n, NEW to, NEW u, u # t
  PROVE  NamesOf(RenameRows(cols, t, n, to), u) = NamesOf(cols, u)
<1> DEFINE R(r) == IF r.t = t THEN [r EXCEPT !.n = Swap(@, n, to)] ELSE r
<1>1. \A r \in cols : R(r).t = r.t /\ R(r).n = IF r.t = t THEN Swap(r.n, n, to) ELSE r.n
  BY DEF ColumnRow
<1>2. RenameRows(cols, t, n, to) = {R(r) : r \in cols} BY DEF RenameRows
<1> HIDE DEF R
<1> QED BY <1>1, <1>2 DEF NamesOf, Of

LEMMA NamesRenamed ==
  ASSUME NEW cols \in SUBSET ColumnRow, NEW t, NEW n, NEW to, n \in NamesOf(cols, t)
  PROVE  NamesOf(RenameRows(cols, t, n, to), t) = (NamesOf(cols, t) \ {n}) \cup {to}
<1> DEFINE R(r) == IF r.t = t THEN [r EXCEPT !.n = Swap(@, n, to)] ELSE r
<1>1. \A r \in cols : R(r).t = r.t /\ R(r).n = IF r.t = t THEN Swap(r.n, n, to) ELSE r.n
  BY DEF ColumnRow
<1>2. RenameRows(cols, t, n, to) = {R(r) : r \in cols} BY DEF RenameRows
<1> HIDE DEF R
<1> QED BY <1>1, <1>2 DEF NamesOf, Of, Swap

LEMMA NamesJoined ==
  ASSUME NEW x, NEW y, NEW u
  PROVE  NamesOf(x \cup y, u) = NamesOf(x, u) \cup NamesOf(y, u)
BY DEF NamesOf, Of

LEMMA NamesTaken ==
  ASSUME NEW x, NEW t, NEW n, NEW u
  PROVE  /\ NamesOf(Of(x, t), u) = IF u = t THEN NamesOf(x, u) ELSE {}
         /\ NamesOf(The(x, t, n), u) = IF u = t THEN NamesOf(x, u) \cap {n} ELSE {}
BY DEF NamesOf, Of, The

(***************************************************************************)
(* The filtered files hold all that the files as written say of a shown    *)
(* name.                                                                   *)
(***************************************************************************)
LEMMA TextShown ==
  ASSUME job \in Scenario
  PROVE  /\ Des.tables = job.des.tables \cap job.shown
         /\ \A t \in job.shown : NamesOf(job.des.cols, t) = NamesOf(Des.cols, t)
<1>1. job.des \in Desired BY DesType
<1>2. Des.tables = job.des.tables \cap job.shown /\ Des.cols = InTables(job.des.cols, job.shown)
  BY <1>1 DEF Des, FilteredDesired, Filtered, Desired
<1> QED BY <1>2 DEF InTables, NamesOf, Of

(***************************************************************************)
(* What the files say of the sources and destinations of their directives. *)
(***************************************************************************)
LEMMA DirectedNames ==
  ASSUME job \in Scenario, Fit(Des), SoundTables(Des)
  PROVE  /\ \A r \in Asking(TableDirectives(Des)) : r.new \in Des.tables /\ r.old \notin Des.tables
         /\ \A r, s \in TableDirectives(Des) : r.old = s.old \/ r.new = s.new => r = s
         /\ \A t \in Des.tables : \A r \in Asking(Directives(Des, "column", t)) :
              r.new \in NamesOf(Des.cols, t) /\ r.old \notin NamesOf(Des.cols, t)
         /\ \A t \in Des.tables : \A r, s \in Directives(Des, "column", t) :
              r.old = s.old \/ r.new = s.new => r = s
         /\ \A t \in Des.tables : NewTable(Des, t) = t
<1>1. Directed(Des) BY DesType
<1>2. \A t \in Des.tables : SoundColumns(Des, t) BY DEF Fit
<1>3. \A t, n : n \in NamesOf(Des.cols, t) <=> Holds(Des.cols, t, n) BY DEF NamesOf, Of, Holds
<1>4. \A r \in Asking(TableDirectives(Des)) : r.new \in Des.tables /\ r.old \notin Des.tables
  BY <1>1 DEF SoundTables, Directed, TableDirectives, Asking
<1>5. \A r, s \in TableDirectives(Des) : r.old = s.old \/ r.new = s.new => r = s
  BY <1>1 DEF SoundTables, Directed, TableDirectives
<1>6. \A t \in Des.tables : \A r \in Asking(Directives(Des, "column", t)) :
        r.new \in NamesOf(Des.cols, t) /\ r.old \notin NamesOf(Des.cols, t)
  BY <1>1, <1>2, <1>3 DEF SoundColumns, Directed, Directives, Asking
<1>7. \A t \in Des.tables : \A r, s \in Directives(Des, "column", t) :
        r.old = s.old \/ r.new = s.new => r = s
  BY <1>1, <1>2 DEF SoundColumns, Directed, Directives
<1> QED BY <1>4, <1>5, <1>6, <1>7, ClaimedUnrenamed

(***************************************************************************)
(* The statements of a run leave no column without its table.              *)
(***************************************************************************)
LEMMA RunRooted ==
  ASSUME NEW d \in Database, Rooted(d), NEW s \in Statement, NEW text, Accepts(d, s, text)
  PROVE  Rooted(Effect(d, s, text))
<1> DEFINE d2 == Effect(d, s, text)
<1>1. \A r \in d.cols : r.t \in d.tables BY DEF Rooted
<1>2. d.cols \subseteq ColumnRow BY DEF Database
<1>3. CASE s.op = "DropTable"
  <2>1. d2.tables = d.tables \ {s.t} /\ d2.cols = Except(d.cols, s.t)
    BY <1>3, TableEffect, ColumnEffect
  <2> QED BY <1>1, <2>1 DEF Rooted, Except
<1>4. CASE s.op = "DropColumn"
  <2>1. d2.tables = d.tables /\ d2.cols = Drop(d.cols, s.t, s.n)
    BY <1>4, TableEffect, ColumnEffect
  <2> QED BY <1>1, <2>1 DEF Rooted, Drop
<1>5. CASE s.op = "RenameTable"
  <2>1. d2.tables = (d.tables \ {s.t}) \cup {s.to} /\ d2.cols = MoveRows(d.cols, s.t, s.to)
    BY ZenonT(30), <1>5, TableEffect, ColumnEffect
  <2>2. \A r \in d.cols : [r EXCEPT !.t = Swap(@, s.t, s.to)].t = Swap(r.t, s.t, s.to)
    BY <1>2 DEF ColumnRow
  <2>3. \A r \in d2.cols : \E x \in d.cols : r.t = Swap(x.t, s.t, s.to)
    BY <2>1, <2>2 DEF MoveRows
  <2> QED BY <1>1, <2>1, <2>3 DEF Rooted, Swap
<1>6. CASE s.op = "RenameColumn"
  <2>1. d2.tables = d.tables /\ d2.cols = RenameRows(d.cols, s.t, s.n, s.to)
    BY ZenonT(30), <1>6, TableEffect, ColumnEffect
  <2>2. \A r \in d.cols : (IF r.t = s.t THEN [r EXCEPT !.n = Swap(@, s.n, s.to)] ELSE r).t = r.t
    BY <1>2 DEF ColumnRow
  <2>3. \A r \in d2.cols : \E x \in d.cols : r.t = x.t BY <2>1, <2>2 DEF RenameRows
  <2> QED BY <1>1, <2>1, <2>3 DEF Rooted
<1>7. CASE s.op = "CreateTable"
  <2>1. d2.tables = d.tables \cup {s.t} /\ d2.cols = d.cols \cup Of(text.cols, s.t)
    BY ZenonT(30), <1>7, TableEffect, ColumnEffect
  <2> QED BY <1>1, <2>1 DEF Rooted, Of
<1>8. CASE s.op \in {"AddColumn", "ModifyColumn"}
  <2>1. d2.tables = d.tables /\ d2.cols = Drop(d.cols, s.t, s.n) \cup The(text.cols, s.t, s.n)
    BY ZenonT(30), <1>8, TableEffect, ColumnEffect
  <2>2. s.t \in d.tables BY <1>1, <1>8 DEF Accepts, AcceptsCreate, Holds
  <2> QED BY <1>1, <2>1, <2>2 DEF Rooted, The, Drop
<1>9. CASE s.op \notin {"DropTable", "DropColumn", "RenameTable", "RenameColumn", "CreateTable",
                        "AddColumn", "ModifyColumn"}
  <2>1. d2.tables = d.tables /\ d2.cols = d.cols BY <1>9, TableEffect, ColumnEffect
  <2> QED BY <1>1, <2>1 DEF Rooted
<1> QED BY <1>3, <1>4, <1>5, <1>6, <1>7, <1>8, <1>9

(***************************************************************************)
(* They keep exactly one of the names of every table directive.            *)
(***************************************************************************)
LEMMA RunTablesAwait ==
  ASSUME job \in Scenario, Fit(Des), SoundTables(Des), NEW d \in Database, NEW s \in Statement,
         NEW text, Accepts(d, s, text), Justified(Des, s), Additive(Des, s),
         Scoped(job.shown, Des, s), TablesAwait(d)
  PROVE  TablesAwait(Effect(d, s, text))
<1> DEFINE d2 == Effect(d, s, text)
           rs == TableDirectives(Des)
<1>1. \A r \in Asking(rs) : (r.old \in d.tables \cap job.shown) # (r.new \in d.tables \cap job.shown)
  BY DEF TablesAwait, OneOf
<1>2. \A r \in Asking(rs) : r \in rs /\ r.new \in Des.tables /\ r.old \notin Des.tables
  BY DirectedNames DEF Asking
<1>3. Des.tables \subseteq job.shown BY TextShown
<1>4. SUFFICES ASSUME NEW r \in Asking(rs)
               PROVE  (r.old \in d2.tables \cap job.shown) # (r.new \in d2.tables \cap job.shown)
  BY DEF TablesAwait, OneOf
<1>5. CASE s.op = "DropTable"
  <2>1. d2.tables = d.tables \ {s.t} BY <1>5, TableEffect
  <2>2. s.t # r.new /\ s.t # r.old BY <1>2, <1>5 DEF Justified
  <2> QED BY <1>1, <2>1, <2>2
<1>6. CASE s.op = "RenameTable"
  <2>1. d2.tables = (d.tables \ {s.t}) \cup {s.to} BY <1>6, TableEffect
  <2>2. PICK x \in rs : x.old = s.t /\ x.new = s.to /\ x.old # x.new BY <1>6 DEF Justified
  <2>3. x \in Asking(rs) BY <2>2 DEF Asking
  <2>4. s.t \in job.shown /\ s.to \in job.shown BY <1>6 DEF Scoped, Visible
  <2>5. r # x => r.old \notin {s.t, s.to} /\ r.new \notin {s.t, s.to}
    BY <1>2, <2>2, <2>3, DirectedNames
  <2> QED BY <1>1, <2>1, <2>2, <2>4, <2>5
<1>7. CASE s.op = "CreateTable"
  <2>1. d2.tables = d.tables \cup {s.t} BY <1>7, TableEffect
  <2>2. s.t # r.new /\ s.t # r.old BY <1>2, <1>7 DEF Additive
  <2> QED BY <1>1, <2>1, <2>2
<1>8. CASE s.op \notin {"DropTable", "RenameTable", "CreateTable"}
  <2>1. d2.tables = d.tables BY <1>8, TableEffect
  <2> QED BY <1>1, <2>1
<1> QED BY <1>5, <1>6, <1>7, <1>8

(***************************************************************************)
(* And exactly one of the names of every column directive, in every table  *)
(* that stands for the one that declares it.                               *)
(***************************************************************************)
LEMMA RunColumnsAwait ==
  ASSUME job \in Scenario, Fit(Des), SoundTables(Des), NEW d \in Database, NEW s \in Statement,
         Accepts(d, s, job.des), Justified(Des, s), Additive(Des, s),
         Scoped(job.shown, Des, s), Rooted(d), ColumnsAwait(d)
  PROVE  ColumnsAwait(Effect(d, s, job.des))
<1> DEFINE after == Effect(d, s, job.des)
           tables2 == after.tables
           cols2 == after.cols
           rs(u) == Directives(Des, "column", NewTable(Des, u))
<1>1. \A u \in d.tables \cap job.shown : OneOf(rs(u), NamesOf(d.cols, u)) BY DEF ColumnsAwait
<1>2. SUFFICES ASSUME NEW u \in tables2 \cap job.shown
               PROVE  OneOf(rs(u), NamesOf(cols2, u))
  BY DEF ColumnsAwait
<1>3. d.cols \in SUBSET ColumnRow BY DEF Database
<1>17. tables2 = CASE s.op = "DropTable"   -> d.tables \ {s.t}
                  [] s.op = "RenameTable" -> (d.tables \ {s.t}) \cup {s.to}
                  [] s.op = "CreateTable" -> d.tables \cup {s.t}
                  [] OTHER                -> d.tables
  BY TableEffect
<1>18. cols2 = CASE s.op = "DropTable"    -> Except(d.cols, s.t)
                [] s.op = "DropColumn"   -> Drop(d.cols, s.t, s.n)
                [] s.op = "RenameTable"  -> MoveRows(d.cols, s.t, s.to)
                [] s.op = "RenameColumn" -> RenameRows(d.cols, s.t, s.n, s.to)
                [] s.op = "CreateTable"  -> d.cols \cup Of(job.des.cols, s.t)
                [] s.op \in {"AddColumn", "ModifyColumn"} ->
                     Drop(d.cols, s.t, s.n) \cup The(job.des.cols, s.t, s.n)
                [] OTHER                 -> d.cols
  BY ColumnEffect
<1>4. ASSUME NEW t, t \notin d.tables PROVE NamesOf(d.cols, t) = {}
  BY <1>4 DEF Rooted, NamesOf, Of
<1>5. \A t \in Des.tables : rs(t) = Directives(Des, "column", t) BY DirectedNames
<1>6. \A t \in Des.tables : \A r \in Asking(rs(t)) :
        r \in rs(t) /\ r.new \in NamesOf(Des.cols, t) /\ r.old \notin NamesOf(Des.cols, t)
  BY <1>5, DirectedNames DEF Asking
<1>7. \A t, n : n \in NamesOf(Des.cols, t) <=> Holds(Des.cols, t, n) BY DEF NamesOf, Of, Holds
<1>8. \A t, n : n \in NamesOf(d.cols, t) <=> Holds(d.cols, t, n) BY DEF NamesOf, Of, Holds
<1> HIDE DEF rs, tables2, cols2
<1>9. ASSUME u \in d.tables, NamesOf(cols2, u) = NamesOf(d.cols, u)
      PROVE  OneOf(rs(u), NamesOf(cols2, u))
  BY <1>1, <1>9
<1>10. CASE s.op = "DropTable"
  <2>1. tables2 = d.tables \ {s.t} /\ cols2 = Except(d.cols, s.t)
    BY <1>10, <1>17, <1>18
  <2>2. u # s.t /\ u \in d.tables BY <2>1
  <2>3. NamesOf(cols2, u) = NamesOf(d.cols, u) BY <2>1, <2>2, NamesKept
  <2> QED BY <1>9, <2>2, <2>3
<1>11. CASE s.op = "DropColumn"
  <2>1. tables2 = d.tables /\ cols2 = Drop(d.cols, s.t, s.n)
    BY <1>11, <1>17, <1>18
  <2>2. CASE u # s.t BY <1>9, <2>1, <2>2, NamesLeft
  <2>3. CASE u = s.t
    <3>1. NamesOf(cols2, u) = NamesOf(d.cols, u) \ {s.n} BY <2>1, <2>3, NamesLeft
    <3>2. u \in Des.tables /\ s.n \notin NamesOf(Des.cols, u) /\ \A r \in rs(u) : r.old # s.n
      BY <1>5, <1>7, <1>11, <2>3 DEF Justified
    <3>3. \A r \in Asking(rs(u)) : r.old # s.n /\ r.new # s.n BY <1>6, <3>2
    <3> QED BY <1>1, <2>1, <3>1, <3>3 DEF OneOf
  <2> QED BY <2>2, <2>3
<1>12. CASE s.op = "RenameTable"
  <2>1. tables2 = (d.tables \ {s.t}) \cup {s.to} /\ cols2 = MoveRows(d.cols, s.t, s.to)
    BY <1>12, <1>17, <1>18
  <2>2. s.t \in d.tables /\ s.to \notin d.tables
    BY <1>12 DEF Accepts, AcceptsRename, Relations
  <2>3. CASE u # s.to BY <1>9, <2>1, <2>3, <1>3, NamesMoved
  <2>4. CASE u = s.to
    <3>1. NamesOf(cols2, u) = NamesOf(d.cols, s.t) BY <1>4, <2>1, <2>2, <2>4, <1>3, NamesMoved
    <3>2. PICK x \in TableDirectives(Des) : x.old = s.t /\ x.new = s.to /\ x.old # x.new
      BY <1>12 DEF Justified
    <3>3. s.to \in Des.tables BY <3>2, DirectedNames DEF Asking
    <3>4. NewName(TableDirectives(Des), x.old) = x.new BY NewNameOf, DirectedNames
    <3>5. NewTable(Des, s.t) = s.to /\ NewTable(Des, s.to) = s.to
      BY <3>2, <3>3, <3>4, DirectedNames DEF NewTable
    <3>6. rs(u) = rs(s.t) BY <2>4, <3>5 DEF rs
    <3>7. s.t \in job.shown BY <1>12 DEF Scoped, Visible
    <3> QED BY <1>1, <2>2, <3>1, <3>6, <3>7
  <2> QED BY <2>3, <2>4
<1>13. CASE s.op = "RenameColumn"
  <2>1. tables2 = d.tables /\ cols2 = RenameRows(d.cols, s.t, s.n, s.to)
    BY <1>13, <1>17, <1>18
  <2>2. CASE u # s.t
    <3>1. NamesOf(cols2, u) = NamesOf(d.cols, u) BY <1>3, <2>1, <2>2, NamesElsewhere
    <3> QED BY <1>9, <2>1, <3>1
  <2>3. CASE u = s.t
    <3>1. u \in Des.tables BY <1>13, <2>3 DEF Justified
    <3>2. s.n \in NamesOf(d.cols, u) /\ s.to \notin NamesOf(d.cols, u)
      BY <1>8, <1>13, <2>3 DEF Accepts, AcceptsRename
    <3>3. NamesOf(cols2, u) = (NamesOf(d.cols, u) \ {s.n}) \cup {s.to}
      BY <2>1, <2>3, <3>2, <1>3, NamesRenamed
    <3>4. PICK x \in rs(u) : x.old = s.n /\ x.new = s.to /\ x.old # x.new
      BY <1>5, <1>13, <2>3, <3>1 DEF Justified
    <3>5. x \in Asking(rs(u)) BY <3>4 DEF Asking
    <3>6. ASSUME NEW r \in Asking(rs(u)), r # x
          PROVE  r.old \notin {s.n, s.to} /\ r.new \notin {s.n, s.to}
      <4>1. r.old # x.old /\ r.new # x.new
        BY <1>5, <1>6, <3>1, <3>6, DirectedNames
      <4> QED BY <1>6, <3>1, <3>4, <3>5, <4>1
    <3> QED BY <1>1, <2>1, <3>2, <3>3, <3>4, <3>6 DEF OneOf
  <2> QED BY <2>2, <2>3
<1>14. CASE s.op = "CreateTable"
  <2>1. tables2 = d.tables \cup {s.t} /\ cols2 = d.cols \cup Of(job.des.cols, s.t)
    BY <1>14, <1>17, <1>18
  <2>2. s.t \notin d.tables /\ s.t \in job.shown /\ s.t \in Des.tables
    BY <1>14 DEF Accepts, AcceptsCreate, Relations, Scoped, Visible, Additive
  <2>3. NamesOf(cols2, u) = NamesOf(d.cols, u) \cup NamesOf(Of(job.des.cols, s.t), u)
    BY <2>1, NamesJoined, NamesTaken
  <2>4. NamesOf(Of(job.des.cols, s.t), u) = IF u = s.t THEN NamesOf(job.des.cols, u) ELSE {}
    BY NamesJoined, NamesTaken
  <2>5. CASE u # s.t BY <1>9, <2>1, <2>3, <2>4, <2>5
  <2>6. CASE u = s.t
    <3>1. NamesOf(cols2, u) = NamesOf(Des.cols, u)
      BY <1>4, <2>2, <2>3, <2>4, <2>6, TextShown
    <3> QED BY <1>6, <2>2, <2>6, <3>1 DEF OneOf
  <2> QED BY <2>5, <2>6
<1>15. CASE s.op \in {"AddColumn", "ModifyColumn"}
  <2>1. tables2 = d.tables /\ cols2 = Drop(d.cols, s.t, s.n) \cup The(job.des.cols, s.t, s.n)
    BY <1>15, <1>17, <1>18
  <2>2. NamesOf(cols2, u) = NamesOf(Drop(d.cols, s.t, s.n), u)
                                \cup NamesOf(The(job.des.cols, s.t, s.n), u)
    BY <2>1, NamesLeft, NamesJoined, NamesTaken
  <2>3. NamesOf(The(job.des.cols, s.t, s.n), u) =
          IF u = s.t THEN NamesOf(job.des.cols, u) \cap {s.n} ELSE {}
    BY ZenonT(90), NamesLeft, NamesJoined, NamesTaken
  <2>4. NamesOf(Drop(d.cols, s.t, s.n), u) =
          IF u = s.t THEN NamesOf(d.cols, u) \ {s.n} ELSE NamesOf(d.cols, u)
    BY NamesLeft
  <2>5. CASE u # s.t BY <1>9, <2>1, <2>2, <2>3, <2>4, <2>5
  <2>6. CASE u = s.t
    <3>1. s.t \in Des.tables /\ s.n \in NamesOf(Des.cols, s.t) /\ s.t \in job.shown
      BY <1>7, <1>15 DEF Additive, Scoped, Visible
    <3>2. NamesOf(cols2, u) = (NamesOf(d.cols, u) \ {s.n}) \cup {s.n}
      BY <2>2, <2>3, <2>4, <2>6, <3>1, TextShown
    <3>3. CASE s.op = "ModifyColumn"
      <4>1. s.n \in NamesOf(d.cols, u) BY <1>8, <2>6, <3>3 DEF Accepts, AcceptsCreate
      <4> QED BY <1>9, <2>1, <3>2, <4>1
    <3>4. CASE s.op = "AddColumn"
      <4>1. \A r \in Asking(rs(u)) : r.new # s.n BY <1>5, <2>6, <3>1, <3>4 DEF Additive
      <4>2. \A r \in Asking(rs(u)) : r.old # s.n BY <1>6, <2>6, <3>1
      <4>3. OneOf(rs(u), NamesOf(d.cols, u)) BY <1>1, <2>1
      <4> QED BY <3>2, <4>1, <4>2, <4>3 DEF OneOf
    <3> QED BY <1>15, <3>3, <3>4
  <2> QED BY <2>5, <2>6
<1>16. CASE s.op \notin {"DropTable", "DropColumn", "RenameTable", "RenameColumn", "CreateTable",
                         "AddColumn", "ModifyColumn"}
  <2>1. tables2 = d.tables /\ cols2 = d.cols BY <1>16, <1>17, <1>18
  <2> QED BY <1>9, <2>1
<1> QED BY <1>10, <1>11, <1>12, <1>13, <1>14, <1>15, <1>16

(***************************************************************************)
(* A view put closes no circle among the shown ones, for it reads none     *)
(* that depends on it: those of a circle that do not depend on it would    *)
(* have been one without it, and when all depend on it the one it reads    *)
(* itself does.                                                            *)
(***************************************************************************)
LEMMA RunPutsView ==
  ASSUME NEW d \in Database, NEW s \in Statement, s.op = "PutView", NEW text, Accepts(d, s, text),
         NEW shown, ~Cyclic(ShownViews(d.views, shown))
  PROVE  ~Cyclic(ShownViews(Effect(d, s, text).views, shown))
<1> DEFINE views == d.views
           x == s.n
           put == {r \in text.views : r.n = x}
           after == {r \in views : r.n # x} \cup put
<1>13. With(d, s, text).views = after BY DEF With, Database
<1>14. Effect(d, s, text).views = after BY ViewEffect
<1>15. \A r \in put : /\ r.n = x
                      /\ \A v \in r.from \cap ViewNames(after) : ~Depends(after, v, x)
  BY <1>13 DEF Accepts, AcceptsCreate
<1>16. after = {r \in views : r.n # x} \cup put OBVIOUS
<1>17. ~Cyclic(ShownViews(views, shown)) OBVIOUS
<1> HIDE DEF put, after, views, x
<1> DEFINE old == ShownViews(views, shown)
           new == ShownViews(after, shown)
<1>1. SUFFICES ASSUME NEW U \in SUBSET ViewNames(new) \ {{}},
                      \A v \in U : \E w \in U : Reads(new, v, w)
               PROVE  FALSE
  BY <1>14 DEF Cyclic
<1> DEFINE T == {v \in U : ~Depends(after, v, x)}
<1>2. U \subseteq ViewNames(after) BY DEF ViewNames, ShownViews
<1>3. \A v, w : Reads(new, v, w) => Reads(after, v, w) BY DEF Reads, ShownViews
<1>4. x \notin T BY DependsOnItself
<1>5. ASSUME NEW v \in T PROVE \E w \in T : Reads(new, v, w)
  <2>1. PICK w \in U : Reads(new, v, w) BY <1>1
  <2>2. ~Depends(after, w, x) BY <1>2, <1>3, <2>1, DependsThrough
  <2> QED BY <2>1, <2>2
<1>6. \A v, w : v # x /\ Reads(new, v, w) => Reads(old, v, w) BY <1>15, <1>16 DEF Reads, ShownViews
<1>7. T \subseteq ViewNames(old) BY <1>4, <1>15, <1>16 DEF ViewNames, ShownViews
<1>8. T = {}
  <2>1. \A v \in T : \E w \in T : Reads(old, v, w) BY <1>4, <1>5, <1>6
  <2> HIDE DEF T, old
  <2> QED BY <1>7, <1>17, <2>1 DEF Cyclic, old
<1>9. x \in U
  <2>1. SUFFICES ASSUME x \notin U PROVE FALSE OBVIOUS
  <2>2. U \subseteq ViewNames(old) BY <1>15, <1>16, <2>1 DEF ViewNames, ShownViews
  <2>3. \A v \in U : \E w \in U : Reads(old, v, w) BY <1>1, <1>6, <2>1
  <2> HIDE DEF old
  <2> QED BY <1>1, <1>17, <2>2, <2>3 DEF Cyclic, old
<1>10. PICK w \in U : Reads(new, x, w) BY <1>1, <1>9
<1>11. PICK r \in put : r.n = x /\ w \in r.from BY <1>10, <1>16 DEF Reads, ShownViews
<1>12. w \in T BY <1>2, <1>10, <1>11, <1>15
<1> QED BY <1>8, <1>12

(***************************************************************************)
(* And close no circle of shown views.                                     *)
(***************************************************************************)
LEMMA RunViewsAwait ==
  ASSUME NEW d \in Database, NEW s \in Statement, Accepts(d, s, job.des), ViewsAwait(d)
  PROVE  ViewsAwait(Effect(d, s, job.des))
<1> DEFINE d2 == Effect(d, s, job.des)
<1>1. CASE s.op = "DropView"
  <2>1. d2.views = {r \in d.views : r.n # s.n} BY <1>1, ViewEffect
  <2>2. ShownViews(d2.views, job.shown) \subseteq ShownViews(d.views, job.shown)
    BY <2>1 DEF ShownViews
  <2> QED BY <2>2, FewerViews DEF ViewsAwait
<1>2. CASE s.op = "PutView" BY <1>2, RunPutsView DEF ViewsAwait
<1>3. CASE s.op \notin {"DropView", "PutView"}
  <2>1. d2.views = d.views BY <1>3, ViewEffect
  <2> QED BY <2>1 DEF ViewsAwait
<1> QED BY <1>1, <1>2, <1>3

(***************************************************************************)
(* A statement of a run leaves the schema awaiting the files.              *)
(***************************************************************************)
LEMMA RunAwaits ==
  ASSUME job \in Scenario, Fit(Des), SoundTables(Des), NEW d \in Database, NEW s \in Statement,
         Accepts(d, s, job.des), Justified(Des, s), Additive(Des, s),
         Scoped(job.shown, Des, s), Awaiting(d)
  PROVE  Awaiting(Effect(d, s, job.des))
<1>1. Rooted(d) /\ TablesAwait(d) /\ ColumnsAwait(d) /\ ViewsAwait(d) BY DEF Awaiting
<1>2. Rooted(Effect(d, s, job.des)) BY <1>1, RunRooted
<1>3. TablesAwait(Effect(d, s, job.des)) BY <1>1, RunTablesAwait
<1>4. ColumnsAwait(Effect(d, s, job.des)) BY <1>1, RunColumnsAwait
<1>5. ViewsAwait(Effect(d, s, job.des)) BY <1>1, RunViewsAwait
<1> QED BY <1>2, <1>3, <1>4, <1>5 DEF Awaiting

(***************************************************************************)
(* The files are fit, and the first schema had them accepted.              *)
(***************************************************************************)
Accepted == Fit(Des) /\ ~Refused(Filtered(job.db, job.shown), Des)

(***************************************************************************)
(* The inductive invariant: as long as nobody else has changed the schema  *)
(* it awaits them.                                                         *)
(***************************************************************************)
StillAwaiting == Accepted /\ Undisturbed => Awaiting(db)

LEMMA AcceptedSound ==
  ASSUME job \in Scenario, Accepted
  PROVE  SoundTables(Des) /\ ~Cyclic(Des.views)
<1>1. Des \in Desired /\ Directed(Des) BY DesType
<1>2. ~Refused(Filtered(job.db, job.shown), Des) BY DEF Accepted
<1>3. SoundTables(Des) BY <1>1, <1>2, TablesSoundWhenPlanned
<1>4. ~Cyclic(Des.views) BY <1>2 DEF Refused
<1> QED BY <1>3, <1>4

LEMMA InitAwaits == Init => StillAwaiting
<1> SUFFICES ASSUME Init, Accepted PROVE Awaiting(db) BY DEF StillAwaiting
<1>1. job \in Scenario /\ db = job.db BY ScenarioAssumption DEF Init
<1>2. db \in Database /\ Rooted(db) BY <1>1 DEF Scenario
<1> QED BY <1>1, <1>2, AcceptedAwaits DEF Accepted

LEMMA NextAwaits == Safe /\ StillAwaiting /\ [Next]_vars => StillAwaiting'
<1> SUFFICES ASSUME Safe, StillAwaiting, [Next]_vars, Accepted', Undisturbed'
             PROVE  Awaiting(db)'
  BY DEF StillAwaiting
<1>1. job \in Scenario /\ db \in Database BY DEF Safe, TypeOK
<1>2. job' = job /\ Des' = Des BY RunSteps, DesSame
<1>3. Accepted BY <1>2 DEF Accepted
<1>4. foreign \in Nat /\ foreign' = 0 BY BoundAssumption DEF Safe, TypeOK, Undisturbed
<1>5. foreign = 0 BY <1>4, RunSteps
<1>6. Awaiting(db) BY <1>3, <1>5 DEF StillAwaiting, Undisturbed
<1>7. Awaiting(db') => Awaiting(db)'
  BY <1>2 DEF Awaiting, TablesAwait, ColumnsAwait, ViewsAwait
<1>8. CASE db' = db BY <1>6, <1>7, <1>8
<1>9. ASSUME NEW s \in Statement, Run(s), Justified(Des, s), Additive(Des, s),
             Scoped(job.shown, Des, s)
      PROVE  Awaiting(db')
  <2>1. Accepts(db, s, job.des) /\ db' = Effect(db, s, job.des) BY <1>9 DEF Run
  <2>2. Fit(Des) /\ SoundTables(Des) BY <1>1, <1>3, AcceptedSound DEF Accepted
  <2> QED BY <1>1, <1>6, <1>9, <2>1, <2>2, RunAwaits
<1> QED BY <1>4, <1>5, <1>7, <1>8, <1>9, RunSteps

(***************************************************************************)
(* Files the diff accepted for the first schema are never refused for a    *)
(* schema that runs of them leave behind, finished or not: for every schema*)
(* and any files whose table and column directives do not contradict each  *)
(* other, under any filters and policy, with any number of concurrent runs,*)
(* crashes and reruns, as long as nobody else changes the schema.          *)
(***************************************************************************)
THEOREM AcceptedFilesStayAccepted == Spec => [](Undisturbed /\ Fit(Des) => PlannableStays)
<1>1. ASSUME Safe, StillAwaiting PROVE Undisturbed /\ Fit(Des) => PlannableStays
  <2> SUFFICES ASSUME Undisturbed, Accepted PROVE ~Refused(Live, Des)
    BY DEF PlannableStays, Accepted
  <2>1. job \in Scenario /\ db \in Database BY <1>1 DEF Safe, TypeOK
  <2>2. SoundTables(Des) /\ ~Cyclic(Des.views) BY <2>1, AcceptedSound
  <2>3. Fit(Des) /\ Awaiting(db) BY <1>1 DEF Accepted, StillAwaiting
  <2> QED BY <2>1, <2>2, <2>3, AwaitedAccepts DEF Live
<1>2. Spec => []StillAwaiting
  <2>1. Spec => []Safe BY AlwaysSafe
  <2> QED BY InitAwaits, NextAwaits, <2>1, PTL DEF Spec
<1> QED BY <1>1, <1>2, AlwaysSafe, PTL

-----------------------------------------------------------------------------
(***************************************************************************)
(* A run that is done hides nothing.                                       *)
(*                                                                         *)
(* A schema is Consistent when the columns its keys and foreign keys name  *)
(* and the tables of its CHECKs are there, a key names each column once,   *)
(* and an object has one row.  The files are Sane when that holds of what  *)
(* they say, foreign keys aside, and what they declare is part of a        *)
(* declared table.                                                         *)
(***************************************************************************)
Distinct(cols) == \A i, j \in DOMAIN cols : cols[i] = cols[j] => i = j

Listed(d, rows) ==
  \A r \in rows : r.cols # <<>> /\ Distinct(r.cols) /\ Known(d, r.t, ListOf(r.cols))

Checked(d) == \A r \in d.checks : r.t \in d.tables

Referring(d) == \A f \in d.fks : Known(d, f.t, {f.col}) /\ Known(d, f.ref, {f.refcol})

Consistent(d) ==
  Rooted(d) /\ Checked(d) /\ OneRow(d.cols) /\ OneView(d)
  /\ Listed(d, d.pks \cup d.keys) /\ Referring(d)

Sane(des) ==
  OneRow(des.cols) /\ OneView(des) /\ Listed(des, des.pks \cup des.keys) /\ Placed(des)

(***************************************************************************)
(* What a statement does to the keys and to the foreign keys.              *)
(***************************************************************************)
LEMMA KeyEffect ==
  ASSUME NEW d \in Database, NEW s, NEW text
  PROVE  /\ Effect(d, s, text).pks =
              CASE s.op = "DropConstraint" -> Drop(d.pks, s.t, s.n)
                [] s.op = "DropColumn"     -> Shrink(d.pks, s.t, s.n)
                [] s.op = "DropTable"      -> Except(d.pks, s.t)
                [] s.op = "RenameTable"    -> MoveRows(d.pks, s.t, s.to)
                [] s.op = "RenameColumn"   -> RenameInCols(d.pks, s.t, s.n, s.to)
                [] s.op = "CreateTable"    -> d.pks \cup Of(text.pks, s.t)
                [] s.op = "AddConstraint"  -> d.pks \cup The(text.pks, s.t, s.n)
                [] OTHER                   -> d.pks
         /\ Effect(d, s, text).keys =
              CASE s.op = "DropIndex"      -> Drop(d.keys, s.t, s.n)
                [] s.op = "DropColumn"     -> Shrink(d.keys, s.t, s.n)
                [] s.op = "DropTable"      -> Except(d.keys, s.t)
                [] s.op = "RenameTable"    -> MoveRows(d.keys, s.t, s.to)
                [] s.op = "RenameColumn"   -> RenameInCols(d.keys, s.t, s.n, s.to)
                [] s.op = "RenameIndex"    -> RenameRows(d.keys, s.t, s.n, s.to)
                [] s.op = "CreateIndex"    -> d.keys \cup The(text.keys, s.t, s.n)
                [] s.op = "AddForeignKey"  -> d.keys \cup ImplicitKeys(d, The(text.fks, s.t, s.n))
                [] OTHER                   -> d.keys
<1>1. CASE s.op \in DropOps
  <2>1. Effect(d, s, text) = Without(d, s) BY <1>1, OneEffect
  <2> QED BY <1>1, <2>1 DEF Without, Database, DropOps
<1>2. CASE s.op \in RenameOps
  <2>1. Effect(d, s, text) = Renamed(d, s) BY <1>2, OneEffect
  <2> QED BY <1>2, <2>1 DEF Renamed, Database, RenameOps
<1>3. CASE s.op \notin DropOps \cup RenameOps
  <2>1. Effect(d, s, text) = With(d, s, text) BY <1>3, OneEffect
  <2> QED BY <1>3, <2>1 DEF With, Database, RenameOps, DropOps
<1> QED BY <1>1, <1>2, <1>3

RenamedForeignKey(r, s) ==
  [r EXCEPT !.col    = IF r.t = s.t THEN Swap(@, s.n, s.to) ELSE @,
            !.refcol = IF r.ref = s.t THEN Swap(@, s.n, s.to) ELSE @]

LEMMA ForeignKeyEffect ==
  ASSUME NEW d \in Database, NEW s, NEW text
  PROVE  Effect(d, s, text).fks =
           CASE s.op = "DropForeignKey" -> Drop(d.fks, s.t, s.n)
             [] s.op = "DropTable"      -> Except(d.fks, s.t)
             [] s.op = "RenameTable"    -> {[r EXCEPT !.ref = Swap(@, s.t, s.to)] :
                                              r \in MoveRows(d.fks, s.t, s.to)}
             [] s.op = "RenameColumn"   -> {RenamedForeignKey(r, s) : r \in d.fks}
             [] s.op = "AddForeignKey"  -> d.fks \cup The(text.fks, s.t, s.n)
             [] OTHER                   -> d.fks
<1>1. CASE s.op \in DropOps
  <2>1. Effect(d, s, text) = Without(d, s) BY <1>1, OneEffect
  <2> QED BY <1>1, <2>1 DEF Without, Database, DropOps
<1>2. CASE s.op \in RenameOps
  <2>1. Effect(d, s, text) = Renamed(d, s) BY <1>2, OneEffect
  <2> QED BY <1>2, <2>1 DEF Renamed, Database, RenameOps, RenamedForeignKey
<1>3. CASE s.op \notin DropOps \cup RenameOps
  <2>1. Effect(d, s, text) = With(d, s, text) BY <1>3, OneEffect
  <2> QED BY <1>3, <2>1 DEF With, Database, RenameOps, DropOps
<1> QED BY <1>1, <1>2, <1>3

(***************************************************************************)
(* Where a column is after a statement: gone only when it is dropped, and  *)
(* under its new name when it or its table is renamed.                     *)
(***************************************************************************)
NewHome(s, t, c) ==
  CASE s.op = "RenameTable"              -> <<Swap(t, s.t, s.to), c>>
    [] s.op = "RenameColumn" /\ t = s.t  -> <<t, Swap(c, s.n, s.to)>>
    [] OTHER                             -> <<t, c>>

Dropped(s, t, c) ==
  \/ s.op = "DropTable" /\ t = s.t
  \/ s.op = "DropColumn" /\ t = s.t /\ c = s.n

LEMMA ColumnFollows ==
  ASSUME NEW d \in Database, NEW s, NEW text, NEW t, NEW c, Holds(d.cols, t, c), ~Dropped(s, t, c),
         s.op \in {"AddColumn", "ModifyColumn"} => Holds(text.cols, s.t, s.n)
  PROVE  Holds(Effect(d, s, text).cols, NewHome(s, t, c)[1], NewHome(s, t, c)[2])
<1> DEFINE cols2 == Effect(d, s, text).cols
<1>1. PICK r \in d.cols : r.t = t /\ r.n = c BY DEF Holds
<1>2. r \in ColumnRow BY DEF Database
<1>3. CASE s.op = "DropTable"
  <2>1. cols2 = Except(d.cols, s.t) BY <1>3, ColumnEffect
  <2>2. r \in cols2 BY <1>1, <1>3, <2>1 DEF Except, Dropped
  <2> QED BY <1>1, <1>3, <2>2 DEF Holds, NewHome
<1>4. CASE s.op = "DropColumn"
  <2>1. cols2 = Drop(d.cols, s.t, s.n) BY <1>4, ColumnEffect
  <2>2. r \in cols2 BY <1>1, <1>4, <2>1 DEF Drop, Dropped
  <2> QED BY <1>1, <1>4, <2>2 DEF Holds, NewHome
<1>5. CASE s.op = "RenameTable"
  <2> DEFINE x == [r EXCEPT !.t = Swap(@, s.t, s.to)]
  <2>1. cols2 = MoveRows(d.cols, s.t, s.to) BY <1>5, ColumnEffect
  <2>2. x \in cols2 BY <2>1 DEF MoveRows
  <2>3. x.t = Swap(t, s.t, s.to) /\ x.n = c BY <1>1, <1>2 DEF ColumnRow
  <2>4. NewHome(s, t, c) = <<Swap(t, s.t, s.to), c>> BY <1>5 DEF NewHome
  <2> HIDE DEF x
  <2> QED BY <2>2, <2>3, <2>4 DEF Holds
<1>6. CASE s.op = "RenameColumn"
  <2> DEFINE x == IF r.t = s.t THEN [r EXCEPT !.n = Swap(@, s.n, s.to)] ELSE r
  <2>1. cols2 = RenameRows(d.cols, s.t, s.n, s.to) BY <1>6, ColumnEffect
  <2>2. x \in cols2 BY <2>1 DEF RenameRows
  <2>3. x.t = t /\ x.n = IF t = s.t THEN Swap(c, s.n, s.to) ELSE c BY <1>1, <1>2 DEF ColumnRow
  <2>4. NewHome(s, t, c) = <<t, IF t = s.t THEN Swap(c, s.n, s.to) ELSE c>>
    BY <1>6 DEF NewHome
  <2> HIDE DEF x
  <2> QED BY <2>2, <2>3, <2>4 DEF Holds
<1>7. CASE s.op = "CreateTable"
  <2>1. cols2 = d.cols \cup Of(text.cols, s.t) BY ZenonT(30), <1>7, ColumnEffect
  <2> QED BY <1>1, <1>7, <2>1 DEF Holds, NewHome
<1>8. CASE s.op \in {"AddColumn", "ModifyColumn"}
  <2>1. cols2 = Drop(d.cols, s.t, s.n) \cup The(text.cols, s.t, s.n)
    BY ZenonT(30), <1>8, ColumnEffect
  <2>2. Holds(cols2, t, c)
    <3>1. CASE t = s.t /\ c = s.n BY <1>8, <2>1, <3>1 DEF Holds, The
    <3>2. CASE ~(t = s.t /\ c = s.n) BY <1>1, <2>1, <3>2 DEF Holds, Drop
    <3> QED BY <3>1, <3>2
  <2> QED BY <1>8, <2>2 DEF NewHome
<1>9. CASE s.op \notin {"DropTable", "DropColumn", "RenameTable", "RenameColumn", "CreateTable",
                        "AddColumn", "ModifyColumn"}
  <2>1. cols2 = d.cols BY <1>9, ColumnEffect
  <2> QED BY <1>1, <1>9, <2>1 DEF Holds, NewHome
<1> QED BY <1>3, <1>4, <1>5, <1>6, <1>7, <1>8, <1>9

(***************************************************************************)
(* A list of columns without one of them.                                  *)
(***************************************************************************)
LEMMA RemovedList ==
  ASSUME NEW q \in Seq(Columns), NEW k \in DOMAIN q, Distinct(q)
  PROVE  /\ Distinct(S!RemoveAt(q, k))
         /\ ListOf(S!RemoveAt(q, k)) = ListOf(q) \ {q[k]}
<1> DEFINE x == SubSeq(q, 1, k - 1)
           y == SubSeq(q, k + 1, Len(q))
           z == S!RemoveAt(q, k)
<1>1. k \in 1..Len(q) /\ Len(q) \in Nat /\ DOMAIN q = 1..Len(q) OBVIOUS
<1>2. k \in Nat /\ 1 <= k /\ k <= Len(q) BY <1>1
<1>3. /\ x \in Seq(Columns) /\ Len(x) = k - 1
      /\ \A i \in 1..(k - 1) : x[i] = q[i]
  BY <1>1, <1>2, SubSeqProperties
<1>4. /\ y \in Seq(Columns) /\ Len(y) = Len(q) - k
      /\ \A i \in 1..(Len(q) - k) : y[i] = q[k + i]
  BY <1>1, <1>2, SubSeqProperties
<1> HIDE DEF x, y
<1>5. z = x \o y BY DEF S!RemoveAt, x, y
<1>6. /\ z \in Seq(Columns) /\ Len(z) = Len(q) - 1
      /\ \A i \in 1..(Len(q) - 1) : z[i] = IF i <= k - 1 THEN x[i] ELSE y[i - (k - 1)]
  <2>1. /\ x \o y \in Seq(Columns) /\ Len(x \o y) = Len(x) + Len(y)
        /\ \A i \in 1..(Len(x) + Len(y)) : (x \o y)[i] = IF i <= Len(x) THEN x[i] ELSE y[i - Len(x)]
    BY <1>3, <1>4, ConcatProperties
  <2>2. Len(x) = k - 1 /\ Len(x) + Len(y) = Len(q) - 1 BY <1>1, <1>2, <1>3, <1>4
  <2> HIDE DEF z
  <2> QED BY <1>5, <2>1, <2>2
<1> HIDE DEF z
<1>7. DOMAIN z = 1..(Len(q) - 1) BY <1>6
<1>8. \A i \in 1..(Len(q) - 1) : z[i] = IF i <= k - 1 THEN q[i] ELSE q[i + 1]
  <2>1. SUFFICES ASSUME NEW i \in 1..(Len(q) - 1)
                 PROVE  z[i] = IF i <= k - 1 THEN q[i] ELSE q[i + 1]
    OBVIOUS
  <2>2. CASE i <= k - 1
    <3>1. i \in 1..(k - 1) BY <1>1, <1>2, <2>2
    <3> QED BY <1>3, <1>6, <2>2, <3>1
  <2>3. CASE ~(i <= k - 1)
    <3>1. i - (k - 1) \in 1..(Len(q) - k) /\ k + (i - (k - 1)) = i + 1 BY <1>1, <1>2, <2>3
    <3>2. y[i - (k - 1)] = q[i + 1] BY <1>4, <3>1
    <3> QED BY <1>6, <2>3, <3>2
  <2> QED BY <2>2, <2>3
<1>9. \A i, j \in 1..Len(q) : q[i] = q[j] => i = j BY <1>1 DEF Distinct
<1>10. Distinct(z)
  <2>1. SUFFICES ASSUME NEW i \in 1..(Len(q) - 1), NEW j \in 1..(Len(q) - 1), z[i] = z[j]
                 PROVE  i = j
    BY <1>7 DEF Distinct
  <2> DEFINE a == IF i <= k - 1 THEN i ELSE i + 1
             b == IF j <= k - 1 THEN j ELSE j + 1
  <2>2. a \in 1..Len(q) /\ b \in 1..Len(q) BY <1>1, <1>2
  <2>3. q[a] = q[b] BY <1>8, <2>1
  <2>4. a = b BY <1>9, <2>2, <2>3
  <2> QED BY <1>1, <1>2, <2>4
<1>11. ASSUME NEW c \in ListOf(z) PROVE c \in ListOf(q) \ {q[k]}
  <2>1. PICK i \in 1..(Len(q) - 1) : z[i] = c BY <1>7 DEF ListOf
  <2> DEFINE a == IF i <= k - 1 THEN i ELSE i + 1
  <2>2. a \in 1..Len(q) /\ a # k BY <1>1, <1>2
  <2>3. q[a] = c BY <1>8, <2>1
  <2> HIDE DEF a
  <2> QED BY <1>1, <1>9, <2>2, <2>3 DEF ListOf
<1>12. ASSUME NEW c \in ListOf(q), c # q[k] PROVE c \in ListOf(z)
  <2>1. PICK i \in 1..Len(q) : q[i] = c BY <1>1 DEF ListOf
  <2> DEFINE a == IF i <= k - 1 THEN i ELSE i - 1
  <2>2. a \in 1..(Len(q) - 1) /\ i = IF a <= k - 1 THEN a ELSE a + 1 BY <1>1, <1>2, <1>12, <2>1
  <2>3. z[a] = c BY <1>8, <2>1, <2>2
  <2> HIDE DEF a
  <2> QED BY <1>7, <2>2, <2>3 DEF ListOf
<1> QED BY <1>10, <1>11, <1>12 DEF z

LEMMA WithoutColumnList ==
  ASSUME NEW N, NEW r \in [t : Names, n : N, cols : Seq(Columns)], NEW c, Distinct(r.cols)
  PROVE  /\ WithoutColumn(r, c).t = r.t
         /\ Distinct(WithoutColumn(r, c).cols)
         /\ ListOf(WithoutColumn(r, c).cols) = ListOf(r.cols) \ {c}
<1>1. CASE \E i \in DOMAIN r.cols : r.cols[i] = c
  <2> DEFINE k == CHOOSE i \in DOMAIN r.cols : r.cols[i] = c
  <2>1. k \in DOMAIN r.cols /\ r.cols[k] = c BY <1>1
  <2>2. WithoutColumn(r, c) = [r EXCEPT !.cols = S!RemoveAt(r.cols, k)] BY <1>1 DEF WithoutColumn
  <2> HIDE DEF k
  <2>3. WithoutColumn(r, c).t = r.t /\ WithoutColumn(r, c).cols = S!RemoveAt(r.cols, k) BY <2>2
  <2> QED BY <2>1, <2>3, RemovedList
<1>2. CASE ~\E i \in DOMAIN r.cols : r.cols[i] = c
  BY <1>2 DEF WithoutColumn, ListOf
<1> QED BY <1>1, <1>2

(***************************************************************************)
(* A list of columns in which one has a new name that none had.            *)
(***************************************************************************)
LEMMA RenamedList ==
  ASSUME NEW q \in Seq(Columns), NEW old, NEW new, Distinct(q), new \notin ListOf(q)
  PROVE  LET q2 == [i \in DOMAIN q |-> Swap(q[i], old, new)]
         IN  /\ Distinct(q2)
             /\ ListOf(q2) = {Swap(c, old, new) : c \in ListOf(q)}
             /\ q # <<>> => q2 # <<>>
<1> DEFINE q2 == [i \in DOMAIN q |-> Swap(q[i], old, new)]
<1>1. DOMAIN q2 = DOMAIN q /\ \A i \in DOMAIN q : q2[i] = Swap(q[i], old, new) OBVIOUS
<1>2. \A i \in DOMAIN q : q[i] # new BY DEF ListOf
<1>3. q # <<>> => q2 # <<>>
  <2>1. q # <<>> => 1 \in DOMAIN q OBVIOUS
  <2>2. DOMAIN <<>> = {} OBVIOUS
  <2> HIDE DEF q2
  <2> QED BY <1>1, <2>1, <2>2
<1> HIDE DEF q2
<1>4. Distinct(q2) BY <1>1, <1>2 DEF Distinct, Swap
<1>5. ListOf(q2) = {Swap(c, old, new) : c \in ListOf(q)} BY <1>1 DEF ListOf
<1> QED BY <1>3, <1>4, <1>5 DEF q2

(***************************************************************************)
(* The keys of a consistent schema after a statement that takes columns    *)
(* out, or renames a table or a column, name columns that are there.       *)
(***************************************************************************)
Following(s, cols, cols2) ==
  \A t, c : Holds(cols, t, c) /\ ~Dropped(s, t, c) => Holds(cols2, NewHome(s, t, c)[1], NewHome(s, t, c)[2])

LEMMA ListedLeft ==
  ASSUME NEW d, NEW d2, NEW s, Following(s, d.cols, d2.cols), NEW rows, Listed(d, rows),
         NEW rows2, rows2 \subseteq rows,
         s.op \notin {"RenameTable", "RenameColumn"},
         \A r \in rows2 : \A c \in ListOf(r.cols) : ~Dropped(s, r.t, c)
  PROVE  Listed(d2, rows2)
<1>1. \A t, c : NewHome(s, t, c) = <<t, c>> BY DEF NewHome
<1> QED BY <1>1 DEF Listed, Known, Following

LEMMA ListedShrunk ==
  ASSUME NEW d, NEW d2, NEW s, Following(s, d.cols, d2.cols), s.op = "DropColumn",
         NEW N, NEW rows \in SUBSET [t : Names, n : N, cols : Seq(Columns)], Listed(d, rows)
  PROVE  Listed(d2, Shrink(rows, s.t, s.n))
<1>1. \A t, c : NewHome(s, t, c) = <<t, c>> BY DEF NewHome
<1>2. SUFFICES ASSUME NEW x \in Shrink(rows, s.t, s.n)
               PROVE  x.cols # <<>> /\ Distinct(x.cols) /\ Known(d2, x.t, ListOf(x.cols))
  BY DEF Listed
<1>3. PICK r \in rows : x = IF r.t = s.t THEN WithoutColumn(r, s.n) ELSE r BY DEF Shrink
<1>4. r.cols # <<>> /\ Distinct(r.cols) /\ Known(d, r.t, ListOf(r.cols)) BY DEF Listed
<1>5. CASE r.t = s.t
  <2>1. x.t = r.t /\ Distinct(x.cols) /\ ListOf(x.cols) = ListOf(r.cols) \ {s.n}
    BY <1>3, <1>4, <1>5, WithoutColumnList
  <2>2. x.cols # <<>> BY <1>5, <2>1 DEF Shrink
  <2>3. \A c \in ListOf(x.cols) : Holds(d.cols, x.t, c) /\ ~Dropped(s, x.t, c)
    BY <1>4, <2>1 DEF Known, Dropped
  <2> QED BY <1>1, <2>1, <2>2, <2>3 DEF Known, Following
<1>6. CASE r.t # s.t
  <2>1. \A c : ~Dropped(s, r.t, c) BY <1>6 DEF Dropped
  <2> QED BY <1>1, <1>3, <1>4, <1>6, <2>1 DEF Known, Following
<1> QED BY <1>5, <1>6

LEMMA ListedMoved ==
  ASSUME NEW d, NEW d2, NEW s, Following(s, d.cols, d2.cols), s.op = "RenameTable",
         NEW N, NEW rows \in SUBSET [t : Names, n : N, cols : Seq(Columns)], Listed(d, rows)
  PROVE  Listed(d2, MoveRows(rows, s.t, s.to))
<1>1. SUFFICES ASSUME NEW x \in MoveRows(rows, s.t, s.to)
               PROVE  x.cols # <<>> /\ Distinct(x.cols) /\ Known(d2, x.t, ListOf(x.cols))
  BY DEF Listed
<1>2. PICK r \in rows : x = [r EXCEPT !.t = Swap(@, s.t, s.to)] BY DEF MoveRows
<1>3. x.t = Swap(r.t, s.t, s.to) /\ x.cols = r.cols BY <1>2
<1>4. r.cols # <<>> /\ Distinct(r.cols) /\ Known(d, r.t, ListOf(r.cols)) BY DEF Listed
<1>5. \A c : ~Dropped(s, r.t, c) /\ NewHome(s, r.t, c) = <<x.t, c>> BY <1>3 DEF Dropped, NewHome
<1> QED BY <1>3, <1>4, <1>5 DEF Known, Following

LEMMA ListedRenamed ==
  ASSUME NEW d, NEW d2, NEW s, Following(s, d.cols, d2.cols), s.op = "RenameColumn",
         ~Holds(d.cols, s.t, s.to),
         NEW N, NEW rows \in SUBSET [t : Names, n : N, cols : Seq(Columns)], Listed(d, rows)
  PROVE  Listed(d2, RenameInCols(rows, s.t, s.n, s.to))
<1>1. SUFFICES ASSUME NEW x \in RenameInCols(rows, s.t, s.n, s.to)
               PROVE  x.cols # <<>> /\ Distinct(x.cols) /\ Known(d2, x.t, ListOf(x.cols))
  BY DEF Listed
<1>2. PICK r \in rows :
        x = IF r.t = s.t THEN [r EXCEPT !.cols = [i \in DOMAIN @ |-> Swap(@[i], s.n, s.to)]] ELSE r
  BY DEF RenameInCols
<1>3. r.cols # <<>> /\ Distinct(r.cols) /\ Known(d, r.t, ListOf(r.cols)) BY DEF Listed
<1>4. \A t, c : ~Dropped(s, t, c) BY DEF Dropped
<1>5. CASE r.t = s.t
  <2>1. s.to \notin ListOf(r.cols) BY <1>3, <1>5 DEF Known
  <2>2. x.t = s.t /\ x.cols = [i \in DOMAIN r.cols |-> Swap(r.cols[i], s.n, s.to)] BY <1>2, <1>5
  <2>3. /\ x.cols # <<>> /\ Distinct(x.cols)
        /\ ListOf(x.cols) = {Swap(c, s.n, s.to) : c \in ListOf(r.cols)}
    BY <1>3, <2>1, <2>2, RenamedList
  <2>4. \A c : NewHome(s, s.t, c) = <<s.t, Swap(c, s.n, s.to)>> BY DEF NewHome
  <2>5. \A c \in ListOf(r.cols) : Holds(d2.cols, s.t, Swap(c, s.n, s.to))
    BY <1>3, <1>4, <1>5, <2>4 DEF Known, Following
  <2> QED BY <2>2, <2>3, <2>5 DEF Known
<1>6. CASE r.t # s.t
  <2>1. \A c : NewHome(s, r.t, c) = <<r.t, c>> BY <1>6 DEF NewHome
  <2> QED BY <1>2, <1>3, <1>4, <1>6, <2>1 DEF Known, Following
<1> QED BY <1>5, <1>6

(***************************************************************************)
(* Rows that a statement adds, and indexes it renames.                     *)
(***************************************************************************)
LEMMA ListedJoined ==
  ASSUME NEW d, NEW x, NEW y, Listed(d, x), Listed(d, y)
  PROVE  Listed(d, x \cup y)
BY DEF Listed

LEMMA ListedTaken ==
  ASSUME NEW text, NEW rows, Listed(text, rows), NEW d, NEW d2, NEW s, Following(s, d.cols, d2.cols),
         s.op \notin {"RenameTable", "RenameColumn", "DropTable", "DropColumn"}, NEW rows2 \in SUBSET rows,
         \A r \in rows2 : Known(d, r.t, ListOf(r.cols))
  PROVE  Listed(d2, rows2)
<1>1. \A t, c : NewHome(s, t, c) = <<t, c>> /\ ~Dropped(s, t, c) BY DEF NewHome, Dropped
<1> QED BY <1>1 DEF Listed, Known, Following

LEMMA ListedIndex ==
  ASSUME NEW d, NEW d2, NEW s, Following(s, d.cols, d2.cols), s.op = "RenameIndex",
         NEW N, NEW rows \in SUBSET [t : Names, n : N, cols : Seq(Columns)], Listed(d, rows)
  PROVE  Listed(d2, RenameRows(rows, s.t, s.n, s.to))
<1>1. SUFFICES ASSUME NEW x \in RenameRows(rows, s.t, s.n, s.to)
               PROVE  x.cols # <<>> /\ Distinct(x.cols) /\ Known(d2, x.t, ListOf(x.cols))
  BY DEF Listed
<1>2. PICK r \in rows : x = IF r.t = s.t THEN [r EXCEPT !.n = Swap(@, s.n, s.to)] ELSE r
  BY DEF RenameRows
<1>3. x.t = r.t /\ x.cols = r.cols BY <1>2
<1>4. r.cols # <<>> /\ Distinct(r.cols) /\ Known(d, r.t, ListOf(r.cols)) BY DEF Listed
<1>5. \A t, c : NewHome(s, t, c) = <<t, c>> /\ ~Dropped(s, t, c) BY DEF NewHome, Dropped
<1> QED BY <1>3, <1>4, <1>5 DEF Known, Following

(***************************************************************************)
(* A foreign key's own index is over its column.                           *)
(***************************************************************************)
LEMMA ListedImplicit ==
  ASSUME NEW d, NEW d2, NEW s, Following(s, d.cols, d2.cols), s.op = "AddForeignKey",
         NEW fks \in SUBSET ForeignKeyRow, \A f \in fks : Known(d, f.t, {f.col})
  PROVE  Listed(d2, ImplicitKeys(d, fks))
<1>1. SUFFICES ASSUME NEW f \in fks
               PROVE  LET x == [t |-> f.t, n |-> f.n, cols |-> <<f.col>>]
                      IN  x.cols # <<>> /\ Distinct(x.cols) /\ Known(d2, x.t, ListOf(x.cols))
  BY DEF Listed, ImplicitKeys
<1>2. NewHome(s, f.t, f.col) = <<f.t, f.col>> /\ ~Dropped(s, f.t, f.col) BY DEF NewHome, Dropped
<1>3. Holds(d2.cols, f.t, f.col) BY <1>2 DEF Known, Following
<1>4. ListOf(<<f.col>>) = {f.col} /\ Distinct(<<f.col>>) /\ <<f.col>> # <<>>
  BY DEF ListOf, Distinct
<1> QED BY <1>3, <1>4 DEF Known

(***************************************************************************)
(* A statement of a run keeps the columns of every key where they are      *)
(* looked for.                                                             *)
(***************************************************************************)
LEMMA RunListed ==
  ASSUME NEW text \in Desired, Sane(text), NEW d \in Database, Consistent(d), NEW s \in Statement,
         Accepts(d, s, text), Following(s, d.cols, Effect(d, s, text).cols)
  PROVE  Listed(Effect(d, s, text), Effect(d, s, text).pks \cup Effect(d, s, text).keys)
<1> DEFINE d2 == Effect(d, s, text)
           PR == [t : Names, n : {PrimaryKey}, cols : Seq(Columns)]
           IR == [t : Names, n : Keys \cup ForeignKeys, cols : Seq(Columns)]
<1>1. Listed(d, d.pks) /\ Listed(d, d.keys) BY DEF Consistent, Listed
<1>2. d.pks \in SUBSET PR /\ d.keys \in SUBSET IR BY DEF Database, PrimaryRow, IndexRow
<1>3. Listed(text, text.pks) /\ Listed(text, text.keys) BY DEF Sane, Listed
<1>4. Following(s, d.cols, d2.cols) OBVIOUS
<1>5. SUFFICES Listed(d2, d2.pks) /\ Listed(d2, d2.keys) BY ListedJoined
<1>6. ASSUME s.op \notin {"RenameTable", "RenameColumn", "DropTable", "DropColumn"},
             NEW rows, rows \in {d.pks, d.keys}, NEW rows2 \in SUBSET rows
      PROVE  Listed(d2, rows2)
  <2>1. \A t, c : ~Dropped(s, t, c) BY <1>6 DEF Dropped
  <2>2. Listed(d, rows) BY <1>1, <1>6
  <2> HIDE DEF d2
  <2> QED BY <1>4, <1>6, <2>1, <2>2, ListedLeft
<1> HIDE DEF d2, PR, IR
<1>7. CASE s.op \in {"DropConstraint", "DropIndex"}
  <2>1. d2.pks = d.pks \/ d2.pks = Drop(d.pks, s.t, s.n) BY ZenonT(30), <1>7, KeyEffect DEF d2
  <2>2. d2.keys = d.keys \/ d2.keys = Drop(d.keys, s.t, s.n) BY ZenonT(30), <1>7, KeyEffect DEF d2
  <2>3. d2.pks \subseteq d.pks /\ d2.keys \subseteq d.keys BY <2>1, <2>2 DEF Drop
  <2> QED BY <1>6, <1>7, <2>3
<1>8. CASE s.op = "DropColumn"
  <2>1. d2.pks = Shrink(d.pks, s.t, s.n) /\ d2.keys = Shrink(d.keys, s.t, s.n)
    BY ZenonT(30), <1>8, KeyEffect DEF d2
  <2>2. Listed(d2, Shrink(d.pks, s.t, s.n))
    BY <1>1, <1>2, <1>4, <1>8, ListedShrunk DEF PR
  <2>3. Listed(d2, Shrink(d.keys, s.t, s.n))
    BY <1>1, <1>2, <1>4, <1>8, ListedShrunk DEF IR
  <2> QED BY <2>1, <2>2, <2>3
<1>9. CASE s.op = "DropTable"
  <2>1. d2.pks = Except(d.pks, s.t) /\ d2.keys = Except(d.keys, s.t)
    BY ZenonT(30), <1>9, KeyEffect DEF d2
  <2>2. \A r \in d2.pks \cup d2.keys : \A c : ~Dropped(s, r.t, c) BY <1>9, <2>1 DEF Dropped, Except
  <2>3. d2.pks \subseteq d.pks /\ d2.keys \subseteq d.keys BY <2>1 DEF Except
  <2>4. Listed(d2, d2.pks) BY <1>1, <1>4, <1>9, <2>2, <2>3, ListedLeft
  <2>5. Listed(d2, d2.keys) BY <1>1, <1>4, <1>9, <2>2, <2>3, ListedLeft
  <2> QED BY <2>4, <2>5
<1>10. CASE s.op = "RenameTable"
  <2>1. d2.pks = MoveRows(d.pks, s.t, s.to) /\ d2.keys = MoveRows(d.keys, s.t, s.to)
    BY ZenonT(30), <1>10, KeyEffect DEF d2
  <2>2. Listed(d2, MoveRows(d.pks, s.t, s.to))
    BY <1>1, <1>2, <1>4, <1>10, ListedMoved DEF PR
  <2>3. Listed(d2, MoveRows(d.keys, s.t, s.to))
    BY <1>1, <1>2, <1>4, <1>10, ListedMoved DEF IR
  <2> QED BY <2>1, <2>2, <2>3
<1>11. CASE s.op = "RenameColumn"
  <2>1. d2.pks = RenameInCols(d.pks, s.t, s.n, s.to) /\ d2.keys = RenameInCols(d.keys, s.t, s.n, s.to)
    BY ZenonT(90), <1>11, KeyEffect DEF d2
  <2>2. ~Holds(d.cols, s.t, s.to) BY <1>11 DEF Accepts, AcceptsRename
  <2>3. Listed(d2, RenameInCols(d.pks, s.t, s.n, s.to))
    BY <1>1, <1>2, <1>4, <1>11, <2>2, ListedRenamed DEF PR
  <2>4. Listed(d2, RenameInCols(d.keys, s.t, s.n, s.to))
    BY <1>1, <1>2, <1>4, <1>11, <2>2, ListedRenamed DEF IR
  <2> QED BY <2>1, <2>3, <2>4
<1>12. CASE s.op = "RenameIndex"
  <2>1. d2.pks = d.pks /\ d2.keys = RenameRows(d.keys, s.t, s.n, s.to)
    BY ZenonT(30), <1>12, KeyEffect DEF d2
  <2>2. Listed(d2, RenameRows(d.keys, s.t, s.n, s.to))
    BY <1>1, <1>2, <1>4, <1>12, ListedIndex DEF IR
  <2> QED BY <1>6, <1>12, <2>1, <2>2
<1>13. CASE s.op = "CreateTable"
  <2>1. d2.pks = d.pks \cup Of(text.pks, s.t) /\ d2.keys = d.keys
    BY ZenonT(60), <1>13, KeyEffect DEF d2
  <2>2. d2.cols = d.cols \cup Of(text.cols, s.t) BY ZenonT(30), <1>13, ColumnEffect DEF d2
  <2>3. Listed(d2, Of(text.pks, s.t))
    <3>1. ASSUME NEW r \in Of(text.pks, s.t) PROVE Known(d2, r.t, ListOf(r.cols))
      <4>1. Known(text, s.t, ListOf(r.cols)) /\ r.t = s.t BY <1>3 DEF Of, Listed
      <4> QED BY <2>2, <4>1 DEF Known, Holds, Of
    <3> QED BY <1>3, <3>1 DEF Of, Listed
  <2>4. Listed(d2, d.pks) /\ Listed(d2, d.keys) BY <1>6, <1>13
  <2> QED BY <2>1, <2>3, <2>4, ListedJoined
<1>14. CASE s.op = "AddConstraint"
  <2>1. d2.pks = d.pks \cup The(text.pks, s.t, s.n) /\ d2.keys = d.keys BY <1>14, KeyEffect DEF d2
  <2>2. \A r \in The(text.pks, s.t, s.n) : Known(d, r.t, ListOf(r.cols))
    BY <1>14 DEF Accepts, AcceptsCreate, The
  <2>3. The(text.pks, s.t, s.n) \in SUBSET text.pks BY DEF The
  <2>4. Listed(d2, The(text.pks, s.t, s.n)) BY <1>3, <1>4, <1>14, <2>2, <2>3, ListedTaken
  <2>5. Listed(d2, d.pks) /\ Listed(d2, d.keys) BY <1>6, <1>14
  <2> QED BY <2>1, <2>4, <2>5, ListedJoined
<1>15. CASE s.op = "CreateIndex"
  <2>1. d2.pks = d.pks /\ d2.keys = d.keys \cup The(text.keys, s.t, s.n)
    BY ZenonT(30), <1>15, KeyEffect DEF d2
  <2>2. \A r \in The(text.keys, s.t, s.n) : Known(d, r.t, ListOf(r.cols))
    BY <1>15 DEF Accepts, AcceptsCreate, The
  <2>3. The(text.keys, s.t, s.n) \in SUBSET text.keys BY DEF The
  <2>4. Listed(d2, The(text.keys, s.t, s.n)) BY <1>3, <1>4, <1>15, <2>2, <2>3, ListedTaken
  <2>5. Listed(d2, d.pks) /\ Listed(d2, d.keys) BY <1>6, <1>15
  <2> QED BY <2>1, <2>4, <2>5, ListedJoined
<1>16. CASE s.op = "AddForeignKey"
  <2> DEFINE fks == The(text.fks, s.t, s.n)
  <2>1. d2.pks = d.pks /\ d2.keys = d.keys \cup ImplicitKeys(d, fks)
    BY ZenonT(30), <1>16, KeyEffect DEF d2
  <2>2. fks \in SUBSET ForeignKeyRow BY DEF The, Desired
  <2>3. \A f \in fks : Known(d, f.t, {f.col}) BY <1>16 DEF Accepts, AcceptsCreate
  <2> HIDE DEF fks
  <2>4. Listed(d2, ImplicitKeys(d, fks)) BY <1>4, <1>16, <2>2, <2>3, ListedImplicit
  <2>5. Listed(d2, d.pks) /\ Listed(d2, d.keys) BY <1>6, <1>16
  <2> QED BY <2>1, <2>4, <2>5, ListedJoined
<1>17. CASE s.op \notin {"DropConstraint", "DropIndex", "DropColumn", "DropTable", "RenameTable",
                         "RenameColumn", "RenameIndex", "CreateTable", "AddConstraint", "CreateIndex",
                         "AddForeignKey"}
  <2>1. d2.pks = d.pks /\ d2.keys = d.keys BY ZenonT(30), <1>17, KeyEffect DEF d2
  <2> QED BY <1>6, <1>17, <2>1
<1> QED BY <1>7, <1>8, <1>9, <1>10, <1>11, <1>12, <1>13, <1>14, <1>15, <1>16, <1>17

(***************************************************************************)
(* And the columns of every foreign key.                                   *)
(***************************************************************************)
LEMMA RunReferring ==
  ASSUME NEW text \in Desired, NEW d \in Database, Referring(d), NEW s \in Statement,
         Accepts(d, s, text), Following(s, d.cols, Effect(d, s, text).cols)
  PROVE  Referring(Effect(d, s, text))
<1> DEFINE d2 == Effect(d, s, text)
<1>1. ASSUME NEW f \in d.fks
      PROVE  Holds(d.cols, f.t, f.col) /\ Holds(d.cols, f.ref, f.refcol)
  BY DEF Referring, Known
<1>2. SUFFICES ASSUME NEW f \in d2.fks PROVE Holds(d2.cols, f.t, f.col) /\ Holds(d2.cols, f.ref, f.refcol)
  BY DEF Referring, Known
<1>3. Following(s, d.cols, d2.cols) OBVIOUS
<1>4. ASSUME NEW t, NEW c, Holds(d.cols, t, c), s.op \notin {"RenameTable", "RenameColumn"},
             ~Dropped(s, t, c)
      PROVE  Holds(d2.cols, t, c)
  <2>1. NewHome(s, t, c) = <<t, c>> BY <1>4 DEF NewHome
  <2> QED BY <1>3, <1>4, <2>1 DEF Following
<1>5. d.fks \subseteq ForeignKeyRow BY DEF Database
<1> HIDE DEF d2
<1>6. CASE s.op = "RenameTable"
  <2>1. d2.fks = {[r EXCEPT !.ref = Swap(@, s.t, s.to)] : r \in MoveRows(d.fks, s.t, s.to)}
    BY <1>6, ForeignKeyEffect DEF d2
  <2>2. PICK g \in d.fks : f = [[g EXCEPT !.t = Swap(@, s.t, s.to)] EXCEPT !.ref = Swap(@, s.t, s.to)]
    BY <2>1 DEF MoveRows
  <2>3. /\ f.t = Swap(g.t, s.t, s.to) /\ f.ref = Swap(g.ref, s.t, s.to)
        /\ f.col = g.col /\ f.refcol = g.refcol
    BY <1>5, <2>2 DEF ForeignKeyRow
  <2>4. \A t, c : NewHome(s, t, c) = <<Swap(t, s.t, s.to), c>> /\ ~Dropped(s, t, c)
    BY <1>6 DEF NewHome, Dropped
  <2> QED BY <1>1, <1>3, <2>3, <2>4 DEF Following
<1>7. CASE s.op = "RenameColumn"
  <2>1. d2.fks = {RenamedForeignKey(r, s) : r \in d.fks} BY <1>7, ForeignKeyEffect DEF d2
  <2>2. PICK g \in d.fks : f = RenamedForeignKey(g, s) BY <2>1
  <2>3. /\ f.t = g.t /\ f.ref = g.ref
        /\ f.col = IF g.t = s.t THEN Swap(g.col, s.n, s.to) ELSE g.col
        /\ f.refcol = IF g.ref = s.t THEN Swap(g.refcol, s.n, s.to) ELSE g.refcol
    BY <1>5, <2>2 DEF ForeignKeyRow, RenamedForeignKey
  <2>4. \A t, c : NewHome(s, t, c) = <<t, IF t = s.t THEN Swap(c, s.n, s.to) ELSE c>> /\ ~Dropped(s, t, c)
    BY <1>7 DEF NewHome, Dropped
  <2> QED BY <1>1, <1>3, <2>3, <2>4 DEF Following
<1>8. CASE s.op = "DropTable"
  <2>1. d2.fks = Except(d.fks, s.t) BY <1>8, ForeignKeyEffect DEF d2
  <2>2. f \in d.fks /\ f.t # s.t /\ f.ref # s.t BY <1>8, <2>1 DEF Except, Accepts, AcceptsDrop
  <2>3. \A c : ~Dropped(s, f.t, c) /\ ~Dropped(s, f.ref, c) BY <1>8, <2>2 DEF Dropped
  <2> QED BY <1>1, <1>4, <1>8, <2>2, <2>3
<1>9. CASE s.op = "DropColumn"
  <2>1. d2.fks = d.fks BY <1>9, ForeignKeyEffect DEF d2
  <2>2. ~InForeignKey(d, s.t, s.n) BY <1>9 DEF Accepts, AcceptsDrop
  <2>3. ~Dropped(s, f.t, f.col) /\ ~Dropped(s, f.ref, f.refcol)
    BY <1>9, <2>1, <2>2 DEF Dropped, InForeignKey
  <2> QED BY <1>1, <1>4, <1>9, <2>1, <2>3
<1>10. CASE s.op = "AddForeignKey"
  <2>1. d2.fks = d.fks \cup The(text.fks, s.t, s.n) BY ZenonT(30), <1>10, ForeignKeyEffect DEF d2
  <2>2. Holds(d.cols, f.t, f.col) /\ Holds(d.cols, f.ref, f.refcol)
    BY <1>1, <1>10, <2>1 DEF Accepts, AcceptsCreate, Known
  <2>3. \A t, c : ~Dropped(s, t, c) BY <1>10 DEF Dropped
  <2> QED BY <1>4, <1>10, <2>2, <2>3
<1>11. CASE s.op \notin {"RenameTable", "RenameColumn", "DropTable", "DropColumn", "AddForeignKey"}
  <2>3. d2.fks = d.fks \/ d2.fks = Drop(d.fks, s.t, s.n) BY <1>11, ForeignKeyEffect DEF d2
  <2>1. d2.fks \subseteq d.fks BY <2>3 DEF Drop
  <2>2. \A t, c : ~Dropped(s, t, c) BY <1>11 DEF Dropped
  <2> QED BY <1>1, <1>4, <1>11, <2>1, <2>2
<1> QED BY <1>6, <1>7, <1>8, <1>9, <1>10, <1>11

(***************************************************************************)
(* A CHECK is one of a table that is there.                                *)
(***************************************************************************)
LEMMA CheckEffect ==
  ASSUME NEW d \in Database, NEW s, NEW text
  PROVE  Effect(d, s, text).checks =
           CASE s.op = "DropConstraint" -> Drop(d.checks, s.t, s.n)
             [] s.op = "DropTable"      -> Except(d.checks, s.t)
             [] s.op = "RenameTable"    -> MoveRows(d.checks, s.t, s.to)
             [] s.op = "CreateTable"    -> d.checks \cup Of(text.checks, s.t)
             [] s.op = "AddConstraint"  -> d.checks \cup The(text.checks, s.t, s.n)
             [] OTHER                   -> d.checks
<1>1. CASE s.op \in DropOps
  <2>1. Effect(d, s, text) = Without(d, s) BY <1>1, OneEffect
  <2> QED BY <1>1, <2>1 DEF Without, Database, DropOps
<1>2. CASE s.op \in RenameOps
  <2>1. Effect(d, s, text) = Renamed(d, s) BY <1>2, OneEffect
  <2> QED BY <1>2, <2>1 DEF Renamed, Database, RenameOps
<1>3. CASE s.op \notin DropOps \cup RenameOps
  <2>1. Effect(d, s, text) = With(d, s, text) BY <1>3, OneEffect
  <2> QED BY <1>3, <2>1 DEF With, Database, RenameOps, DropOps
<1> QED BY <1>1, <1>2, <1>3

LEMMA RunChecked ==
  ASSUME NEW d \in Database, Checked(d), NEW s \in Statement, NEW text, Accepts(d, s, text)
  PROVE  Checked(Effect(d, s, text))
<1> DEFINE d2 == Effect(d, s, text)
<1>1. \A r \in d.checks : r.t \in d.tables BY DEF Checked
<1>2. CASE s.op = "DropTable"
  <2>1. d2.tables = d.tables \ {s.t} /\ d2.checks = Except(d.checks, s.t)
    BY ZenonT(30), <1>2, TableEffect, CheckEffect
  <2> QED BY <1>1, <2>1 DEF Checked, Except
<1>3. CASE s.op = "RenameTable"
  <2>1. d2.tables = (d.tables \ {s.t}) \cup {s.to} /\ d2.checks = MoveRows(d.checks, s.t, s.to)
    BY ZenonT(30), <1>3, TableEffect, CheckEffect
  <2>2. \A r \in d.checks : [r EXCEPT !.t = Swap(@, s.t, s.to)].t = Swap(r.t, s.t, s.to)
    BY DEF Database, CheckRow
  <2>3. \A r \in d2.checks : \E x \in d.checks : r.t = Swap(x.t, s.t, s.to)
    BY <2>1, <2>2 DEF MoveRows
  <2> QED BY <1>1, <2>1, <2>3 DEF Checked, Swap
<1>4. CASE s.op = "CreateTable"
  <2>1. d2.tables = d.tables \cup {s.t} /\ d2.checks = d.checks \cup Of(text.checks, s.t)
    BY ZenonT(30), <1>4, TableEffect, CheckEffect
  <2> QED BY <1>1, <2>1 DEF Checked, Of
<1>5. CASE s.op = "AddConstraint"
  <2>1. d2.tables = d.tables /\ d2.checks = d.checks \cup The(text.checks, s.t, s.n)
    BY ZenonT(30), <1>5, TableEffect, CheckEffect
  <2>2. s.t \in d.tables BY <1>5 DEF Accepts, AcceptsCreate
  <2> QED BY <1>1, <2>1, <2>2 DEF Checked, The
<1>6. CASE s.op \notin {"DropTable", "RenameTable", "CreateTable", "AddConstraint"}
  <2>1. d2.tables = d.tables BY ZenonT(30), <1>6, TableEffect
  <2>2. d2.checks = d.checks \/ d2.checks = Drop(d.checks, s.t, s.n)
    BY ZenonT(30), <1>6, CheckEffect
  <2>3. d2.checks \subseteq d.checks BY <2>2 DEF Drop
  <2> QED BY <1>1, <2>1, <2>3 DEF Checked
<1> QED BY <1>2, <1>3, <1>4, <1>5, <1>6

(***************************************************************************)
(* A column, and a view, has one row.                                      *)
(***************************************************************************)
LEMMA RunOneRow ==
  ASSUME NEW text \in Desired, OneRow(text.cols), NEW d \in Database, Rooted(d), OneRow(d.cols),
         NEW s \in Statement, Accepts(d, s, text)
  PROVE  OneRow(Effect(d, s, text).cols)
<1> DEFINE cols2 == Effect(d, s, text).cols
<1>1. d.cols \subseteq ColumnRow BY DEF Database
<1>2. CASE s.op \in {"DropTable", "DropColumn"}
  <2>1. cols2 = Except(d.cols, s.t) \/ cols2 = Drop(d.cols, s.t, s.n)
    BY ZenonT(30), <1>2, ColumnEffect
  <2> QED BY <2>1 DEF OneRow, Except, Drop
<1>3. CASE s.op = "RenameTable"
  <2> DEFINE M(r) == [r EXCEPT !.t = Swap(@, s.t, s.to)]
  <2>1. cols2 = {M(r) : r \in d.cols} BY <1>3, ColumnEffect DEF MoveRows
  <2>2. \A r \in d.cols : M(r).t = Swap(r.t, s.t, s.to) /\ M(r).n = r.n BY <1>1 DEF ColumnRow
  <2>3. \A r \in d.cols : r.t # s.to
    BY <1>3 DEF Accepts, AcceptsRename, Relations, Rooted
  <2> HIDE DEF M
  <2> QED BY <2>1, <2>2, <2>3 DEF OneRow, Swap
<1>4. CASE s.op = "RenameColumn"
  <2> DEFINE R(r) == IF r.t = s.t THEN [r EXCEPT !.n = Swap(@, s.n, s.to)] ELSE r
  <2>1. cols2 = {R(r) : r \in d.cols} BY <1>4, ColumnEffect DEF RenameRows
  <2>2. \A r \in d.cols : R(r).t = r.t /\ R(r).n = IF r.t = s.t THEN Swap(r.n, s.n, s.to) ELSE r.n
    BY <1>1 DEF ColumnRow
  <2>3. \A r \in d.cols : ~(r.t = s.t /\ r.n = s.to)
    BY <1>4 DEF Accepts, AcceptsRename, Holds
  <2> HIDE DEF R
  <2> QED BY <2>1, <2>2, <2>3 DEF OneRow, Swap
<1>5. CASE s.op = "CreateTable"
  <2>1. cols2 = d.cols \cup Of(text.cols, s.t) BY ZenonT(30), <1>5, ColumnEffect
  <2>2. \A r \in d.cols : r.t # s.t BY <1>5 DEF Accepts, AcceptsCreate, Relations, Rooted
  <2> QED BY <2>1, <2>2 DEF OneRow, Of
<1>6. CASE s.op \in {"AddColumn", "ModifyColumn"}
  <2>1. cols2 = Drop(d.cols, s.t, s.n) \cup The(text.cols, s.t, s.n)
    BY ZenonT(30), <1>6, ColumnEffect
  <2> QED BY <2>1 DEF OneRow, Drop, The
<1>7. CASE s.op \notin {"DropTable", "DropColumn", "RenameTable", "RenameColumn", "CreateTable",
                        "AddColumn", "ModifyColumn"}
  <2>1. cols2 = d.cols BY <1>7, ColumnEffect
  <2> QED BY <2>1
<1> QED BY <1>2, <1>3, <1>4, <1>5, <1>6, <1>7

LEMMA RunOneView ==
  ASSUME NEW text, OneView(text), NEW d \in Database, OneView(d), NEW s
  PROVE  OneView(Effect(d, s, text))
<1>1. CASE s.op = "DropView"
  <2>1. Effect(d, s, text).views = {r \in d.views : r.n # s.n} BY <1>1, ViewEffect
  <2> QED BY <2>1 DEF OneView
<1>2. CASE s.op = "PutView"
  <2>1. Effect(d, s, text).views = {r \in d.views : r.n # s.n} \cup {r \in text.views : r.n = s.n}
    BY ZenonT(30), <1>2, ViewEffect
  <2> QED BY <2>1 DEF OneView
<1>3. CASE s.op \notin {"DropView", "PutView"}
  <2>1. Effect(d, s, text).views = d.views BY <1>3, ViewEffect
  <2> QED BY <2>1 DEF OneView
<1> QED BY <1>1, <1>2, <1>3

(***************************************************************************)
(* A statement of a run takes every column it does not drop where the      *)
(* statement says.                                                         *)
(***************************************************************************)
LEMMA RunFollows ==
  ASSUME job \in Scenario, NEW d \in Database, NEW s \in Statement, Additive(Des, s)
  PROVE  Following(s, d.cols, Effect(d, s, job.des).cols)
<1>1. job.des \in Desired BY DesType
<1>2. s.op \in {"AddColumn", "ModifyColumn"} => Holds(job.des.cols, s.t, s.n)
  <2>1. s.op \in {"AddColumn", "ModifyColumn"} => Holds(Des.cols, s.t, s.n) BY DEF Additive
  <2>2. Des.cols \subseteq job.des.cols
    BY <1>1 DEF Des, FilteredDesired, Filtered, Desired, InTables
  <2> QED BY <2>1, <2>2 DEF Holds
<1> QED BY <1>2, ColumnFollows DEF Following

(***************************************************************************)
(* So a statement of a run leads from a consistent schema to one.          *)
(***************************************************************************)
LEMMA RunConsistent ==
  ASSUME job \in Scenario, Sane(job.des), NEW d \in Database, Consistent(d), NEW s \in Statement,
         Accepts(d, s, job.des), Additive(Des, s)
  PROVE  Consistent(Effect(d, s, job.des))
<1> DEFINE d2 == Effect(d, s, job.des)
<1>1. job.des \in Desired BY DesType
<1>2. Following(s, d.cols, d2.cols) BY RunFollows
<1>3. Rooted(d) /\ Checked(d) /\ OneRow(d.cols) /\ OneView(d) /\ Referring(d) BY DEF Consistent
<1>4. OneRow(job.des.cols) /\ OneView(job.des) BY DEF Sane
<1>5. Rooted(d2) BY <1>3, RunRooted
<1>6. OneRow(d2.cols) BY <1>1, <1>3, <1>4, RunOneRow
<1>7. OneView(d2) BY <1>3, <1>4, RunOneView
<1>8. Listed(d2, d2.pks \cup d2.keys) BY <1>1, <1>2, RunListed
<1>9. Referring(d2) BY <1>1, <1>2, <1>3, RunReferring
<1>10. Checked(d2) BY <1>3, RunChecked
<1> QED BY <1>5, <1>6, <1>7, <1>8, <1>9, <1>10 DEF Consistent

(***************************************************************************)
(* What the filters show of a consistent schema is whole.                  *)
(***************************************************************************)
LEMMA LiveWhole ==
  ASSUME NEW d \in Database, Consistent(d), NEW shown
  PROVE  Whole(Filtered(d, shown)) /\ Filtered(d, shown) \in Database
<1> DEFINE live == Filtered(d, shown)
<1>1. live \in Database BY DEF Filtered, Database, InTables
<1>2. /\ live.tables = d.tables \cap shown
      /\ live.cols = InTables(d.cols, shown) /\ live.pks = InTables(d.pks, shown)
      /\ live.keys = InTables(d.keys, shown) /\ live.fks = InTables(d.fks, shown)
      /\ live.checks = InTables(d.checks, shown)
      /\ live.views = {r \in d.views : r.n \in shown}
  BY DEF Filtered, Database
<1> HIDE DEF live
<1>3. /\ Rooted(d) /\ Checked(d) /\ OneRow(d.cols) /\ OneView(d)
      /\ Listed(d, d.pks \cup d.keys) /\ Referring(d)
  BY DEF Consistent
<1>4. ASSUME NEW t \in shown, NEW cols, Known(d, t, cols) PROVE Known(live, t, cols)
  BY <1>2, <1>4 DEF Known, Holds, InTables
<1>5. OneRow(live.cols) BY <1>2, <1>3 DEF OneRow, InTables
<1>6. OneView(live) BY <1>2, <1>3 DEF OneView
<1>7. \A r \in live.cols : r.t \in live.tables BY <1>2, <1>3 DEF Rooted, InTables
<1>8. ASSUME NEW t \in shown, NEW c, Holds(d.cols, t, c) PROVE t \in live.tables
  BY <1>2, <1>3, <1>8 DEF Rooted, Holds
<1>9. ASSUME NEW r \in live.pks \cup live.keys
      PROVE  r.t \in live.tables /\ Known(live, r.t, ListOf(r.cols))
  <2>1. r.t \in shown /\ r \in d.pks \cup d.keys BY <1>2 DEF InTables
  <2>2. r.cols # <<>> /\ Known(d, r.t, ListOf(r.cols)) BY <1>3, <2>1 DEF Listed
  <2>3. r.cols \in Seq(Columns) BY <2>1 DEF Database, PrimaryRow, IndexRow
  <2>4. 1 \in DOMAIN r.cols BY <2>2, <2>3
  <2>5. Holds(d.cols, r.t, r.cols[1]) BY <2>2, <2>4 DEF Known, ListOf
  <2> QED BY <1>4, <1>8, <2>1, <2>2, <2>5
<1>10. ASSUME NEW f \in live.fks
       PROVE  /\ f.t \in live.tables /\ Known(live, f.t, {f.col})
              /\ f.ref \in live.tables => Known(live, f.ref, {f.refcol})
  <2>1. f.t \in shown /\ f \in d.fks BY <1>2 DEF InTables
  <2>2. Known(d, f.t, {f.col}) /\ Known(d, f.ref, {f.refcol}) BY <1>3, <2>1 DEF Referring
  <2>3. f.t \in live.tables BY <1>8, <2>1, <2>2 DEF Known
  <2>4. f.ref \in live.tables => f.ref \in shown BY <1>2
  <2> QED BY <1>4, <2>1, <2>2, <2>3, <2>4
<1>11. \A r \in live.checks : r.t \in live.tables BY <1>2, <1>3 DEF Checked, InTables
<1>12. Whole(live) BY <1>5, <1>6, <1>7, <1>9, <1>10, <1>11 DEF Whole
<1> QED BY <1>1, <1>12 DEF live

(***************************************************************************)
(* What they show of placed files is placed.                               *)
(***************************************************************************)
LEMMA DesPlaced ==
  ASSUME NEW des \in Desired, Placed(des), NEW shown
  PROVE  Placed(FilteredDesired(des, shown))
<1> DEFINE x == FilteredDesired(des, shown)
<1>1. /\ x.tables = des.tables \cap shown
      /\ x.cols = InTables(des.cols, shown) /\ x.pks = InTables(des.pks, shown)
      /\ x.keys = InTables(des.keys, shown) /\ x.checks = InTables(des.checks, shown)
      /\ x.fks = InTables(des.fks, shown)
  BY DEF FilteredDesired, Filtered, Desired
<1> HIDE DEF x
<1>2. Placed(x)
  <2>1. SUFFICES ASSUME NEW r \in UNION {x.cols, x.pks, x.keys, x.checks, x.fks}
                 PROVE  r.t \in x.tables
    BY DEF Placed
  <2>2. r.t \in shown /\ r \in UNION {des.cols, des.pks, des.keys, des.checks, des.fks}
    BY <1>1 DEF InTables
  <2> QED BY <1>1, <2>2 DEF Placed
<1> QED BY <1>2 DEF x

(***************************************************************************)
(* The inductive invariant: as long as nobody else has changed the schema  *)
(* it stays consistent.                                                    *)
(***************************************************************************)
Regular == Consistent(job.db) /\ Sane(job.des)

StillConsistent == Regular /\ Undisturbed => Consistent(db)

LEMMA InitConsistent == Init => StillConsistent
BY DEF Init, StillConsistent, Regular

LEMMA NextConsistent == Safe /\ StillConsistent /\ [Next]_vars => StillConsistent'
<1> SUFFICES ASSUME Safe, StillConsistent, [Next]_vars, Regular', Undisturbed'
             PROVE  Consistent(db')
  BY DEF StillConsistent, Consistent, Rooted, Checked, Listed, Known, Referring, OneView
<1>1. job \in Scenario /\ db \in Database BY DEF Safe, TypeOK
<1>2. job' = job BY RunSteps
<1>3. Regular BY <1>2 DEF Regular
<1>4. foreign \in Nat /\ foreign' = 0 BY BoundAssumption DEF Safe, TypeOK, Undisturbed
<1>5. foreign = 0 BY <1>4, RunSteps
<1>6. Consistent(db) BY <1>3, <1>5 DEF StillConsistent, Undisturbed
<1>7. CASE db' = db BY <1>6, <1>7
<1>8. ASSUME NEW s \in Statement, Run(s), Additive(Des, s) PROVE Consistent(db')
  <2>1. Accepts(db, s, job.des) /\ db' = Effect(db, s, job.des) BY <1>8 DEF Run
  <2> QED BY <1>1, <1>3, <1>6, <1>8, <2>1, RunConsistent DEF Regular
<1> QED BY <1>4, <1>5, <1>7, <1>8, RunSteps

LEMMA AlwaysConsistent == Spec => []StillConsistent
<1>1. Spec => []Safe BY AlwaysSafe
<1> QED BY InitConsistent, NextConsistent, <1>1, PTL DEF Spec

(***************************************************************************)
(* A second plan that does nothing is a diff with nothing to do.           *)
(***************************************************************************)
LEMMA NothingPermitted ==
  ASSUME ToDo(LiveDiff) = {}
  PROVE  NothingToDo(Live, Des, job.allow)
<1>1. \A s \in LiveDiff : Permitted(job.allow, s) => Bare(s) \in ToDo(LiveDiff) BY DEF ToDo
<1> QED BY <1>1 DEF NothingToDo, LiveDiff

(***************************************************************************)
(* An empty second plan hides nothing: when what it would still do is      *)
(* nothing and what it skips is what the run that is done has reported,    *)
(* then everything the files declare is there and everything else has its  *)
(* `-- skipped:` line.  That is so for every schema, any files, filters and*)
(* policy, with any number of concurrent runs, crashes and reruns, as long *)
(* as nobody else changes the schema: the diff is complete, and the rewrite*)
(* passes, which make it work on predicted names, are then the identity.   *)
(***************************************************************************)
THEOREM EmptyPlanHidesNothing ==
  Spec => [](Consistent(job.db) /\ Sane(job.des) => (ReplanEmpty => NothingHidden))
<1>1. ASSUME Safe, StillConsistent
      PROVE  Consistent(job.db) /\ Sane(job.des) => (ReplanEmpty => NothingHidden)
  <2> SUFFICES ASSUME Regular, ReplanEmpty, Undisturbed, NEW p \in Clients, pc[p] = "done"
               PROVE  LET Told(op, t, n) == \E s \in Report(p) : s.op = op /\ s.t = t /\ s.n = n
                          Extra(rows, declared) == {r \in rows \ declared : r.t \in Des.tables}
                      IN  /\ \A x \in DOMAIN EmptySnapshot : Des[x] \subseteq Live[x]
                          /\ \A t \in Live.tables \ Des.tables : Told("DropTable", t, NoName)
                          /\ \A v \in ViewNames(Live.views \ Des.views) : Told("DropView", NoName, v)
                          /\ \A r \in Extra(Live.cols, Des.cols) : Told("DropColumn", r.t, r.n)
                          /\ \A r \in Extra(Live.keys, Des.keys) : Told("DropIndex", r.t, r.n)
                          /\ \A r \in Extra(Live.pks, Des.pks) \cup Extra(Live.checks, Des.checks) :
                               Told("DropConstraint", r.t, r.n)
                          /\ \A r \in Live.fks \ Des.fks : Told("DropForeignKey", r.t, r.n)
    BY DEF NothingHidden, Regular
  <2> DEFINE Told(op, t, n) == \E s \in Report(p) : s.op = op /\ s.t = t /\ s.n = n
  <2>1. job \in Scenario /\ db \in Database BY <1>1 DEF Safe, TypeOK
  <2>2. Des \in Desired BY <2>1, DesType
  <2>3. Consistent(db) BY <1>1 DEF StillConsistent
  <2>4. Live \in Database /\ Whole(Live) BY <2>1, <2>3, LiveWhole DEF Live
  <2>5. Placed(Des)
    <3>1. job.des \in Desired /\ Placed(job.des) BY <2>1, DesType DEF Regular, Sane
    <3> QED BY <3>1, DesPlaced DEF Des
  <2>6. ToDo(LiveDiff) = {} /\ Left(LiveDiff) = {Bare(s) : s \in Report(p)} BY DEF ReplanEmpty
  <2>7. NothingToDo(Live, Des, job.allow) BY <2>6, NothingPermitted
  <2>8. ASSUME NEW op, NEW t, NEW n, Says(Live, Des, job.allow, op, t, n) PROVE Told(op, t, n)
    <3>1. PICK s \in LiveDiff : s.op = op /\ s.t = t /\ s.n = n BY <2>8 DEF Says, LiveDiff
    <3>2. ~Permitted(job.allow, s) BY <2>7, <3>1 DEF NothingToDo, LiveDiff
    <3>3. Bare(s) \in Left(LiveDiff) BY <3>1, <3>2 DEF Left
    <3>4. PICK r \in Report(p) : Bare(r) = Bare(s) BY <2>6, <3>3
    <3>5. r.op = s.op /\ r.t = s.t /\ r.n = s.n BY <3>4 DEF Bare
    <3> QED BY <3>1, <3>5
  <2> HIDE DEF Told
  <2>9. \A x \in DOMAIN EmptySnapshot : Des[x] \subseteq Live[x]
    BY <2>2, <2>4, <2>5, <2>7, AllDeclaredThere
  <2>10. /\ \A t \in Live.tables \ Des.tables : Told("DropTable", t, NoName)
         /\ \A v \in ViewNames(Live.views \ Des.views) : Told("DropView", NoName, v)
         /\ \A r \in Live.cols \ Des.cols : r.t \in Des.tables => Told("DropColumn", r.t, r.n)
         /\ \A r \in Live.keys \ Des.keys : r.t \in Des.tables => Told("DropIndex", r.t, r.n)
         /\ \A r \in (Live.pks \ Des.pks) \cup (Live.checks \ Des.checks) :
              r.t \in Des.tables => Told("DropConstraint", r.t, r.n)
         /\ \A r \in Live.fks \ Des.fks : Told("DropForeignKey", r.t, r.n)
    BY <2>2, <2>4, <2>5, <2>7, <2>8, AllElseSaid
  <2> QED BY <2>9, <2>10 DEF Told
<1> QED BY <1>1, AlwaysSafe, AlwaysConsistent, PTL

-----------------------------------------------------------------------------
(***************************************************************************)
(* A run that is done has converged.                                       *)
(*                                                                         *)
(* The guarded objects: a run knows a block as applied, has still to check *)
(* it, or has still to run it.                                             *)
(***************************************************************************)
Handled(stage, objects, unchecked, todo, g) ==
  stage \in {"check", "exec", "done"} =>
    \/ g \in objects
    \/ stage = "check" /\ g \in unchecked
    \/ stage # "done" /\ ExecuteStmt(g) \in todo

AllHandled ==
  \A p \in Clients : \A g \in job.des.guards :
    Handled(pc[p], db.objects, checks[p], pending[p], g)

LEMMA ObjectsKept ==
  ASSUME NEW d \in Database, NEW s, NEW text
  PROVE  /\ d.objects \subseteq Effect(d, s, text).objects
         /\ s.op = "Execute" => s.n \in Effect(d, s, text).objects
<1>1. CASE s.op \in DropOps
  <2>1. Effect(d, s, text) = Without(d, s) BY <1>1, OneEffect
  <2> QED BY <1>1, <2>1 DEF Without, Database, DropOps
<1>2. CASE s.op \in RenameOps
  <2>1. Effect(d, s, text) = Renamed(d, s) BY <1>2, OneEffect
  <2> QED BY <1>2, <2>1 DEF Renamed, Database, RenameOps
<1>3. CASE s.op \notin DropOps \cup RenameOps
  <2>1. Effect(d, s, text) = With(d, s, text) BY <1>3, OneEffect
  <2> QED BY <1>3, <2>1 DEF With, Database, RenameOps, DropOps
<1> QED BY <1>1, <1>2, <1>3

(***************************************************************************)
(* A step of a client changes the stage and the lists of that client only. *)
(***************************************************************************)
LEMMA OthersHandled ==
  ASSUME TypeOK, AllHandled, job' = job, db.objects \subseteq db'.objects, NEW p \in Clients,
         NEW stage, pc' = [pc EXCEPT ![p] = stage] \/ (pc' = pc /\ stage = pc[p]),
         NEW unchecked, checks' = [checks EXCEPT ![p] = unchecked],
         NEW todo, pending' = [pending EXCEPT ![p] = todo],
         \A g \in job.des.guards : Handled(stage, db'.objects, unchecked, todo, g)
  PROVE  AllHandled'
<1>1. SUFFICES ASSUME NEW q \in Clients, NEW g \in job.des.guards
               PROVE  Handled(pc'[q], db'.objects, checks'[q], pending'[q], g)
  BY DEF AllHandled, Handled
<1>2. CASE q = p
  <2>1. pc'[q] = stage /\ checks'[q] = unchecked /\ pending'[q] = todo BY <1>2 DEF TypeOK
  <2> QED BY <2>1
<1>3. CASE q # p
  <2>1. pc'[q] = pc[q] /\ checks'[q] = checks[q] /\ pending'[q] = pending[q] BY <1>3 DEF TypeOK
  <2>2. Handled(pc[q], db.objects, checks[q], pending[q], g) BY DEF AllHandled
  <2> QED BY <2>1, <2>2 DEF Handled
<1> QED BY <1>2, <1>3

(***************************************************************************)
(* Nor do they change when nothing is done to them.                        *)
(***************************************************************************)
LEMMA NoneHandled ==
  ASSUME AllHandled, UNCHANGED <<job, pc, checks, pending>>, db.objects \subseteq db'.objects
  PROVE  AllHandled'
BY DEF AllHandled, Handled

LEMMA StepHandled ==
  ASSUME TypeOK, AllHandled, NEW p \in Clients, Step(p)
  PROVE  AllHandled'
<1> USE DEF TypeOK
<1>1. ASSUME NEW g \in job.des.guards
      PROVE  Handled(pc[p], db.objects, checks[p], pending[p], g)
  BY DEF AllHandled
<1>2. CASE Read(p)
  <2>1. UNCHANGED <<db, job, checks, pending>> /\ \/ pc' = pc
                                                  \/ pc' = [pc EXCEPT ![p] = "load"]
                                                  \/ pc' = [pc EXCEPT ![p] = "diff"]
    BY <1>2 DEF Read, ListTables, LoadViews, LoadColumns, LoadIndexes, LoadCheckConstraints,
                LoadForeignKeys, Query
  <2>2. checks' = [checks EXCEPT ![p] = checks[p]] /\ pending' = [pending EXCEPT ![p] = pending[p]]
    BY <2>1
  <2>3. CASE pc' = pc BY <2>1, <2>3, NoneHandled
  <2>4. ASSUME NEW stage \in {"load", "diff"}, pc' = [pc EXCEPT ![p] = stage] PROVE AllHandled'
    <3>1. \A g \in job.des.guards : Handled(stage, db'.objects, checks[p], pending[p], g)
      BY <2>4 DEF Handled
    <3> QED BY <2>1, <2>2, <2>4, <3>1, OthersHandled
  <2> QED BY <2>1, <2>3, <2>4
<1>3. ASSUME NEW stage \in {"refused", "failed"}, Forget(p, stage), UNCHANGED <<db, job>>
      PROVE  AllHandled'
  <2>1. \A g \in job.des.guards : Handled(stage, db'.objects, {}, {}, g) BY DEF Handled
  <2>2. /\ pc' = [pc EXCEPT ![p] = stage] /\ checks' = [checks EXCEPT ![p] = {}]
        /\ pending' = [pending EXCEPT ![p] = {}]
    BY <1>3 DEF Forget
  <2> QED BY <1>3, <2>1, <2>2, OthersHandled
<1>4. CASE DiffAll(p)
  <2> DEFINE todo == Planned(Cur(p), Des, job.allow)
  <2>1. /\ UNCHANGED <<db, job>> /\ pc' = [pc EXCEPT ![p] = "check"]
        /\ checks' = [checks EXCEPT ![p] = job.des.guards]
        /\ pending' = [pending EXCEPT ![p] = todo]
    BY <1>4 DEF DiffAll
  <2>2. \A g \in job.des.guards : Handled("check", db'.objects, job.des.guards, todo, g)
    BY DEF Handled
  <2> HIDE DEF todo
  <2> QED BY <2>1, <2>2, OthersHandled
<1>5. ASSUME NEW g \in Guards, CheckExecute(p, g) PROVE AllHandled'
  <2> DEFINE unchecked == checks[p] \ {g}
             todo == IF executeCheckMatched(g) THEN pending[p] ELSE pending[p] \cup {ExecuteStmt(g)}
  <2>1. UNCHANGED <<db, job, pc>> /\ pc[p] = "check" /\ checks' = [checks EXCEPT ![p] = unchecked]
    BY <1>5 DEF CheckExecute
  <2>2. pending' = [pending EXCEPT ![p] = todo]
    <3>1. CASE executeCheckMatched(g)
      <4>1. pending' = pending BY <1>5, <3>1 DEF CheckExecute
      <4> QED BY <3>1, <4>1
    <3>2. CASE ~executeCheckMatched(g) BY <1>5, <3>2 DEF CheckExecute
    <3> QED BY <3>1, <3>2
  <2>3. pending[p] \subseteq todo /\ (g \in db.objects \/ ExecuteStmt(g) \in todo)
    BY DEF executeCheckMatched
  <2> HIDE DEF todo
  <2>4. \A h \in job.des.guards : Handled("check", db'.objects, unchecked, todo, h)
    BY <1>1, <2>1, <2>3 DEF Handled
  <2> HIDE DEF unchecked
  <2> QED BY <2>1, <2>2, <2>4, OthersHandled
<1>6. CASE StartExec(p)
  <2>1. /\ UNCHANGED <<db, job, checks, pending>> /\ pc[p] = "check" /\ checks[p] = {}
        /\ pc' = [pc EXCEPT ![p] = "exec"]
    BY <1>6 DEF StartExec
  <2>2. \A g \in job.des.guards : Handled("exec", db'.objects, checks[p], pending[p], g)
    BY <1>1, <2>1 DEF Handled
  <2>3. checks' = [checks EXCEPT ![p] = checks[p]] /\ pending' = [pending EXCEPT ![p] = pending[p]]
    BY <2>1
  <2> QED BY <2>1, <2>2, <2>3, OthersHandled
<1>7. ASSUME NEW s \in Ready(p), Exec(p, s) PROVE AllHandled'
  <2> DEFINE todo == pending[p] \ {s}
  <2>1. /\ UNCHANGED <<job, pc, checks>> /\ pc[p] = "exec" /\ db' = Effect(db, s, job.des)
        /\ pending' = [pending EXCEPT ![p] = todo]
    BY <1>7 DEF Exec, Run, Ready
  <2>2. /\ db.objects \subseteq db'.objects
        /\ s.op = "Execute" => s.n \in db'.objects
    BY <2>1, ObjectsKept
  <2>3. \A g : s = ExecuteStmt(g) => s.op = "Execute" /\ s.n = g BY DEF ExecuteStmt, Stmt
  <2>4. \A g \in job.des.guards : Handled("exec", db'.objects, checks[p], todo, g)
    BY <1>1, <2>1, <2>2, <2>3 DEF Handled
  <2>5. checks' = [checks EXCEPT ![p] = checks[p]] BY <2>1
  <2> HIDE DEF todo
  <2> QED BY <2>1, <2>2, <2>4, <2>5, OthersHandled
<1>8. CASE Finish(p)
  <2>1. /\ UNCHANGED <<db, job, checks, pending>> /\ pc[p] = "exec" /\ pending[p] = {}
        /\ pc' = [pc EXCEPT ![p] = "done"]
    BY <1>8 DEF Finish
  <2>2. \A g \in job.des.guards : Handled("done", db'.objects, checks[p], pending[p], g)
    BY <1>1, <2>1 DEF Handled
  <2>3. checks' = [checks EXCEPT ![p] = checks[p]] /\ pending' = [pending EXCEPT ![p] = pending[p]]
    BY <2>1
  <2> QED BY <2>1, <2>2, <2>3, OthersHandled
<1>9. CASE DiffRefused(p) BY <1>3, <1>9 DEF DiffRefused
<1>10. ASSUME NEW s \in Ready(p), Reject(p, s) PROVE AllHandled'
  BY <1>3, <1>10 DEF Reject
<1> QED BY <1>2, <1>4, <1>5, <1>6, <1>7, <1>8, <1>9, <1>10 DEF Step

LEMMA NextHandled == TypeOK /\ AllHandled /\ [Next]_vars => AllHandled'
<1> SUFFICES ASSUME TypeOK, AllHandled, [Next]_vars PROVE AllHandled' OBVIOUS
<1>1. ASSUME NEW p \in Clients, Crash(p) PROVE AllHandled'
  <2>1. /\ pc' = [pc EXCEPT ![p] = "failed"] /\ checks' = [checks EXCEPT ![p] = {}]
        /\ pending' = [pending EXCEPT ![p] = {}] /\ UNCHANGED <<db, job>>
    BY <1>1 DEF Crash, Forget
  <2>2. \A g \in job.des.guards : Handled("failed", db'.objects, {}, {}, g) BY DEF Handled
  <2> QED BY <2>1, <2>2, OthersHandled
<1>2. ASSUME NEW p \in Clients, Rerun(p) PROVE AllHandled'
  <2>1. /\ pc' = [pc EXCEPT ![p] = "start"] /\ checks' = [checks EXCEPT ![p] = checks[p]]
        /\ pending' = [pending EXCEPT ![p] = pending[p]] /\ UNCHANGED <<db, job>>
    BY <1>2 DEF Rerun, TypeOK
  <2>2. \A g \in job.des.guards : Handled("start", db'.objects, checks[p], pending[p], g)
    BY DEF Handled
  <2> QED BY <2>1, <2>2, OthersHandled
<1>3. ASSUME NEW s \in ForeignDDL, SomebodyElse(s) PROVE AllHandled'
  <2>1. db' = Effect(db, s, job.des) /\ UNCHANGED <<job, pc, checks, pending>>
    BY <1>3 DEF SomebodyElse, Run, client
  <2>2. db.objects \subseteq db'.objects BY <2>1, ObjectsKept DEF TypeOK
  <2> QED BY <2>1, <2>2, NoneHandled
<1>4. CASE UNCHANGED vars BY <1>4, NoneHandled DEF vars
<1> QED BY <1>1, <1>2, <1>3, <1>4, StepHandled DEF Next

LEMMA AlwaysHandled == Spec => []AllHandled
<1>1. Init => AllHandled BY DEF Init, AllHandled, Handled
<1>2. Spec => []TypeOK BY TypeCorrect
<1> QED BY <1>1, <1>2, NextHandled, PTL DEF Spec

(***************************************************************************)
(* The data of a column is in a column that is there: it goes where the    *)
(* column goes, and is discarded with it.                                  *)
(***************************************************************************)
There(cols, place) == place # Nowhere => Holds(cols, place[1], place[2])

StillThere == Undisturbed => \A g \in DOMAIN cell : There(db.cols, cell[g])

LEMMA RunThere ==
  ASSUME NEW c, NEW s \in Statement, NEW g \in DOMAIN c, c[g] \in Place \cup {Nowhere},
         NEW cols, NEW cols2, Following(s, cols, cols2), There(cols, c[g])
  PROVE  There(cols2, Carried(c, s)[g])
<1> DEFINE at == c[g]
<1>1. Carried(c, s)[g] =
        CASE s.op = "RenameTable" /\ at[1] = s.t        -> <<s.to, at[2]>>
          [] s.op = "RenameColumn" /\ at = <<s.t, s.n>> -> <<s.t, s.to>>
          [] s.op = "DropColumn" /\ at = <<s.t, s.n>>   -> Nowhere
          [] s.op = "DropTable" /\ at[1] = s.t          -> Nowhere
          [] OTHER                                      -> at
  BY DEF Carried
<1>2. NoName \notin Names BY NoNameAssumption, KindsAre
<1>3. s.op \in {"RenameTable", "RenameColumn"} => s.t \in Names BY DEF Statement
<1>4. at \in Place \cup {Nowhere} /\ There(cols, at) OBVIOUS
<1> HIDE DEF at
<1>5. CASE at = Nowhere
  <2>1. Carried(c, s)[g] = Nowhere BY <1>1, <1>2, <1>3, <1>5 DEF Nowhere
  <2> QED BY <2>1 DEF There
<1>6. CASE at # Nowhere
  <2>1. at = <<at[1], at[2]>> BY <1>4, <1>6 DEF Place
  <2>2. Holds(cols, at[1], at[2]) BY <1>4, <1>6 DEF There
  <2>3. CASE Dropped(s, at[1], at[2])
    <3>1. Carried(c, s)[g] = Nowhere BY <1>1, <2>1, <2>3 DEF Dropped
    <3> QED BY <3>1 DEF There
  <2>4. CASE ~Dropped(s, at[1], at[2])
    <3> DEFINE home == NewHome(s, at[1], at[2])
    <3>1. Carried(c, s)[g] = home
      <4>1. CASE s.op = "RenameTable" BY <1>1, <2>1, <4>1 DEF NewHome, Swap
      <4>2. CASE s.op = "RenameColumn" BY <1>1, <2>1, <4>2 DEF NewHome, Swap
      <4>3. CASE s.op \notin {"RenameTable", "RenameColumn"}
        <5>1. home = at BY <2>1, <4>3 DEF NewHome
        <5>2. /\ ~(s.op = "DropTable" /\ at[1] = s.t)
              /\ ~(s.op = "DropColumn" /\ at = <<s.t, s.n>>)
          BY <2>1, <2>4 DEF Dropped
        <5>3. Carried(c, s)[g] = at BY <1>1, <4>3, <5>2
        <5> QED BY <5>1, <5>3
      <4> QED BY <4>1, <4>2, <4>3
    <3>2. Holds(cols2, home[1], home[2]) BY <2>2, <2>4 DEF Following
    <3> QED BY <3>1, <3>2 DEF There
  <2> QED BY <2>3, <2>4
<1> QED BY <1>5, <1>6

LEMMA InitThere == Init => StillThere
<1> SUFFICES ASSUME Init, NEW g \in DOMAIN cell PROVE There(db.cols, cell[g]) BY DEF StillThere
<1>1. g \in Origin(db) /\ cell[g] = g BY DEF Init
<1>2. PICK r \in db.cols : g = <<r.t, r.n>> BY <1>1 DEF Origin
<1> QED BY <1>1, <1>2 DEF There, Holds

LEMMA NextThere == Safe /\ StillThere /\ [Next]_vars => StillThere'
<1> SUFFICES ASSUME Safe, StillThere, [Next]_vars, Undisturbed', NEW g \in DOMAIN cell'
             PROVE  There(db'.cols, cell'[g])
  BY DEF StillThere, There
<1>1. job \in Scenario /\ db \in Database /\ cell \in [Origin(job.db) -> Place \cup {Nowhere}]
  BY DEF Safe, TypeOK
<1>2. foreign \in Nat /\ foreign' = 0 BY BoundAssumption DEF Safe, TypeOK, Undisturbed
<1>3. foreign = 0 BY <1>2, RunSteps
<1>4. \A h \in DOMAIN cell : There(db.cols, cell[h]) BY <1>3 DEF StillThere, Undisturbed
<1>5. CASE UNCHANGED <<db, cell>> BY <1>4, <1>5
<1>6. ASSUME NEW s \in Statement, Run(s), Additive(Des, s) PROVE There(db'.cols, cell'[g])
  <2>1. db' = Effect(db, s, job.des) /\ cell' = Carried(cell, s) BY <1>6 DEF Run
  <2>2. DOMAIN cell' = DOMAIN cell BY <2>1 DEF Carried
  <2>3. Following(s, db.cols, db'.cols) BY <1>1, <1>6, <2>1, RunFollows
  <2>4. g \in DOMAIN cell /\ cell[g] \in Place \cup {Nowhere} /\ There(db.cols, cell[g])
    BY <1>1, <1>4, <2>2
  <2> QED BY <2>1, <2>3, <2>4, RunThere
<1> QED BY <1>2, <1>3, <1>5, <1>6, RunSteps

LEMMA AlwaysThere == Spec => []StillThere
<1>1. Spec => []Safe BY AlwaysSafe
<1> QED BY InitThere, NextThere, <1>1, PTL DEF Spec

(***************************************************************************)
(* The filters hide no table that a declared one is renamed from.          *)
(***************************************************************************)
SourcesShown == \A r \in TableDirectives(Des) : r.old \in job.shown

(***************************************************************************)
(* With nothing left to do, claimed data has arrived: where it still was   *)
(* at its source, or under the new table name only, a directive would be   *)
(* in effect.                                                              *)
(***************************************************************************)
LEMMA Arrived ==
  ASSUME Safe, Regular, SourcesShown, Consistent(db), \A g \in DOMAIN cell : There(db.cols, cell[g]),
         NothingToDo(Live, Des, job.allow), \A x \in DOMAIN EmptySnapshot : Live[x] = Des[x],
         NEW g \in DOMAIN cell, Claimed(Des, g)
  PROVE  cell[g] = <<NewTable(Des, g[1]), NewColumn(Des, NewTable(Des, g[1]), g[2])>>
<1> DEFINE T == NewTable(Des, g[1])
           C == NewColumn(Des, T, g[2])
<1>1. job \in Scenario /\ db \in Database /\ cell \in [Origin(job.db) -> Place \cup {Nowhere}]
  BY DEF Safe, TypeOK
<1>2. Live \in Database /\ Live.tables = Des.tables BY <1>1, LiveWhole DEF EmptySnapshot, Live
<1>3. /\ Live.tables = db.tables \cap job.shown
      /\ Live.cols = InTables(db.cols, job.shown)
  BY <1>1 DEF Live, Filtered, Database
<1>4. Rooted(db) BY DEF Consistent
<1>5. T \in Des.tables BY DEF Claimed
<1>6. ASSUME NEW t \in job.shown, NEW c, Holds(db.cols, t, c)
      PROVE  t \in Live.tables /\ Holds(Live.cols, t, c)
  BY <1>3, <1>4, <1>6 DEF Holds, Rooted, InTables
<1>7. ASSUME NEW t \in Live.tables
      PROVE  /\ NewTable(Des, t) = t
             /\ \A c : Holds(Live.cols, t, c) => NewColumn(Des, t, c) = c
  BY <1>2, NamesSettled DEF NewTable, NewColumn
<1>8. cell[g] \in {g, <<T, g[2]>>, <<T, C>>} BY DEF Safe, DataKept, Route
<1>9. g \in Place
  <2>1. g \in Origin(job.db) BY <1>1
  <2>2. job.db \in Database BY <1>1 DEF Scenario
  <2> QED BY <2>1, <2>2 DEF Origin, Database, ColumnRow, Place
<1>10. g = <<g[1], g[2]>> /\ g[1] \in Names BY <1>9 DEF Place
<1>11. NoName \notin Names BY NoNameAssumption, KindsAre
<1>12. T \in Names /\ T \in job.shown BY <1>2, <1>3, <1>5 DEF Database
<1> HIDE DEF T, C
<1>13. cell[g] # Nowhere
  <2>1. cell[g][1] \in {g[1], T} BY <1>8
  <2> QED BY <1>10, <1>11, <1>12, <2>1 DEF Nowhere
<1>14. Holds(db.cols, cell[g][1], cell[g][2]) BY <1>13 DEF There
<1>15. CASE cell[g] = <<T, g[2]>>
  <2>1. T \in Live.tables /\ Holds(Live.cols, T, g[2]) BY <1>6, <1>12, <1>14, <1>15
  <2> QED BY <1>7, <1>15, <2>1 DEF C, T
<1>16. CASE cell[g] = g /\ g # <<T, g[2]>>
  <2>1. g[1] # T BY <1>10, <1>16
  <2>2. g[1] \in job.shown
    <3>1. \E r \in TableDirectives(Des) : r.old = g[1] BY <2>1 DEF T, NewTable, NewName
    <3> QED BY <3>1 DEF SourcesShown
  <2>3. g[1] \in Live.tables BY <1>6, <1>14, <1>16, <2>2
  <2> QED BY <1>7, <2>1, <2>3 DEF T
<1>17. CASE cell[g] = <<T, C>> BY <1>17 DEF T, C
<1> QED BY <1>8, <1>15, <1>16, <1>17

(***************************************************************************)
(* A run that is done under --allow-drop=all, and whose second plan is     *)
(* empty, has converged: the shown schema is the declared one, every       *)
(* guarded block is applied, and the data of every claimed column is where *)
(* the directives say.  That is so for every schema, any files and filters,*)
(* as long as nobody else changes the schema and the filters hide no table *)
(* that a declared one is renamed from.                                    *)
(***************************************************************************)
THEOREM EmptyPlanConverges ==
  Spec => [](Consistent(job.db) /\ Sane(job.des) /\ SourcesShown /\ Undisturbed /\ Clients # {}
               => (ReplanEmpty => DoneConverged))
<1>1. ASSUME Safe, StillConsistent, StillThere, AllHandled
      PROVE  Consistent(job.db) /\ Sane(job.des) /\ SourcesShown /\ Undisturbed /\ Clients # {}
               => (ReplanEmpty => DoneConverged)
  <2> SUFFICES ASSUME Regular, SourcesShown, Undisturbed, Clients # {}, ReplanEmpty,
                      AllDone, "all" \in job.allow
               PROVE  Converged
    BY DEF DoneConverged, Regular
  <2>1. PICK p \in Clients : pc[p] = "done" BY DEF AllDone
  <2>2. ToDo(LiveDiff) = {} BY <2>1 DEF ReplanEmpty
  <2>3. NothingToDo(Live, Des, job.allow) BY <2>2, NothingPermitted
  <2>4. job \in Scenario /\ db \in Database BY <1>1 DEF Safe, TypeOK
  <2>5. Consistent(db) BY <1>1 DEF StillConsistent
  <2>6. Live \in Database /\ Whole(Live) BY <2>4, <2>5, LiveWhole DEF Live
  <2>7. Des \in Desired /\ Placed(Des)
    <3>1. Des \in Desired /\ job.des \in Desired /\ Placed(job.des)
      BY <2>4, DesType DEF Regular, Sane
    <3> QED BY <3>1, DesPlaced DEF Des
  <2>8. \A x \in DOMAIN EmptySnapshot : Live[x] = Des[x] BY <2>3, <2>6, <2>7, NothingBesides
  <2>9. job.des.guards \subseteq db.objects BY <1>1, <2>1 DEF AllHandled, Handled
  <2>10. \A g \in DOMAIN cell : There(db.cols, cell[g]) BY <1>1 DEF StillThere
  <2>11. ASSUME NEW g \in DOMAIN cell, Claimed(Des, g)
         PROVE  cell[g] = <<NewTable(Des, g[1]), NewColumn(Des, NewTable(Des, g[1]), g[2])>>
    BY <1>1, <2>3, <2>5, <2>8, <2>10, <2>11, Arrived
  <2> QED BY <2>8, <2>9, <2>11 DEF Converged
<1> QED BY <1>1, AlwaysSafe, AlwaysConsistent, AlwaysThere, AlwaysHandled, PTL
=============================================================================
