------------------------------ MODULE Universe ------------------------------
(***************************************************************************)
(* Small universes of schemas for the model-checking runs.                 *)
(***************************************************************************)
EXTENDS ApplyProperties

(***************************************************************************)
(* Schemas MySQL can hold: every reference resolves, every foreign key is  *)
(* covered on both sides, names are unique where MySQL wants them so.      *)
(***************************************************************************)
Unique(rows) == \A r, s \in rows : r.t = s.t /\ r.n = s.n => r = s

WellFormed(d) ==
  /\ Unique(d.cols) /\ Unique(d.pks) /\ Unique(d.keys) /\ Unique(d.checks) /\ Unique(d.fks)
  /\ \A t \in d.tables : Of(d.cols, t) # {}
  /\ \A r \in d.cols : r.t \in d.tables
  /\ \A r \in d.pks \cup d.keys : Known(d, r.t, ListOf(r.cols))
  /\ \A r \in d.checks : Known(d, r.t, r.on)
  /\ \A r, s \in d.checks : r.n = s.n => r = s
  /\ \A f \in d.fks : Known(d, f.t, {f.col}) /\ Known(d, f.ref, {f.refcol})
  /\ \A f, g \in d.fks : f.n = g.n => f = g
  /\ Covered(d)
  /\ \A v, w \in d.views : v.n = w.n => v = w
  /\ ViewNames(d.views) \cap d.tables = {}
  /\ \A v \in d.views : v.from \subseteq Relations(d) \ {v.n}
  /\ ~Cyclic(d.views)

AsDatabase(s, objects) ==
  [tables |-> s.tables, cols |-> s.cols, pks |-> s.pks, keys |-> s.keys,
   checks |-> s.checks, fks |-> s.fks, views |-> s.views, objects |-> objects]

AsDesired(s, renames, guards) ==
  [tables |-> s.tables, cols |-> s.cols, pks |-> s.pks, keys |-> s.keys,
   checks |-> s.checks, fks |-> s.fks, views |-> s.views,
   renames |-> renames, guards |-> guards]

Plannable(s, des, shown) ==
  ~Refused(Filtered(AsDesired(s, {}, {}), shown), FilteredDesired(des, shown))

(***************************************************************************)
(* What keeps a plan from running through although the diff accepts it:    *)
(* the renamed-column case CAVEATS.md describes, a primary key dropped by  *)
(* name after all its columns, the covering index of run CoveringIndex,    *)
(* and the renames below.                                                  *)
(***************************************************************************)
CheckedColumnTouched(cur, des) ==
  \E r \in RenamedTables(cur, des).checks : r.t \in des.tables /\
     \E c \in r.on : ~Holds(des.cols, r.t, c)

PrimaryKeyColumnsDropped(now, des) ==
  \E r \in now.pks : r.t \in des.tables /\
     \A c \in ListOf(r.cols) : ~Holds(des.cols, r.t, c)

CoveringKeyReplaced(now, des) ==
  \E f \in now.fks \cap des.fks :
    ~Covered([pks  |-> now.pks \cap des.pks,
              keys |-> now.keys \cap des.keys,
              fks  |-> {f}])

(***************************************************************************)
(* Renamed objects that are dropped and added anew: between the two steps  *)
(* neither name exists.                                                    *)
(***************************************************************************)
RenamedByReplacement(now, des) ==
  \E r \in des.renames :
    \/ r.kind \in {"constraint", "foreign_key"} /\ r.old # r.new
    \/ r.kind = "index" /\ The(now.keys, r.t, r.new) # The(des.keys, r.t, r.new)

Unobstructed(s, des, shown) ==
  LET cur  == Filtered(AsDesired(s, {}, {}), shown)
      want == FilteredDesired(des, shown)
      now  == UnderNewNames(cur, want)
  IN  /\ ~CheckedColumnTouched(cur, want)
      /\ ~PrimaryKeyColumnsDropped(now, want)
      /\ ~CoveringKeyReplaced(now, want)
      /\ ~RenamedByReplacement(now, want)

Directive(kind, t, old, new) == [kind |-> kind, t |-> t, old |-> old, new |-> new]

Col(t, c, d)      == [t |-> t, n |-> c, def |-> d]
Pk(t, cols)       == [t |-> t, n |-> PrimaryKey, cols |-> cols]
Key(t, k, cols)   == [t |-> t, n |-> k, cols |-> cols]
Check(t, k, on)   == [t |-> t, n |-> k, on |-> on]
Fk(f, t, c, u, d) == [t |-> t, n |-> f, col |-> c, ref |-> u, refcol |-> d]
View(v, from)     == [n |-> v, from |-> from]
=============================================================================
