--------------------------- MODULE ViewProperties ---------------------------
(***************************************************************************)
(* What an apply of the views of a schema should do.                       *)
(***************************************************************************)
EXTENDS ViewApply

(***************************************************************************)
(* Of files that have all they read, the server takes every statement,     *)
(* wherever the last run died: what a body reads is there and readable,    *)
(* and a view that is replaced is not read by its own new body through an  *)
(* old one.  (Drops come first and may have broken views that other bodies *)
(* go through.)                                                            *)
(***************************************************************************)
Whole(d) == \A v \in DOMAIN d : d[v] \subseteq DOMAIN d \ {v}

NeverRejected ==
  Whole(job.files) /\ pc = "apply" /\ pending # <<>> => Accepts(db, Head(pending))

(***************************************************************************)
(* Every statement is one that the abstract specification allows.          *)
(***************************************************************************)
Cutover == INSTANCE ViewCutover WITH files <- job.files, allowed <- job.allowed

ImplementsCutover == Cutover!Spec

(***************************************************************************)
(* Unless the files are refused for a cycle or lack something they read,   *)
(* the wanted views are brought to their files whatever runs have died,    *)
(* and the others are gone if they may be dropped; and then no later run   *)
(* changes anything.                                                       *)
(***************************************************************************)
Reached ==
  /\ \A v \in DOMAIN job.files : v \in DOMAIN db /\ db[v] = job.files[v]
  /\ job.allowed => DOMAIN db = DOMAIN job.files

Settles ==
  Whole(job.files) => <>[](pc = "refused" \/ (Reached /\ pending = <<>>))

(***************************************************************************)
(* diff/views.go:33: drops run in reverse order "so a view that depends on *)
(* another isn't left dangling".  On a server where every body could be    *)
(* read, the only views that are ever left without something they read are *)
(* the ones that the files keep with another body, until they get it, or   *)
(* with a body that reads what the files have not.                         *)
(***************************************************************************)
OnlyChangedDangle ==
  Whole(job.start) =>
    \A v \in DOMAIN db :
      ~(db[v] \subseteq DOMAIN db) =>
        /\ v \in DOMAIN job.files
        /\ db[v] # job.files[v] \/ ~(job.files[v] \subseteq DOMAIN job.files)
=============================================================================
