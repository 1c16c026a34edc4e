----------------------------- MODULE ViewCutover -----------------------------
(***************************************************************************)
(* What an apply may do to the views of a schema, without sorting, plans   *)
(* or crashes: one view at a time takes its new body, when all that the    *)
(* body reads is there and each of it that is wanted has its own; or one   *)
(* that nobody wants goes, when no other unwanted view reads it.           *)
(***************************************************************************)
VARIABLES
  db,      \* views on the server: name to body
  files,   \* views wanted
  allowed  \* unwanted views may be dropped

New(v)      == v \in DOMAIN db /\ v \in DOMAIN files /\ db[v] = files[v]
Unwanted(v) == v \in DOMAIN db \ DOMAIN files

Init == allowed \in BOOLEAN

Bring(v) ==
  /\ \A w \in files[v] : w \in DOMAIN db /\ (w \in DOMAIN files => New(w))
  /\ db' = [k \in DOMAIN db \cup {v} |-> IF k = v THEN files[v] ELSE db[k]]

Remove(v) ==
  /\ allowed
  /\ \A w \in DOMAIN db : Unwanted(w) /\ v \in db[w] => w = v
  /\ db' = [k \in DOMAIN db \ {v} |-> db[k]]

Next ==
  /\ \/ \E v \in DOMAIN files : ~New(v) /\ Bring(v)
     \/ \E v \in DOMAIN db : Unwanted(v) /\ Remove(v)
  /\ UNCHANGED <<files, allowed>>

Spec == Init /\ [][Next]_<<db, files, allowed>>
=============================================================================
