------------------------------ MODULE Custody ------------------------------
(***************************************************************************)
(* What a migration may do to user data, without schemas, plans or         *)
(* clients: the data of a column stays, moves along a declared rename, or  *)
(* is discarded when nobody claims it and the operator opted in.           *)
(***************************************************************************)
CONSTANTS Places, Nowhere

VARIABLES
  cell,  \* where the data of every column of the first schema is
  deed   \* what was ordered: claimed columns, declared renames, discards

Deed == [claimed : SUBSET Places,
         renames : SUBSET (Places \X Places),
         discard : BOOLEAN]

Init ==
  /\ deed \in Deed
  /\ \E origin \in SUBSET Places : cell = [g \in origin |-> g]

Keep(g)    == cell'[g] = cell[g]
Move(g)    == <<cell[g], cell'[g]>> \in deed.renames
Discard(g) == g \notin deed.claimed /\ deed.discard /\ cell'[g] = Nowhere

Next ==
  /\ cell' \in [DOMAIN cell -> Places \cup {Nowhere}]
  /\ \A g \in DOMAIN cell : Keep(g) \/ Move(g) \/ Discard(g)
  /\ UNCHANGED deed

Spec == Init /\ [][Next]_<<cell, deed>>

(***************************************************************************)
(* Claimed data is never discarded.                                        *)
(***************************************************************************)
ClaimedKept == \A g \in DOMAIN cell : g \in deed.claimed => cell[g] # Nowhere
=============================================================================
