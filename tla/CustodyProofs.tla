---------------------------- MODULE CustodyProofs ----------------------------
(***************************************************************************)
(* That the abstract specification itself does what it is stated for.      *)
(***************************************************************************)
EXTENDS Custody, TLAPS

(***************************************************************************)
(* Data somebody claims is always somewhere, whatever is renamed and       *)
(* discarded around it.                                                    *)
(***************************************************************************)
THEOREM ClaimedStays ==
  ASSUME Nowhere \notin Places
  PROVE  Spec => []ClaimedKept
<1> DEFINE Inv == deed \in Deed /\ ClaimedKept
<1>1. Init => Inv BY DEF Init, ClaimedKept
<1>2. Inv /\ [Next]_<<cell, deed>> => Inv'
  <2> SUFFICES ASSUME Inv, [Next]_<<cell, deed>> PROVE Inv' OBVIOUS
  <2>1. CASE UNCHANGED <<cell, deed>> BY <2>1 DEF ClaimedKept
  <2>2. CASE Next
    <3>1. UNCHANGED deed /\ DOMAIN cell' = DOMAIN cell BY <2>2 DEF Next
    <3>2. ASSUME NEW g \in DOMAIN cell, g \in deed.claimed PROVE cell'[g] # Nowhere
      <4>1. CASE Keep(g) BY <3>2, <4>1 DEF Keep, ClaimedKept
      <4>2. CASE Move(g) BY <4>2 DEF Move, Deed
      <4>3. ~Discard(g) BY <3>2 DEF Discard
      <4> QED BY <2>2, <4>1, <4>2, <4>3 DEF Next
    <3> QED BY <3>1, <3>2 DEF ClaimedKept
  <2> QED BY <2>1, <2>2
<1>3. Inv => ClaimedKept OBVIOUS
<1> QED BY <1>1, <1>2, <1>3, PTL DEF Spec
=============================================================================
