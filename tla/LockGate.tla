------------------------------ MODULE LockGate ------------------------------
(***************************************************************************)
(* What a session lock promises: it opens only on a proof of the secret of *)
(* the user who is locked out, and one proof opens it once.                *)
(***************************************************************************)
VARIABLES
  locked,  \* the session is locked
  proof    \* the locked user's secret has been proven

vars == <<locked, proof>>

TypeOK == locked \in BOOLEAN /\ proof \in BOOLEAN

Init == locked = TRUE /\ proof = FALSE

Prove  == locked /\ proof' = TRUE /\ UNCHANGED locked
Forget == proof' = FALSE /\ UNCHANGED locked
Open   == locked /\ proof /\ locked' = FALSE /\ proof' = FALSE
Lock   == ~locked /\ locked' = TRUE /\ UNCHANGED proof

Next == Prove \/ Forget \/ Open \/ Lock

Spec == Init /\ [][Next]_vars
=============================================================================
