------------------------------ MODULE LoginGate ------------------------------
(***************************************************************************)
(* What one greeter connection may do to the machine: nothing runs until   *)
(* PAM has accepted a user, and what runs then runs as that user.          *)
(***************************************************************************)
CONSTANTS Users, Nobody

VARIABLES
  bound,    \* the user the last successful authentication bound, or Nobody
  running   \* the user whose session runs, or Nobody

vars == <<bound, running>>

TypeOK == bound \in Users \cup {Nobody} /\ running \in Users \cup {Nobody}

Init == bound = Nobody /\ running = Nobody

Bind == running = Nobody /\ bound' \in Users /\ UNCHANGED running

Launch ==
  /\ bound # Nobody /\ running = Nobody
  /\ running' = bound
  /\ UNCHANGED bound

End == running # Nobody /\ running' = Nobody /\ UNCHANGED bound

\* The connection is gone and with it the binding; a session lives on.
Drop == bound' = Nobody /\ UNCHANGED running

Next == Bind \/ Launch \/ End \/ Drop

Spec == Init /\ [][Next]_vars
=============================================================================
