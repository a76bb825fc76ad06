------------------------------ MODULE SeatOwner ------------------------------
(***************************************************************************)
(* What doord's login loop promises about the seat: it is granted to the   *)
(* greeter or to a session, never handed from one straight to the other.   *)
(***************************************************************************)
VARIABLE owner

TypeOK == owner \in {"nobody", "greeter", "session"}

Init == owner = "nobody"

Greet   == owner = "nobody" /\ owner' = "greeter"
LogIn   == owner = "nobody" /\ owner' = "session"
Release == owner # "nobody" /\ owner' = "nobody"

Next == Greet \/ LogIn \/ Release

Spec == Init /\ [][Next]_owner
=============================================================================
