---------------------------- MODULE MCLockScreen ----------------------------
EXTENDS LockScreen

CONSTANTS ana, bob, mine1, mine2, other

\* The other peer is another user, or the locker's where there is one user only.
MCOwner ==
  [k \in Conns |-> IF k = other /\ bob \in Users THEN bob ELSE ana]
=============================================================================
