\* root and one other user, and two primary groups that either may have; every
\* environment of the unit.
SPECIFICATION Spec
CONSTANTS
  Users = {ana, root}
  Root = root
  Groups = {staff, wheel}
  RootGroup = wheel
INVARIANTS
  DesktopUnconfined
  ServesConfined
  RunsAsTarget
  NeverOrphaned
\* A daemon that is gone, with its workers, does nothing more.
CHECK_DEADLOCK FALSE
