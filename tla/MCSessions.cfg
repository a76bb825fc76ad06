\* Two roots with both kinds of session, two ids, one entry changed at any time.
SPECIFICATION Spec
CONSTANTS
  Ids = {hyprland, sway}
  Roots = 2
  MaxChanges = 1
INVARIANTS
  SteadySessionsFound
  StartsAsOffered
