------------------------------- MODULE Sessions -------------------------------
(***************************************************************************)
(* Session discovery (doord/src/sessions.rs).  The directories are scanned *)
(* when the greeter asks for the list and again when a session is started  *)
(* by its id (doord/src/ipc.rs), one directory after the other, while a    *)
(* package manager may be adding, replacing and removing entries.          *)
(***************************************************************************)
EXTENDS Naturals, Sequences

CONSTANTS
  Ids,        \* the .desktop basenames
  Roots,      \* how many data-dir roots are searched, in order of precedence
  MaxChanges  \* bound: entries changed after the start

ASSUME SessionsAssumption ==
  Roots \in Nat \ {0} /\ MaxChanges \in Nat /\ "list" \notin Ids

\* The directories in the order they are scanned: both kinds of a root, then
\* the next root.
Kinds == <<"wayland", "x11">>
Dirs == 1..(2 * Roots)
KindOf(d) == Kinds[((d - 1) % 2) + 1]

\* An entry that is missing, hidden, unreadable or lacks a Name or a runnable
\* Exec is "unfit"; two startable ones differ in what they run.
Entries == {"unfit", "packaged", "changed"}

VARIABLES
  allow_x11,  \* DOORD_ALLOW_X11 is set
  disk,       \* the entry of each id in each directory
  scan,       \* the directory to be scanned next, 0 when no scan is under way
  want,       \* what the scan is for: "list", or the id to start
  found,      \* the sessions discovered so far
  shown,      \* the list the greeter has
  started,    \* the session the last Start launched, or none
  changes,
  steady,     \* history: the places that have not changed during this scan
  stale       \* history: an entry changed since the list was asked for

vars == <<allow_x11, disk, scan, want, found, shown, started, changes,
          steady, stale>>

Places == Dirs \X Ids
Startable(d, i) == disk[d][i] # "unfit"

Sessions == [id : Ids, dir : Dirs, runs : Entries]

\* The variables keep their types.
TypeOK ==
  /\ allow_x11 \in BOOLEAN /\ stale \in BOOLEAN
  /\ disk \in [Dirs -> [Ids -> Entries]]
  /\ scan \in 0..(2 * Roots + 1) /\ want \in Ids \cup {"list"}
  /\ found \in SUBSET Sessions /\ shown \in SUBSET Sessions
  /\ started \in SUBSET Sessions /\ steady \in SUBSET Places
  /\ changes \in 0..MaxChanges

SearchedForList(d) ==  \* mutant: the filter is left out when starting
  allow_x11 \/ KindOf(d) # "x11" \/ want # "list"

Searched(d) == allow_x11 \/ KindOf(d) # "x11"

Init ==
  /\ allow_x11 \in BOOLEAN
  /\ disk \in [Dirs -> [Ids -> Entries \ {"changed"}]]
  /\ scan = 0 /\ want = "list" /\ found = {} /\ shown = {}
  /\ started = {} /\ changes = 0 /\ steady = {} /\ stale = FALSE

Begins(w) ==
  scan = 0 /\ scan' = 1 /\ found' = {} /\ want' = w /\ steady' = Places

ListSessions ==
  /\ Begins("list") /\ stale' = FALSE
  /\ UNCHANGED <<allow_x11, disk, shown, started, changes>>

\* The greeter starts a session of its list, by id.
Start ==
  /\ \E s \in shown : Begins(s.id)
  /\ UNCHANGED <<allow_x11, disk, shown, started, changes, stale>>

FollowingFull(d) ==  \* mutant: a directory without sessions ends the scan
  IF \E i \in Ids : Startable(d, i) THEN d + 1 ELSE 2 * Roots + 1

Following(d) == d + 1

\* One directory: its startable entries, but for ids found before.
Scan ==
  /\ scan \in Dirs /\ scan' = Following(scan)
  /\ found' = found \cup
       {[id |-> i, dir |-> scan, runs |-> disk[scan][i]] :
          i \in {j \in Ids : /\ Searched(scan) /\ Startable(scan, j)
                             /\ \A s \in found : s.id # j}}
  /\ UNCHANGED <<allow_x11, disk, want, shown, started, changes, steady, stale>>

Scanned == scan = 2 * Roots + 1

\* The answer to ListSessions.
Answer ==
  /\ Scanned /\ want = "list" /\ scan' = 0 /\ shown' = found
  /\ UNCHANGED <<allow_x11, disk, want, found, started, changes, steady, stale>>

\* Start takes the first session of that id, or is refused.
Launch ==
  /\ Scanned /\ want # "list" /\ scan' = 0
  /\ started' = {s \in found : s.id = want}
  /\ UNCHANGED <<allow_x11, disk, want, found, shown, changes, steady, stale>>

\* A package or the administrator, at any time.
Change ==
  /\ changes < MaxChanges /\ changes' = changes + 1
  /\ \E d \in Dirs, i \in Ids, e \in Entries :
       /\ e # disk[d][i] /\ disk' = [disk EXCEPT ![d][i] = e]
       /\ steady' = steady \ {<<d, i>>}
  /\ stale' = TRUE
  /\ UNCHANGED <<allow_x11, scan, want, found, shown, started>>

Next == ListSessions \/ Start \/ Scan \/ Answer \/ Launch \/ Change

Spec == Init /\ [][Next]_vars

-----------------------------------------------------------------------------
(***************************************************************************)
(* Properties.                                                             *)
(***************************************************************************)

\* Whatever is installed or removed beside a scan, a session that was there
\* all along is found, in its own place or in one that takes precedence; and
\* an id is found once.  ("One bad package drop-in must not make every session
\* vanish from the login screen.")
SteadySessionsFound ==
  Scanned =>
    /\ \A p \in steady : (Searched(p[1]) /\ Startable(p[1], p[2])) =>
         \E s \in found : s.id = p[2] /\ s.dir <= p[1]
    /\ \A s, t \in found : s.id = t.id => s = t

\* What a Start runs is what the list offered under that id, unless an entry
\* was changed since the list was asked for; and nothing is launched only then.
StartsAsOffered ==
  (scan = 0 /\ want # "list" /\ ~stale) =>
    started = {s \in shown : s.id = want} /\ started # {}
===============================================================================
