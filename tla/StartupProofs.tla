---------------------------- MODULE StartupProofs ----------------------------
(***************************************************************************)
(* Proofs about Startup, for any set of users: who is confined by what     *)
(* follows from how far main() is; how a program runs, from how far its    *)
(* set-up is.                                                              *)
(***************************************************************************)
EXTENDS Startup, TLAPS

\* The path part of what main() means to confine the daemon by.
Paths ==
  IF Split /\ LandlockMode = "enforce" /\ "paths" \notin broke
    THEN {"paths"} ELSE {}

\* What main() has confined itself by at each step, and the listener with it.
Confinement ==
  /\ step <= 3 => marks["main"] = {} /\ broke = {}
  /\ step \in {4, 5} => marks["main"] = Paths /\ "filter" \notin broke
  /\ step >= 6 => marks["main"] = Promised
  /\ up["listener"] = "up" => marks["listener"] = marks["main"] /\ step >= 5

\* Nobody is served before the sandbox is complete.
Opened ==
  /\ freed => step >= 7
  /\ open # {} => step >= 7

\* The spawners and the workers of the seat are born unconfined.
Clean == \A p \in Helpers \cup Seated : marks[p] = {}

\* What the set-up of a program has achieved by each of its steps: the greeter's
\* has armed the signal before it looks for its worker.
Achieved(w, p) ==
  /\ p.marks = {}
  /\ p.at >= 2 => p.tty = env.vt
  /\ p.at >= 3 => p.groups # "root"
  /\ p.at >= 6 => /\ p.uid = p.target.uid /\ p.uid # Root
                  /\ p.gid = p.target.gid
  /\ (w = "greeter" /\ p.at >= 7) => p.armed
  /\ (w = "greeter" /\ p.at = 8) => up["greeter"] = "up"

Programs == \A w \in Seated : Achieved(w, launch[w])

Inv == TypeOK /\ Confinement /\ Opened /\ Clean /\ Programs

-----------------------------------------------------------------------------
LEMMA Orders ==
  /\ Len(Order) = 7 /\ Order[1] = "login" /\ Order[2] = "reauth"
  /\ Order[3] = "landlock" /\ Order[4] = "listener" /\ Order[5] = "seccomp"
  /\ Order[6] = "release" /\ Order[7] = "serve"
BY DEF Order

LEMMA Setups ==
  /\ Len(Setup) = 7 /\ Setup[1] = "tty" /\ Setup[2] = "groups"
  /\ Setup[3] = "gid" /\ Setup[4] = "uid" /\ Setup[5] = "verify"
  /\ Setup[6] = "arm" /\ Setup[7] = "orphan"
BY DEF Setup

\* Where main() is when it takes a step.
LEMMA Steps ==
  ASSUME step \in 1..8
  PROVE  /\ At("login") => step = 1 /\ step' = 2
         /\ At("reauth") => step = 2 /\ step' = 3
         /\ At("landlock") => step = 3 /\ step' = 4
         /\ At("listener") => step = 4 /\ step' = 5
         /\ At("seccomp") => step = 5 /\ step' = 6
         /\ At("release") => step = 6 /\ step' = 7
         /\ At("serve") => step = 7 /\ step' = 8
BY Orders DEF At

\* Where a program is when it takes a step of its set-up.
LEMMA Doings ==
  ASSUME NEW w \in Seated, launch[w].at \in 0..8
  PROVE  /\ Doing(w, "tty") => launch[w].at = 1
         /\ Doing(w, "groups") => launch[w].at = 2
         /\ Doing(w, "gid") => launch[w].at = 3
         /\ Doing(w, "uid") => launch[w].at = 4
         /\ Doing(w, "verify") => launch[w].at = 5
         /\ Doing(w, "arm") => launch[w].at = 6
         /\ Doing(w, "orphan") => launch[w].at = 7
         /\ \A s \in STRING : Doing(w, s) => launch[w].at \in 1..7
BY Setups DEF Doing

-----------------------------------------------------------------------------
(* The launches.                                                           *)

\* Every step of a launch replaces one program by one that has achieved what
\* its place in the set-up says.
Replaces(w) ==
  /\ UNCHANGED <<env, daemon, up, marks>>
  /\ \E p \in Program : Achieved(w, p) /\ launch' = [launch EXCEPT ![w] = p]

LEMMA NoProgramFits ==
  ASSUME TypeOK, NEW w \in Seated
  PROVE  NoProgram \in Program /\ Achieved(w, NoProgram)
<1>1. 0 \in 0..(Len(Setup) + 1)
  BY Setups
<1>2. NoProgram \in Program
  BY <1>1, StartupAssumption DEF NoProgram, Program, Passwd
<1>3. Achieved(w, NoProgram)
  BY DEF Achieved, NoProgram
<1> QED
  BY <1>2, <1>3

LEMMA BeginReplaces ==
  ASSUME TypeOK, Clean, NEW w \in Seated, BeginLaunch(w)
  PROVE  Replaces(w)
<1>1. PICK t \in Passwd :
        launch' = [launch EXCEPT ![w] = [NoProgram EXCEPT !.at = 1,
                                           !.target = t, !.marks = marks[w]]]
  BY DEF BeginLaunch
<1> DEFINE p == [NoProgram EXCEPT !.at = 1, !.target = t, !.marks = marks[w]]
<1>2. marks[w] = {}
  BY DEF Clean
<1>3. 1 \in 0..(Len(Setup) + 1)
  BY Setups
<1>4. p \in Program
  BY <1>2, <1>3, StartupAssumption DEF NoProgram, Program, Passwd
<1>5. Achieved(w, p)
  BY <1>2 DEF Achieved, NoProgram
<1> QED
  BY <1>1, <1>4, <1>5 DEF Replaces, BeginLaunch

\* What a program keeps when it goes on to another place.
LEMMA Elsewhere ==
  ASSUME NEW p \in Program, NEW n, NEW w,
         LET Has(m) ==
               /\ m >= 2 => p.tty = env.vt
               /\ m >= 3 => p.groups # "root"
               /\ m >= 6 => /\ p.uid = p.target.uid /\ p.uid # Root
                            /\ p.gid = p.target.gid
               /\ (w = "greeter" /\ m >= 7) => p.armed
               /\ (w = "greeter" /\ m = 8) => up["greeter"] = "up"
         IN  p.marks = {} /\ Has(n)
  PROVE  Achieved(w, [p EXCEPT !.at = n])
BY DEF Achieved, Program

\* A step of the set-up goes on at the next place.
LEMMA GoesOn ==
  ASSUME NEW w \in Seated, NEW p \in Program, launch[w].at \in 1..7,
         GoesOnAs(w, p), Achieved(w, [p EXCEPT !.at = launch[w].at + 1])
  PROVE  Replaces(w)
<1>1. launch[w].at + 1 \in 0..(Len(Setup) + 1)
  BY Setups
<1>2. [p EXCEPT !.at = launch[w].at + 1] \in Program
  BY <1>1 DEF Program
<1> QED
  BY <1>2 DEF Replaces, GoesOnAs

LEMMA LaunchReplaces ==
  ASSUME Inv, NEW w \in Seated, Launch(w)
  PROVE  Replaces(w)
<1> DEFINE q == launch[w]
<1>0. q \in Program /\ q.at \in 0..8 /\ Achieved(w, q)
  BY Setups DEF Inv, TypeOK, Programs, Program
<1>1. CASE BeginLaunch(w)
  BY <1>1, BeginReplaces DEF Inv
<1>2. CASE TakeTty(w)
  <2>1. q.at = 1 /\ GoesOnAs(w, [q EXCEPT !.tty = env.vt])
    BY <1>0, <1>2, Doings DEF TakeTty
  <2>2. [q EXCEPT !.tty = env.vt] \in Program
    BY <1>0 DEF Inv, TypeOK, Environment, Program
  <2>3. Achieved(w, [[q EXCEPT !.tty = env.vt] EXCEPT !.at = q.at + 1])
    BY <1>0, <2>1 DEF Achieved, Program
  <2> QED
    <3>1. q.at \in 1..7
      BY <2>1
    <3> QED
      BY <2>1, <2>2, <2>3, <3>1, GoesOn, Zenon
<1>3. CASE SetGroups(w)
  <2>1. q.at = 2
    BY <1>0, <1>3, Doings DEF SetGroups
  <2>2. PICK g \in {"target", "ignored"} : GoesOnAs(w, [q EXCEPT !.groups = g])
    BY <1>3 DEF SetGroups
  <2>3. [q EXCEPT !.groups = g] \in Program
    BY <1>0 DEF Program
  <2>4. Achieved(w, [[q EXCEPT !.groups = g] EXCEPT !.at = q.at + 1])
    BY <1>0, <2>1 DEF Achieved, Program
  <2> QED
    <3>1. q.at \in 1..7
      BY <2>1
    <3> QED
      BY <2>2, <2>3, <2>4, <3>1, GoesOn, Zenon
<1>4. CASE SetGid(w)
  <2>1. q.at = 3
    BY <1>0, <1>4, Doings DEF SetGid
  <2>2. PICK g \in {q.target.gid, q.gid} : GoesOnAs(w, Changed(q, "gid", g))
    BY <1>4 DEF SetGid
  <2>3. Changed(q, "gid", g) = [q EXCEPT !.gid = g, !.armed = @ /\ g = q.gid]
    BY <1>0 DEF Changed, Program
  <2>4. Changed(q, "gid", g) \in Program
    BY <1>0, <2>3 DEF Program, Passwd
  <2>5. Achieved(w, [Changed(q, "gid", g) EXCEPT !.at = q.at + 1])
    <3> DEFINE c == Changed(q, "gid", g)
    <3>1. /\ c.tty = q.tty /\ c.groups = q.groups /\ c.target = q.target
          /\ c.marks = q.marks
      BY <1>0, <2>3 DEF Program
    <3>2. c \in Program
      BY <2>4
    <3> HIDE DEF c
    <3>3. Achieved(w, [c EXCEPT !.at = q.at + 1])
      BY <1>0, <2>1, <3>1, <3>2, Elsewhere DEF Achieved
    <3> QED
      BY <3>3 DEF c
  <2> QED
    <3>1. q.at \in 1..7
      BY <2>1
    <3> QED
      BY <2>2, <2>4, <2>5, <3>1, GoesOn, Zenon
<1>5. CASE SetUid(w)
  <2>1. q.at = 4
    BY <1>0, <1>5, Doings DEF SetUid
  <2>2. PICK u \in {q.target.uid, q.uid} : GoesOnAs(w, Changed(q, "uid", u))
    BY <1>5 DEF SetUid
  <2>3. Changed(q, "uid", u) = [q EXCEPT !.uid = u, !.armed = @ /\ u = q.uid]
    BY <1>0 DEF Changed, Program
  <2>4. Changed(q, "uid", u) \in Program
    BY <1>0, <2>3 DEF Program, Passwd
  <2>5. Achieved(w, [Changed(q, "uid", u) EXCEPT !.at = q.at + 1])
    <3> DEFINE c == Changed(q, "uid", u)
    <3>1. /\ c.tty = q.tty /\ c.groups = q.groups /\ c.target = q.target
          /\ c.marks = q.marks
      BY <1>0, <2>3 DEF Program
    <3>2. c \in Program
      BY <2>4
    <3> HIDE DEF c
    <3>3. Achieved(w, [c EXCEPT !.at = q.at + 1])
      BY <1>0, <2>1, <3>1, <3>2, Elsewhere DEF Achieved
    <3> QED
      BY <3>3 DEF c
  <2> QED
    <3>1. q.at \in 1..7
      BY <2>1
    <3> QED
      BY <2>2, <2>4, <2>5, <3>1, GoesOn, Zenon
<1>6. CASE VerifyDropped(w)
  <2>1. q.at = 5 /\ GoesOnAs(w, q)
    BY <1>0, <1>6, Doings DEF VerifyDropped
  <2>2. Achieved(w, [q EXCEPT !.at = q.at + 1])
    BY <1>0, <1>6, <2>1 DEF Achieved, Program, VerifyDropped
  <2> QED
    BY <1>0, <2>1, <2>2, GoesOn
<1>7. CASE ArmDeathSignal(w)
  <2>1. q.at = 6 /\ GoesOnAs(w, [q EXCEPT !.armed = w = "greeter"])
    BY <1>0, <1>7, Doings DEF ArmDeathSignal
  <2>2. [q EXCEPT !.armed = w = "greeter"] \in Program
    BY <1>0 DEF Program
  <2>3. Achieved(w, [[q EXCEPT !.armed = w = "greeter"] EXCEPT !.at = q.at + 1])
    <3> DEFINE c == [q EXCEPT !.armed = w = "greeter"]
    <3>1. /\ c.tty = q.tty /\ c.groups = q.groups /\ c.target = q.target
          /\ c.gid = q.gid /\ c.uid = q.uid /\ c.marks = q.marks
      BY <1>0 DEF Program
    <3>2. w = "greeter" => c.armed
      BY <1>0, Zenon DEF Program
    <3>3. c \in Program
      BY <2>2
    <3> HIDE DEF c
    <3>4. Achieved(w, [c EXCEPT !.at = q.at + 1])
      BY <1>0, <2>1, <3>1, <3>2, <3>3, Elsewhere DEF Achieved
    <3> QED
      BY <3>4 DEF c
  <2> QED
    <3>1. q.at \in 1..7
      BY <2>1
    <3> QED
      BY <2>1, <2>2, <2>3, <3>1, GoesOn, Zenon
<1>8. CASE CheckParent(w)
  <2>1. q.at = 7 /\ GoesOnAs(w, q)
    BY <1>0, <1>8, Doings DEF CheckParent
  <2>2. Achieved(w, [q EXCEPT !.at = q.at + 1])
    BY <1>0, <1>8, <2>1 DEF Achieved, Program, CheckParent
  <2> QED
    BY <1>0, <2>1, <2>2, GoesOn
<1>9. CASE ProgramEnds(w)
  BY <1>9, NoProgramFits DEF Inv, Replaces, ProgramEnds
<1> QED
  BY <1>1, <1>2, <1>3, <1>4, <1>5, <1>6, <1>7, <1>8, <1>9 DEF Launch

\* Programs of other workers, and the greeter's, stand as they were.
LEMMA ReplacedStands ==
  ASSUME Inv, NEW w \in Seated, Replaces(w)
  PROVE  TypeOK' /\ Confinement' /\ Opened' /\ Clean' /\ Programs'
<1> USE DEF Inv
<1>1. PICK p \in Program : Achieved(w, p) /\ launch' = [launch EXCEPT ![w] = p]
  BY DEF Replaces
<1>2. UNCHANGED <<env, step, freed, broke, open, up, marks>>
  BY DEF Replaces, daemon
<1>3. TypeOK'
  BY <1>1, <1>2 DEF TypeOK
<1>4. Confinement' /\ Opened' /\ Clean'
  BY <1>2 DEF Confinement, Opened, Clean, Promised, Paths, Split, SeccompMode,
              LandlockMode
<1>5. \A v \in Seated : Achieved(v, launch'[v])
  BY <1>1 DEF Programs, TypeOK
<1>6. Programs'
  BY <1>2, <1>5 DEF Programs, Achieved
<1> QED
  BY <1>3, <1>4, <1>6

-----------------------------------------------------------------------------
(* The steps of main().                                                    *)

\* The types, of a step that starts no program.
LEMMA Types ==
  ASSUME TypeOK, UNCHANGED <<env, launch>>, step' \in 1..8,
         up' \in [Procs -> {"none", "up", "gone"}],
         marks' \in [Procs -> SUBSET Marks],
         broke' \subseteq {"filter", "paths"}, freed' \in BOOLEAN,
         open' \subseteq Threads, \A t \in open' : up'[t] = "up"
  PROVE  TypeOK'
BY Orders DEF TypeOK

LEMMA ForkTypes ==
  ASSUME TypeOK, NEW p \in Procs, NEW m \in SUBSET Marks,
         UNCHANGED <<env, broke, freed, open, launch>>, step' \in 1..8,
         \/ /\ up' = [up EXCEPT ![p] = "up"]
            /\ marks' = [marks EXCEPT ![p] = m]
         \/ UNCHANGED <<up, marks>>
  PROVE  TypeOK'
<1>1. /\ up \in [Procs -> {"none", "up", "gone"}]
      /\ marks \in [Procs -> SUBSET Marks]
      /\ open \subseteq Threads /\ \A t \in open : up[t] = "up"
      /\ Threads \subseteq Procs
      /\ broke \subseteq {"filter", "paths"} /\ freed \in BOOLEAN
  BY DEF TypeOK, Procs
<1>2. marks' \in [Procs -> SUBSET Marks]
  BY <1>1
<1>3. up' \in [Procs -> {"none", "up", "gone"}]
  BY <1>1
<1>4. \A t \in open' : up'[t] = "up"
  BY <1>1
<1> QED
  BY <1>1, <1>2, <1>3, <1>4, Types

LEMMA MainFork ==
  ASSUME Inv, ForkLoginSpawner \/ ForkReauthSpawner \/ SpawnListener
  PROVE  Inv'
<1> USE DEF Inv
<1>1. step \in 1..8 /\ UNCHANGED <<env, broke, freed, open, launch>>
  BY Orders DEF TypeOK, ForkLoginSpawner, ForkReauthSpawner, SpawnListener
<1>2. CASE ForkLoginSpawner
  <2>1. step = 1 /\ step' = 2
    BY <1>1, <1>2, Steps DEF ForkLoginSpawner
  <2>2. \/ /\ up' = [up EXCEPT !["login"] = "up"]
           /\ marks' = [marks EXCEPT !["login"] = {}]
        \/ UNCHANGED <<up, marks>>
    BY <1>2, <2>1 DEF ForkLoginSpawner, Fork, Confinement
  <2>3. TypeOK'
    <3>1. "login" \in Procs /\ {} \in SUBSET Marks
      BY DEF TypeOK, Procs, Helpers, Threads
    <3> QED
      BY <1>1, <2>1, <2>2, <3>1, ForkTypes
  <2>4. Confinement' /\ Opened'
    BY <1>1, <2>1, <2>2 DEF Confinement, Opened, TypeOK, Procs, Helpers, Threads
  <2>5. Clean' /\ Programs'
    BY <1>1, <2>2
       DEF Clean, Programs, Achieved, TypeOK, Procs, Helpers, Seated, Workers
  <2> QED
    BY <2>3, <2>4, <2>5
<1>3. CASE ForkReauthSpawner
  <2>1. step = 2 /\ step' = 3
    BY <1>1, <1>3, Steps DEF ForkReauthSpawner
  <2>2. \/ /\ up' = [up EXCEPT !["reauth"] = "up"]
           /\ marks' = [marks EXCEPT !["reauth"] = {}]
        \/ UNCHANGED <<up, marks>>
    BY <1>3, <2>1 DEF ForkReauthSpawner, Fork, Confinement
  <2>3. TypeOK'
    <3>1. "reauth" \in Procs /\ {} \in SUBSET Marks
      BY DEF TypeOK, Procs, Helpers, Threads
    <3> QED
      BY <1>1, <2>1, <2>2, <3>1, ForkTypes
  <2>4. Confinement' /\ Opened'
    BY <1>1, <2>1, <2>2 DEF Confinement, Opened, TypeOK, Procs, Helpers, Threads
  <2>5. Clean' /\ Programs'
    BY <1>1, <2>2
       DEF Clean, Programs, Achieved, TypeOK, Procs, Helpers, Seated, Workers
  <2> QED
    BY <2>3, <2>4, <2>5
<1>4. CASE SpawnListener
  <2>1. step = 4 /\ step' = 5
    BY <1>1, <1>4, Steps DEF SpawnListener
  <2>2. \/ /\ up' = [up EXCEPT !["listener"] = "up"]
           /\ marks' = [marks EXCEPT !["listener"] = marks["main"]]
        \/ UNCHANGED <<up, marks>>
    BY <1>4 DEF SpawnListener, Fork
  <2>3. TypeOK'
    <3>1. "listener" \in Procs /\ marks["main"] \in SUBSET Marks
      BY DEF TypeOK, Procs, Helpers, Threads
    <3> QED
      BY <1>1, <2>1, <2>2, <3>1, ForkTypes
  <2>4. Confinement'
    <3>0. /\ up \in [Procs -> {"none", "up", "gone"}]
          /\ marks \in [Procs -> SUBSET Marks]
          /\ {"login", "main", "listener"} \subseteq Procs
      BY DEF TypeOK, Procs, Threads, Helpers
    <3>5. up'["login"] = up["login"] /\ marks'["main"] = marks["main"]
      BY <2>2, <3>0
    <3>1. (Split <=> Split') /\ LandlockMode' = LandlockMode
      BY <1>1, <3>5 DEF Split, LandlockMode
    <3>2. Paths' = Paths
      BY <1>1, <3>1 DEF Paths
    <3>3. marks'["main"] = Paths /\ "filter" \notin broke'
      BY <1>1, <2>1, <3>5 DEF Confinement
    <3>4. up'["listener"] = "up" => marks'["listener"] = marks'["main"]
      BY <2>1, <2>2 DEF Confinement, TypeOK, Procs, Threads
    <3> QED
      BY <2>1, <3>2, <3>3, <3>4 DEF Confinement
  <2>5. Opened' /\ Clean' /\ Programs'
    BY <1>1, <2>1, <2>2 DEF Opened, Clean, Programs, Achieved, TypeOK, Procs,
       Helpers, Threads, Seated, Workers
  <2> QED
    BY <2>3, <2>4, <2>5
<1> QED
  BY <1>2, <1>3, <1>4

LEMMA LandlockStands ==
  ASSUME Inv, ApplyLandlock
  PROVE  Inv'
<1> USE DEF Inv
<1>1. /\ step = 3 /\ step' = 4
      /\ UNCHANGED <<env, up, freed, open, launch>>
  BY Steps, Orders DEF TypeOK, ApplyLandlock
<1>2. marks["main"] = {} /\ broke = {} /\ up["listener"] # "up"
  BY <1>1 DEF Confinement
<1>3. \/ /\ Split /\ LandlockMode = "enforce" /\ broke' = broke
         /\ marks' = [p \in Procs |->
              IF p = "main" THEN marks[p] \cup {"paths"} ELSE marks[p]]
      \/ /\ Split /\ LandlockMode = "enforce" /\ marks' = marks
         /\ broke' = {"paths"}
      \/ /\ ~(Split /\ LandlockMode = "enforce") /\ UNCHANGED <<marks, broke>>
  BY <1>2 DEF ApplyLandlock, Confine, Unfiltered
<1>4. TypeOK'
  BY <1>1, <1>2, <1>3, Orders DEF TypeOK, Marks
<1>5. (Split <=> Split') /\ LandlockMode' = LandlockMode
  BY <1>1 DEF Split, LandlockMode
<1>6. marks'["main"] = Paths' /\ "filter" \notin broke'
  BY <1>2, <1>3, <1>5 DEF Paths, Procs, Threads
<1>7. Confinement' /\ Opened'
  BY <1>1, <1>2, <1>6 DEF Confinement, Opened
<1>8. Clean' /\ Programs'
  BY <1>1, <1>3 DEF Clean, Programs, Achieved, Procs, Helpers, Seated, Workers
<1> QED
  BY <1>4, <1>7, <1>8

LEMMA SeccompStands ==
  ASSUME Inv, ApplySeccomp
  PROVE  Inv'
<1> USE DEF Inv
<1> DEFINE ts == {t \in Threads : up[t] = "up"}
<1>1. /\ step = 5 /\ step' = 6 /\ up["main"] = "up"
      /\ UNCHANGED <<env, up, freed, open, launch>>
  BY Steps, Orders DEF TypeOK, ApplySeccomp, At
<1>2. marks["main"] = Paths /\ "filter" \notin broke
  BY <1>1 DEF Confinement
<1>3. \/ /\ Split /\ SeccompMode # "off" /\ broke' = broke
         /\ marks' = [p \in Procs |->
              IF p \in ts THEN marks[p] \cup {SeccompMode} ELSE marks[p]]
      \/ /\ Split /\ SeccompMode # "off" /\ marks' = marks
         /\ broke' = broke \cup {"filter"}
      \/ /\ ~(Split /\ SeccompMode # "off") /\ UNCHANGED <<marks, broke>>
  BY DEF ApplySeccomp, Confine
<1>4. SeccompMode # "off" => SeccompMode \in Marks
  BY DEF SeccompMode, TypeOK, Environment, Marks
<1>5. TypeOK'
  <2>1. marks' \in [Procs -> SUBSET Marks]
    <3>1. marks \in [Procs -> SUBSET Marks]
      BY DEF TypeOK
    <3> HIDE DEF ts
    <3> QED
      BY <1>3, <1>4, <3>1
  <2>2. broke' \subseteq {"filter", "paths"}
    BY <1>3 DEF TypeOK
  <2> QED
    BY <1>1, <2>1, <2>2, Types DEF TypeOK
<1>6. (Split <=> Split') /\ LandlockMode' = LandlockMode
      /\ SeccompMode' = SeccompMode
  BY <1>1 DEF Split, LandlockMode, SeccompMode
<1>7. marks'["main"] = Promised'
  <2>1. "main" \in ts /\ "main" \in Procs
    BY <1>1 DEF Threads, Procs
  <2> HIDE DEF ts
  <2> QED
    BY <1>2, <1>3, <1>6, <2>1 DEF Paths, Promised
<1>8. up'["listener"] = "up" => marks'["listener"] = marks'["main"]
  <2>1. up["listener"] = "up" => marks["listener"] = marks["main"]
    BY DEF Confinement
  <2>2. "main" \in ts /\ (up["listener"] = "up" => "listener" \in ts)
    BY <1>1 DEF Threads
  <2>3. {"main", "listener"} \subseteq Procs
    BY DEF Threads, Procs
  <2> HIDE DEF ts
  <2> QED
    BY <1>1, <1>3, <2>1, <2>2, <2>3
<1>9. Confinement' /\ Opened'
  BY <1>1, <1>7, <1>8 DEF Confinement, Opened
<1>10. Clean' /\ Programs'
  <2>1. \A p \in Helpers \cup Seated : p \notin ts /\ p \in Procs
    BY DEF Threads, Helpers, Seated, Workers, Procs
  <2> HIDE DEF ts
  <2>2. Clean'
    BY <1>3, <2>1 DEF Clean
  <2> QED
    BY <1>1, <2>2 DEF Programs, Achieved
<1> QED
  BY <1>5, <1>9, <1>10

\* The end of the daemon leaves the workers and their programs alone.
LEMMA EndStands ==
  ASSUME Inv, DaemonEnds, step' \in {step, step + 1}, step' \in 1..8,
         step' = step \/ step = 7,
         UNCHANGED <<env, marks, broke, freed, launch>>
  PROVE  Inv'
<1> USE DEF Inv
<1>1. /\ \A p \in Procs : (up'[p] = "none" <=> up[p] = "none")
      /\ \A p \in Workers : up'[p] = up[p]
      /\ up'["listener"] # "up"
      /\ up' \in [Procs -> {"none", "up", "gone"}] /\ open' = {}
  BY DEF DaemonEnds, TypeOK, Procs, Threads, Workers
<1>2. TypeOK'
  BY <1>1, Orders DEF TypeOK
<1>3. (Split <=> Split') /\ LandlockMode' = LandlockMode
      /\ SeccompMode' = SeccompMode
  BY <1>1 DEF Split, LandlockMode, SeccompMode, Procs, Helpers
<1>4. Promised' = Promised /\ Paths' = Paths
  BY <1>3 DEF Promised, Paths
<1>5. Confinement' /\ Opened'
  BY <1>1, <1>4, Orders DEF Confinement, Opened, TypeOK
<1>6. Clean' /\ Programs'
  BY <1>1 DEF Clean, Programs, Achieved, Workers
<1> QED
  BY <1>2, <1>5, <1>6

LEMMA MainStands ==
  ASSUME Inv, Main
  PROVE  Inv'
<1> USE DEF Inv
<1>1. CASE ForkLoginSpawner \/ ForkReauthSpawner \/ SpawnListener
  BY <1>1, MainFork
<1>2. CASE ApplyLandlock
  BY <1>2, LandlockStands
<1>3. CASE ApplySeccomp
  BY <1>3, SeccompStands
<1>4. CASE Release
  <2>1. /\ step = 6 /\ step' = 7 /\ freed' = TRUE
        /\ UNCHANGED <<env, up, marks, broke, open, launch>>
    BY <1>4, Steps, Orders DEF TypeOK, Release
  <2>2. TypeOK'
    BY <2>1, Orders DEF TypeOK
  <2>3. Promised' = Promised
    BY <2>1 DEF Promised, Split, SeccompMode, LandlockMode
  <2> QED
    BY <2>1, <2>2, <2>3 DEF Confinement, Opened, Clean, Programs, Achieved
<1>5. CASE Serve
  <2>1. step = 7 /\ step' = 8 /\ up["main"] = "up"
        /\ UNCHANGED <<env, marks, broke, freed, launch>>
    BY <1>5, Steps, Orders DEF TypeOK, Serve, At
  <2>2. CASE DaemonEnds
    BY <2>1, <2>2, EndStands
  <2>3. CASE open' = open \cup {"main"} /\ UNCHANGED up
    <3>1. TypeOK'
      BY <2>1, <2>3, Orders DEF TypeOK, Threads
    <3>2. Promised' = Promised
      BY <2>1, <2>3 DEF Promised, Split, SeccompMode, LandlockMode
    <3> QED
      BY <2>1, <2>3, <3>1, <3>2
         DEF Confinement, Opened, Clean, Programs, Achieved
  <2> QED
    BY <1>5, <2>2, <2>3 DEF Serve
<1>6. CASE Dies
  BY <1>6, EndStands, Orders DEF Dies, TypeOK
<1> QED
  BY <1>1, <1>2, <1>3, <1>4, <1>5, <1>6 DEF Main

-----------------------------------------------------------------------------
(* The steps of the others.                                                *)

\* A process that is no thread of the daemon comes or goes.
LEMMA OthersStand ==
  ASSUME Inv, NEW p \in Procs \ Threads, NEW s \in {"up", "gone"},
         up' = [up EXCEPT ![p] = s], UNCHANGED <<env, daemon>>,
         p = "login" => up[p] # "none",
         marks' \in [Procs -> SUBSET Marks],
         \A q \in Helpers \cup Seated : marks'[q] = {},
         \A t \in Threads : marks'[t] = marks[t],
         launch' \in [Seated -> Program],
         \A w \in Seated : Achieved(w, launch[w])'
  PROVE  Inv'
<1> USE DEF Inv
<1>1. UNCHANGED <<env, step, freed, broke, open>>
  BY DEF daemon
<1>2. \A t \in Threads : up'[t] = up[t]
  BY DEF TypeOK
<1>3. TypeOK'
  <2>1. up' \in [Procs -> {"none", "up", "gone"}]
    BY DEF TypeOK
  <2> QED
    BY <1>1, <1>2, <2>1 DEF TypeOK
<1>4. (Split <=> Split') /\ LandlockMode' = LandlockMode
      /\ SeccompMode' = SeccompMode
  BY <1>1 DEF Split, LandlockMode, SeccompMode, TypeOK, Procs, Helpers
<1>5. Promised' = Promised /\ Paths' = Paths
  BY <1>1, <1>4 DEF Promised, Paths
<1>6. Confinement' /\ Opened'
  BY <1>1, <1>2, <1>5 DEF Confinement, Opened, Threads
<1>7. Clean' /\ Programs'
  BY DEF Clean, Programs
<1> QED
  BY <1>3, <1>6, <1>7

LEMMA StartStands ==
  ASSUME Inv, NEW w \in Workers, StartWorker(w)
  PROVE  Inv'
<1> USE DEF Inv
<1>1. PICK a \in {Helper(w), Asker(w)} :
        /\ up' = [up EXCEPT ![w] = "up"]
        /\ marks' = [marks EXCEPT ![w] = marks[a]]
        /\ a = Helper(w) \/ (a = Asker(w) /\ up[Helper(w)] = "none")
  BY DEF StartWorker, Fork
<1>2. /\ Asker(w) \in open /\ UNCHANGED <<env, daemon, launch>>
      /\ w \in Seated => launch[w].at = 0
  BY DEF StartWorker
<1>3. w \in Procs \ Threads /\ a \in Procs /\ w \notin Helpers
  BY DEF Workers, Procs, Threads, Helper, Asker, Helpers
<1>4. step >= 7
  BY <1>2 DEF Opened
<1>5. w \in Seated => marks[a] = {}
  <2> SUFFICES ASSUME w \in Seated PROVE marks[a] = {}
    OBVIOUS
  <2>1. Helper(w) = "login" /\ Asker(w) = "main"
    BY DEF Helper, Asker, Seated
  <2>2. CASE a = "login"
    BY <2>2 DEF Clean, Helpers
  <2>3. CASE a = "main" /\ up["login"] = "none"
    <3>1. ~Split /\ step >= 6
      BY <1>4, <2>3, Orders DEF Split, TypeOK
    <3> QED
      BY <2>3, <3>1 DEF Confinement, Promised
  <2> QED
    BY <1>1, <2>1, <2>2, <2>3
<1>6. marks' \in [Procs -> SUBSET Marks]
  BY <1>1, <1>3 DEF TypeOK
<1>7. \A q \in Helpers \cup Seated : marks'[q] = {}
  BY <1>1, <1>3, <1>5 DEF Clean, TypeOK, Procs, Workers, Helpers, Seated
<1>8. \A t \in Threads : marks'[t] = marks[t]
  BY <1>1, <1>3 DEF TypeOK, Procs
<1>9. \A v \in Seated : Achieved(v, launch[v])'
  <2> SUFFICES ASSUME NEW v \in Seated PROVE Achieved(v, launch[v])'
    OBVIOUS
  <2>1. Achieved(v, launch[v]) /\ env' = env /\ launch' = launch
    BY <1>2 DEF Programs
  <2>2. up["greeter"] = "up" => up'["greeter"] = "up"
    BY <1>1, <1>3 DEF TypeOK, Procs, Workers
  <2> QED
    BY <2>1, <2>2 DEF Achieved
<1> QED
  BY <1>1, <1>2, <1>3, <1>6, <1>7, <1>8, <1>9, OthersStand
     DEF TypeOK, Helpers

LEMMA EndsStand ==
  ASSUME Inv, NEW w \in Workers, WorkerEnds(w)
  PROVE  Inv'
<1> USE DEF Inv
<1>1. /\ up' = [up EXCEPT ![w] = "gone"] /\ UNCHANGED <<env, daemon, marks>>
      /\ launch' = IF w \in Seated /\ launch[w].armed
                   THEN [launch EXCEPT ![w] = NoProgram] ELSE launch
  BY DEF WorkerEnds
<1>2. w \in Procs \ Threads /\ w \notin Helpers
  BY DEF Workers, Procs, Threads, Helpers
<1>3. launch' \in [Seated -> Program]
  BY <1>1, NoProgramFits DEF TypeOK
<1>4. \A v \in Seated : Achieved(v, launch[v])'
  <2> SUFFICES ASSUME NEW v \in Seated PROVE Achieved(v, launch[v])'
    OBVIOUS
  <2>1. CASE v = w /\ launch[w].armed
    <3>1. launch'[v] = NoProgram
      BY <1>1, <2>1 DEF TypeOK
    <3> QED
      BY <3>1 DEF Achieved, NoProgram
  <2>2. CASE ~(v = w /\ launch[w].armed)
    <3>1. launch'[v] = launch[v] /\ Achieved(v, launch[v]) /\ env' = env
      BY <1>1, <2>2 DEF TypeOK, Programs
    <3>2. v = "greeter" /\ launch[v].at = 8 => up'["greeter"] = "up"
      BY <1>1, <1>2, <2>2, <3>1 DEF Achieved, TypeOK, Procs, Workers
    <3> QED
      BY <3>1, <3>2 DEF Achieved
  <2> QED
    BY <2>1, <2>2
<1>5. \A q \in Helpers \cup Seated : marks'[q] = {}
  BY <1>1 DEF Clean
<1>6. /\ marks' \in [Procs -> SUBSET Marks]
      /\ \A t \in Threads : marks'[t] = marks[t]
      /\ UNCHANGED <<env, daemon>>
  BY <1>1 DEF TypeOK
<1> QED
  BY <1>1, <1>2, <1>3, <1>4, <1>5, <1>6, OthersStand DEF Helpers

LEMMA LostStands ==
  ASSUME Inv, NEW h \in Helpers, SpawnerLost(h)
  PROVE  Inv'
<1> USE DEF Inv
<1>1. /\ up' = [up EXCEPT ![h] = "gone"] /\ up[h] # "none"
      /\ UNCHANGED <<env, daemon, marks, launch>>
  BY DEF SpawnerLost
<1>2. h \in Procs \ Threads /\ h \notin Seated
  BY DEF Helpers, Procs, Threads, Seated
<1>3. \A v \in Seated : Achieved(v, launch[v])'
  BY <1>1, <1>2 DEF Programs, Achieved, TypeOK, Procs, Seated
<1>4. \A q \in Helpers \cup Seated : marks'[q] = {}
  BY <1>1 DEF Clean
<1>5. /\ marks' \in [Procs -> SUBSET Marks] /\ launch' \in [Seated -> Program]
      /\ \A t \in Threads : marks'[t] = marks[t]
      /\ UNCHANGED <<env, daemon>>
  BY <1>1 DEF TypeOK
<1> QED
  BY <1>1, <1>2, <1>3, <1>4, <1>5, OthersStand

LEMMA ListenerStands ==
  ASSUME Inv, ListenerServes
  PROVE  Inv'
<1> USE DEF Inv
<1>1. /\ UNCHANGED <<env, step, marks, broke, freed, launch>>
      /\ up["listener"] = "up" /\ freed /\ "listener" \notin open
      /\ \/ open' = open \cup {"listener"} /\ UNCHANGED up
         \/ up' = [up EXCEPT !["listener"] = "gone"] /\ UNCHANGED open
  BY DEF ListenerServes
<1>2. "listener" \in Procs /\ "listener" \notin Helpers \cup Seated
  BY DEF Procs, Threads, Helpers, Seated
<1>10. /\ up' \in [Procs -> {"none", "up", "gone"}]
       /\ \A p \in Procs : p # "listener" => up'[p] = up[p]
       /\ open' \subseteq Threads
  BY <1>1, <1>2 DEF TypeOK, Threads
<1>11. \A t \in open' : up'[t] = "up"
  BY <1>1, <1>10 DEF TypeOK, Procs
<1>3. TypeOK'
  <2>1. /\ step' \in 1..8 /\ marks' \in [Procs -> SUBSET Marks]
        /\ broke' \subseteq {"filter", "paths"} /\ freed' \in BOOLEAN
        /\ UNCHANGED <<env, launch>> /\ TypeOK
    BY <1>1, Orders DEF TypeOK
  <2> QED
    BY <1>10, <1>11, <2>1, Types
<1>4. (Split <=> Split') /\ LandlockMode' = LandlockMode
      /\ SeccompMode' = SeccompMode
  <2>1. up'["login"] = up["login"]
    BY <1>10 DEF Procs, Helpers
  <2> QED
    BY <1>1, <2>1 DEF Split, LandlockMode, SeccompMode
<1>5. Promised' = Promised /\ Paths' = Paths
  BY <1>1, <1>4 DEF Promised, Paths
<1>6. Confinement' /\ Opened'
  BY <1>1, <1>5 DEF Confinement, Opened, TypeOK
<1>7. Clean' /\ Programs'
  <2>1. up'["greeter"] = up["greeter"]
    BY <1>10 DEF Procs, Workers
  <2> QED
    BY <1>1, <2>1 DEF Clean, Programs, Achieved
<1> QED
  BY <1>3, <1>6, <1>7

-----------------------------------------------------------------------------
(* The invariant, and what follows from it.                                *)

LEMMA Initially == Init => Inv
<1> SUFFICES ASSUME Init PROVE Inv
  OBVIOUS
<1>1. TypeOK
  <2>1. NoProgram \in Program
    <3>1. 0 \in 0..(Len(Setup) + 1)
      BY Setups
    <3> QED
      BY <3>1, StartupAssumption DEF NoProgram, Program, Passwd
  <2>2. up \in [Procs -> {"none", "up", "gone"}]
    BY DEF Init
  <2>3. marks \in [Procs -> SUBSET Marks]
    BY DEF Init
  <2>4. launch \in [Seated -> Program]
    BY <2>1 DEF Init
  <2>5. env \in Environment /\ step \in 1..(Len(Order) + 1)
        /\ broke = {} /\ freed \in BOOLEAN /\ open = {}
    <3>1. 1 \in 1..(Len(Order) + 1)
      BY Orders
    <3> QED
      BY <3>1 DEF Init
  <2> QED
    BY <2>2, <2>3, <2>4, <2>5 DEF TypeOK
<1>2. Confinement /\ Opened
  BY DEF Init, Confinement, Opened, Procs, Threads
<1>3. Clean
  BY DEF Init, Clean, Procs, Workers, Seated, Helpers
<1>4. Programs
  BY DEF Init, Programs, Achieved, NoProgram
<1> QED
  BY <1>1, <1>2, <1>3, <1>4 DEF Inv

LEMMA Stands == Inv /\ [Next]_vars => Inv'
<1> SUFFICES ASSUME Inv, [Next]_vars PROVE Inv'
  OBVIOUS
<1>1. CASE Main
  BY <1>1, MainStands
<1>2. CASE ListenerServes
  BY <1>2, ListenerStands
<1>3. ASSUME NEW h \in Helpers, SpawnerLost(h) PROVE Inv'
  BY <1>3, LostStands
<1>4. ASSUME NEW w \in Workers, StartWorker(w) PROVE Inv'
  BY <1>4, StartStands
<1>5. ASSUME NEW w \in Workers, WorkerEnds(w) PROVE Inv'
  BY <1>5, EndsStand
<1>6. ASSUME NEW w \in Seated, Launch(w) PROVE Inv'
  BY <1>6, LaunchReplaces, ReplacedStands DEF Inv
<1>7. CASE UNCHANGED vars
  BY <1>7 DEF vars, daemon, Inv, TypeOK, Confinement, Opened, Clean, Programs,
     Achieved, Promised, Paths, Split, SeccompMode, LandlockMode
<1> QED
  BY <1>1, <1>2, <1>3, <1>4, <1>5, <1>6, <1>7 DEF Next

LEMMA Invariance == Spec => []Inv
<1>1. Init => Inv
  BY Initially
<1>2. Inv /\ [Next]_vars => Inv'
  BY Stands
<1> QED
  BY <1>1, <1>2, PTL DEF Spec

\* Type correctness of the start-up.
THEOREM StartupTypeCorrect == Spec => []TypeOK
<1>1. Inv => TypeOK
  BY DEF Inv
<1> QED
  BY <1>1, Invariance, PTL

\* The greeter's compositor, the user's desktop and the workers they hang on
\* never run under the supervisor's filter or ruleset, whatever fails.
THEOREM DesktopIsUnconfined == Spec => []DesktopUnconfined
<1>1. Inv => DesktopUnconfined
  BY DEF Inv, Clean, Programs, Achieved, DesktopUnconfined
<1> QED
  BY <1>1, Invariance, PTL

\* Neither socket can be connected to before its thread runs under all of the
\* sandbox that could be installed.
THEOREM ServedConfined == Spec => []ServesConfined
<1>1. Inv => ServesConfined
  <2> SUFFICES ASSUME Inv, NEW t \in open PROVE marks[t] = Promised
    BY DEF ServesConfined
  <2>1. t \in Threads /\ up[t] = "up" /\ step >= 7
    BY DEF Inv, TypeOK, Opened
  <2>2. marks["main"] = Promised
    BY <2>1, Orders DEF Inv, TypeOK, Confinement
  <2> QED
    BY <2>1, <2>2 DEF Inv, Confinement, Threads
<1> QED
  BY <1>1, Invariance, PTL

\* A program runs as its target and never as root, for every set of users.
THEOREM TargetHolds == Spec => []RunsAsTarget
<1>1. Inv => RunsAsTarget
  BY Setups DEF Inv, Programs, Achieved, RunsAsTarget, Runs
<1> QED
  BY <1>1, Invariance, PTL

\* The greeter's compositor never runs without its worker.
THEOREM NoOrphan == Spec => []NeverOrphaned
<1>1. Inv => NeverOrphaned
  BY Setups DEF Inv, Programs, Achieved, NeverOrphaned, Runs, Seated
<1> QED
  BY <1>1, Invariance, PTL
=============================================================================
