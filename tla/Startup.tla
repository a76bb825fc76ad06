------------------------------- MODULE Startup -------------------------------
(***************************************************************************)
(* How doord comes up and what its processes inherit: `main` (main.rs)     *)
(* forks the two spawners, confines itself with Landlock and seccomp       *)
(* (hardening.rs), and serves; workers are forked by a spawner or, without *)
(* one, by the daemon (pam.rs, reauth.rs); a worker launches its program   *)
(* through spawn.rs and privdrop.rs.                                       *)
(*                                                                         *)
(* A process is what it inherits: the confinement it was born with.  The   *)
(* requests to a spawner are single steps here; module Spawner has the     *)
(* stream they go over.                                                    *)
(***************************************************************************)
EXTENDS Naturals, Sequences

CONSTANTS
  Users,    \* the uids a passwd entry may name
  Root,     \* the one among them that is uid 0
  Groups,   \* the primary gids it may name, of any of the users
  RootGroup \* the one among them that is gid 0

ASSUME StartupAssumption == Root \in Users /\ RootGroup \in Groups

Threads == {"main", "listener"}
Helpers == {"login", "reauth"}
Workers == {"greeter", "session", "verifier"}
Seated  == {"greeter", "session"} \* the workers that launch a program
Procs   == Threads \cup Helpers \cup Workers

\* "log" and "enforce" are the filter's two modes, "paths" the ruleset.
Marks == {"log", "enforce", "paths"}

\* What main() does, in its order.  The socket directory it prepares before
\* the ruleset only matters to whether the ruleset can be installed.
\* mutant: the listener thread exists before the ruleset does
OrderThreadFirst == <<"login", "reauth", "listener", "landlock", "seccomp",
                      "release", "serve">>
Order == <<"login", "reauth", "landlock", "listener", "seccomp", "release",
           "serve">>

\* What session_setup does between fork and exec.
\* mutant: the drop is taken at its word
SetupUnverified == <<"tty", "groups", "gid", "uid", "arm", "orphan">>
Setup == <<"tty", "groups", "gid", "uid", "verify", "arm", "orphan">>

VARIABLES
  env,    \* the variables of the unit that matter here
  step,   \* how far main() is
  up,     \* each process: not there yet, there, or gone
  marks,  \* the confinement each process runs under
  broke,  \* the parts of the sandbox that failed to install
  freed,  \* main() has released the listener thread
  open,   \* the threads whose socket can be connected to
  launch  \* for each seated worker, its program on the way to exec

daemon == <<step, freed, broke, open>>
vars   == <<env, step, up, marks, broke, freed, open, launch>>

\* Of a passwd entry, the identity a program is to have; and a program, whose
\* supplementary groups are root's until initgroups reported success, having
\* replaced them or ("ignored") not.
Passwd  == [uid: Users, gid: Groups]
Program == [at: 0..(Len(Setup) + 1), target: Passwd, gid: Groups, uid: Users,
            groups: {"root", "target", "ignored"}, tty: BOOLEAN,
            armed: BOOLEAN, marks: SUBSET Marks]

NoProgram == [at |-> 0, target |-> [uid |-> Root, gid |-> RootGroup],
              gid |-> RootGroup, uid |-> Root, groups |-> "root",
              tty |-> FALSE, armed |-> FALSE, marks |-> {}]

Environment == [spawner: BOOLEAN, noSandbox: BOOLEAN, vt: BOOLEAN,
                seccomp: {"off", "log", "enforce"},
                landlock: {"off", "enforce"}]

\* The variables keep their types, and sockets belong to living threads.
TypeOK ==
  /\ env \in Environment
  /\ step \in 1..(Len(Order) + 1)
  /\ up \in [Procs -> {"none", "up", "gone"}]
  /\ marks \in [Procs -> SUBSET Marks]
  /\ broke \subseteq {"filter", "paths"}
  /\ freed \in BOOLEAN
  /\ open \subseteq {t \in Threads : up[t] = "up"}
  /\ launch \in [Seated -> Program]

-----------------------------------------------------------------------------
(* The modes, from the environment: DOORD_NO_SANDBOX wins.                 *)

SeccompMode  == IF env.noSandbox THEN "off" ELSE env.seccomp
LandlockMode == IF env.noSandbox THEN "off" ELSE env.landlock

Init ==
  /\ env \in Environment
  /\ step = 1
  /\ up = [p \in Procs |-> IF p = "main" THEN "up" ELSE "none"]
  /\ marks = [p \in Procs |-> {}]
  /\ broke = {}
  /\ freed = FALSE
  /\ open = {}
  /\ launch = [w \in Seated |-> NoProgram]

At(s) == /\ up["main"] = "up"
         /\ step <= Len(Order)
         /\ Order[step] = s
         /\ step' = step + 1

\* The enforcing filter knows neither clone nor the Landlock syscalls.
Unfiltered(p) == "enforce" \notin marks[p]

\* A new process or thread inherits the filter and the ruleset.
Fork(p, parent) ==
  /\ Unfiltered(parent)
  /\ up' = [up EXCEPT ![p] = "up"]
  /\ marks' = [marks EXCEPT ![p] = marks[parent]]

\* main()'s `spawner` is Some: the helper was forked, whatever became of it.
Split == up["login"] # "none"

\* A thread is confined further; nothing takes a confinement back.
Confine(ts, m) ==
  marks' = [p \in Procs |-> IF p \in ts THEN marks[p] \cup {m} ELSE marks[p]]

-----------------------------------------------------------------------------
(* main()                                                                  *)

\* The spawner for logins, if the unit asks for one; a failed fork falls
\* back to the direct path.
ForkLoginSpawner ==
  /\ At("login")
  /\ \/ env.spawner /\ Fork("login", "main")
     \/ UNCHANGED <<up, marks>>
  /\ UNCHANGED <<env, broke, freed, open, launch>>

\* The spawner for reauthentications, only beside the other one.
ForkReauthSpawner ==
  /\ At("reauth")
  /\ \/ Split /\ Fork("reauth", "main")
     \/ UNCHANGED <<up, marks>>
  /\ UNCHANGED <<env, broke, freed, open, launch>>

\* The path ruleset, of the calling thread and what it creates from then on.
\* mutant: without a spawner too
ApplyLandlockAlways ==
  /\ At("landlock")
  /\ IF LandlockMode = "enforce" /\ Unfiltered("main")
     THEN \/ Confine({"main"}, "paths") /\ UNCHANGED broke
          \/ broke' = broke \cup {"paths"} /\ UNCHANGED marks
     ELSE UNCHANGED <<marks, broke>>
  /\ UNCHANGED <<env, up, freed, open, launch>>
ApplyLandlock ==
  /\ At("landlock")
  /\ IF Split /\ LandlockMode = "enforce" /\ Unfiltered("main")
     THEN \/ Confine({"main"}, "paths") /\ UNCHANGED broke
          \/ broke' = broke \cup {"paths"} /\ UNCHANGED marks
     ELSE UNCHANGED <<marks, broke>>
  /\ UNCHANGED <<env, up, freed, open, launch>>

\* The listener thread is created, parked on the release channel.
SpawnListener ==
  /\ At("listener")
  /\ \/ Fork("listener", "main")
     \/ UNCHANGED <<up, marks>>
  /\ UNCHANGED <<env, broke, freed, open, launch>>

\* The filter, of every thread there is (TSYNC).
ApplySeccomp ==
  /\ At("seccomp")
  /\ IF Split /\ SeccompMode # "off"
     THEN \/ /\ Confine({t \in Threads : up[t] = "up"}, SeccompMode)
             /\ UNCHANGED broke
          \/ broke' = broke \cup {"filter"} /\ UNCHANGED marks
     ELSE UNCHANGED <<marks, broke>>
  /\ UNCHANGED <<env, up, freed, open, launch>>

Release ==
  /\ At("release")
  /\ freed' = TRUE
  /\ UNCHANGED <<env, up, marks, broke, open, launch>>

\* The end of doord, with its threads; PR_SET_PDEATHSIG and the end of their
\* streams end the spawners.  Workers live on.
DaemonEnds ==
  /\ up' = [p \in Procs |-> IF p \in Workers \/ up[p] = "none" THEN up[p]
                            ELSE "gone"]
  /\ open' = {}

\* serve binds the greeter's socket, or main() returns a failure.
Serve ==
  /\ At("serve")
  /\ \/ open' = open \cup {"main"} /\ UNCHANGED up
     \/ DaemonEnds
  /\ UNCHANGED <<env, marks, broke, freed, launch>>

\* doord dies, or is killed.
Dies ==
  /\ up["main"] = "up"
  /\ DaemonEnds
  /\ UNCHANGED <<env, step, marks, broke, freed, launch>>

\* The listener thread, once released, binds its own socket or returns.
ListenerServes ==
  /\ up["listener"] = "up"
  /\ freed
  /\ "listener" \notin open
  /\ \/ open' = open \cup {"listener"} /\ UNCHANGED up
     \/ up' = [up EXCEPT !["listener"] = "gone"] /\ UNCHANGED open
  /\ UNCHANGED <<env, step, marks, broke, freed, launch>>

\* A spawner is lost (killed for memory, say); its handle stays.
SpawnerLost(h) ==
  /\ up[h] = "up"
  /\ up' = [up EXCEPT ![h] = "gone"]
  /\ UNCHANGED <<env, daemon, marks, launch>>

-----------------------------------------------------------------------------
(* Workers                                                                 *)

\* The thread that wants the worker, and the spawner it would ask.
Asker(w)  == IF w = "verifier" THEN "listener" ELSE "main"
Helper(w) == IF w = "verifier" THEN "reauth" ELSE "login"

\* A worker is asked of the spawner; without one it is forked directly.  A
\* spawner that is gone, or fails, starts nothing.  (Bound: a worker of each
\* kind, and no second one beside a program of the first.)
StartWorker(w) ==
  /\ Asker(w) \in open
  /\ up[w] # "up"
  /\ w \in Seated => launch[w].at = 0
  /\ \/ up[Helper(w)] = "up" /\ Fork(w, Helper(w))
     \/ up[Helper(w)] = "none" /\ Fork(w, Asker(w))
  /\ UNCHANGED <<env, daemon, launch>>

\* A worker ends: it is done, it failed, or it was killed.  Its program is
\* killed with it if it has armed the parent-death signal.
WorkerEnds(w) ==
  /\ up[w] = "up"
  /\ up' = [up EXCEPT ![w] = "gone"]
  /\ launch' = IF w \in Seated /\ launch[w].armed
               THEN [launch EXCEPT ![w] = NoProgram] ELSE launch
  /\ UNCHANGED <<env, daemon, marks>>

-----------------------------------------------------------------------------
(* A launch, in the forked child                                           *)

\* The worker resolves the user and forks the child.  (Bound: one child is set
\* up at a time, beside a program that runs; two set-ups share nothing.)
BeginLaunch(w) ==
  /\ up[w] = "up"
  /\ Unfiltered(w)
  /\ launch[w].at = 0
  /\ \A v \in Seated : launch[v].at \in {0, Len(Setup) + 1}
  /\ \E t \in Passwd :
       launch' = [launch EXCEPT ![w] = [NoProgram EXCEPT !.at = 1,
                                          !.target = t, !.marks = marks[w]]]
  /\ UNCHANGED <<env, daemon, up, marks>>

\* The child is about to take this step of the set-up, and goes on to the
\* next one as `p`.
Doing(w, s) == launch[w].at \in 1..Len(Setup) /\ Setup[launch[w].at] = s
GoesOnAs(w, p) ==
  /\ launch' = [launch EXCEPT ![w] = [p EXCEPT !.at = launch[w].at + 1]]
  /\ UNCHANGED <<env, daemon, up, marks>>

\* Only root opens the VT, sets groups and changes ids.
Privileged(w) == launch[w].uid = Root

\* A change of the effective ids disarms the parent-death signal.
Changed(p, field, new) ==
  [p EXCEPT ![field] = new, !.armed = @ /\ new = p[field]]

TakeTty(w) ==
  /\ Doing(w, "tty")
  /\ env.vt => Privileged(w)
  /\ GoesOnAs(w, [launch[w] EXCEPT !.tty = env.vt])

\* The calls of the drop may return success without having taken effect.
SetGroups(w) ==
  /\ Doing(w, "groups")
  /\ Privileged(w)
  /\ \E g \in {"target", "ignored"} :
       GoesOnAs(w, [launch[w] EXCEPT !.groups = g])

SetGid(w) ==
  /\ Doing(w, "gid")
  /\ Privileged(w)
  /\ \E g \in {launch[w].target.gid, launch[w].gid} :
       GoesOnAs(w, Changed(launch[w], "gid", g))

SetUid(w) ==
  /\ Doing(w, "uid")
  /\ Privileged(w)
  /\ \E u \in {launch[w].target.uid, launch[w].uid} :
       GoesOnAs(w, Changed(launch[w], "uid", u))

\* verify_dropped: an id that did not take is refused, and so is uid 0.  The
\* supplementary groups are not looked at, and neither is a gid of 0.
VerifyDropped(w) ==
  /\ Doing(w, "verify")
  /\ launch[w].uid = launch[w].target.uid
  /\ launch[w].gid = launch[w].target.gid
  /\ launch[w].target.uid # Root
  /\ GoesOnAs(w, launch[w])

\* Only the greeter's compositor is given a parent-death signal.
ArmDeathSignal(w) ==
  /\ Doing(w, "arm")
  /\ GoesOnAs(w, [launch[w] EXCEPT !.armed = w = "greeter"])

\* getppid: a child whose worker is gone already will get no signal.
\* mutant: the race is not closed
CheckParentNot(w) ==
  /\ Doing(w, "orphan")
  /\ GoesOnAs(w, launch[w])
CheckParent(w) ==
  /\ Doing(w, "orphan")
  /\ w = "greeter" => up[w] = "up"
  /\ GoesOnAs(w, launch[w])

\* The child fails at any step, or the program ends.
ProgramEnds(w) ==
  /\ launch[w].at # 0
  /\ launch' = [launch EXCEPT ![w] = NoProgram]
  /\ UNCHANGED <<env, daemon, up, marks>>

Launch(w) ==
  \/ BeginLaunch(w)
  \/ TakeTty(w) \/ SetGroups(w) \/ SetGid(w) \/ SetUid(w)
  \/ VerifyDropped(w) \/ ArmDeathSignal(w) \/ CheckParent(w)
  \/ ProgramEnds(w)

Main ==
  \/ ForkLoginSpawner \/ ForkReauthSpawner \/ ApplyLandlock \/ SpawnListener
  \/ ApplySeccomp \/ Release \/ Serve \/ Dies

Next ==
  \/ Main
  \/ ListenerServes
  \/ \E h \in Helpers : SpawnerLost(h)
  \/ \E w \in Workers : StartWorker(w) \/ WorkerEnds(w)
  \/ \E w \in Seated : Launch(w)

Spec == Init /\ [][Next]_vars

-----------------------------------------------------------------------------
(* Properties                                                              *)

Runs(w) == launch[w].at = Len(Setup) + 1

\* Neither the greeter's compositor, nor the user's desktop, nor the worker
\* with the PAM transaction of either ever runs under the supervisor's filter
\* or ruleset, whichever of the spawners could be forked and whichever modes
\* are asked for (main.rs:63-68, spawner.rs:3-18).
DesktopUnconfined ==
  \A w \in Seated :
    /\ up[w] = "up" => marks[w] = {}
    /\ launch[w].at # 0 => launch[w].marks = {}

\* What main() means to confine the daemon by.
Promised ==
  IF ~Split THEN {}
  ELSE (IF LandlockMode = "enforce" /\ "paths" \notin broke
        THEN {"paths"} ELSE {})
       \cup (IF SeccompMode # "off" /\ "filter" \notin broke
             THEN {SeccompMode} ELSE {})

\* From the moment a socket of either thread can be connected to, the thread
\* runs under the whole of the sandbox, less what could not be installed: the
\* ruleset by inheritance, the filter by TSYNC (main.rs:162-170, 198-205).
\* (hardening.rs:17-18 gives another order, with the listener bound before the
\* filter; main() has this one.)
ServesConfined == \A t \in open : marks[t] = Promised

\* A program that runs has exactly its target's uid, never root's, and its gid
\* (real and effective ones), and the VT if there is one, though each call of
\* the drop may report success and not take effect.  Its supplementary groups
\* are the target's as far as initgroups said so: nothing reads them back
\* (privdrop.rs:39-99, spawn.rs:214-220).
RunsAsTarget ==
  \A w \in Seated :
    Runs(w) => /\ launch[w].uid = launch[w].target.uid
               /\ launch[w].uid # Root
               /\ launch[w].gid = launch[w].target.gid
               /\ launch[w].groups # "root"
               /\ launch[w].tty = env.vt

\* No compositor of the greeter runs without its worker: whenever the worker
\* dies, before, while or after the child arms the signal (spawn.rs:237-262).
NeverOrphaned == Runs("greeter") => up["greeter"] = "up"
=============================================================================
