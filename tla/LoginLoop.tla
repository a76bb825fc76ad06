------------------------------ MODULE LoginLoop ------------------------------
(***************************************************************************)
(* The managed login loop of doord (doord/src/ipc.rs, `serve`), in the     *)
(* shipped configuration: a greeter user, a real VT, the pre-forked        *)
(* spawner.  One life of the daemon greets, serves one connection, tears   *)
(* the greeter down, starts the session, waits for it and greets again.    *)
(* A crash starts a new life; what the old life spawned survives it.       *)
(*                                                                         *)
(* The module keeps the daemon's control flow (one value of pc per point   *)
(* where another process can step in between) and the processes it        *)
(* contends with for the seat: the greeter worker, the greeter's           *)
(* compositor (cage), the session and the session's compositor.  A signal  *)
(* is sent in one step and takes effect in another, so the daemon never    *)
(* sees a process end merely because it was told, or made, to.             *)
(*                                                                         *)
(* Not here: the mode of the VT (restore_text_vt is best effort), the      *)
(* words of the requests (LoginSeam), the spawner's protocol (Spawner).    *)
(***************************************************************************)
EXTENDS Naturals, Sequences

CONSTANTS
  MaxRapidFailures,  \* GREETER_MAX_RAPID_FAILURES
  MaxLives,          \* bound: how many times systemd starts doord
  MaxBacklog         \* bound: connections waiting in the listener's backlog

ASSUME ConstantsAssumption ==
  /\ MaxRapidFailures \in Nat \ {0}
  /\ MaxLives \in Nat \ {0}
  /\ MaxBacklog \in Nat \ {0}

Lives == 1..MaxLives

(***************************************************************************)
(* Program points of the daemon's main thread.                             *)
(***************************************************************************)
Points == {"Boot", "Top", "Scan", "Grace", "Settle", "Launch", "Backoff",
           "Accept", "Serve", "Term", "TermWait", "KillWait", "Handoff",
           "Start", "Wait", "Poll", "Account", "Exit", "Abort"}

VARIABLES
  pc,        \* where doord's main thread is
  ret,       \* where free_seat, or terminate, returns to
  down,      \* "no" while doord runs, else how it ended
  life,      \* which start of the daemon this is
  greeting,  \* the atomic GREETING
  teardown,  \* the atomic TEARDOWN
  rapid,     \* rapid_failures
  young,     \* greeted_at.elapsed() < GREETER_MIN_UPTIME
  tries,     \* history: greeters attempted since one lasted, in this life
  hook,      \* a panic of the reauth listener's thread is freeing the seat
  backlog,   \* connections not yet accepted
  conn,      \* the connection being served, or "none"
  authed,    \* login.user().is_some() on that connection
  ui,        \* the current greeter UI's one connection
  gw,        \* the current greeter's worker
  cage,      \* the current greeter's compositor
  sess,      \* the session: "running", and "lingering" (its leader is gone, a
             \* process it started still holds the control fd), are watched by
             \* the daemon; "adrift" runs and is not
  comp,      \* the session's compositor process group
  past       \* a compositor whose greeter or session the daemon lost sight of

streak == <<rapid, young, tries>>
flags  == <<greeting, teardown, streak, hook>>
doord  == <<pc, ret, down, life, flags>>
link   == <<backlog, conn, authed, ui>>
procs  == <<gw, cage, sess, comp, past>>
vars   == <<doord, link, procs>>

Up == down = "no"

\* A peer of the socket: the current greeter's UI, one that is gone already, a
\* process of another uid.
Channel == {"greeter", "stale", "foreign"}

DoordTypeOK ==
  /\ pc \in Points /\ ret \in Points
  /\ down \in {"no", "signal", "teardown", "gaveup", "panicked", "killed"}
  /\ life \in Lives
  /\ greeting \in BOOLEAN /\ teardown \in BOOLEAN
  /\ rapid \in 0..MaxRapidFailures
  /\ young \in BOOLEAN
  /\ tries \in 0..(MaxRapidFailures + 1)
  /\ hook \in BOOLEAN

LinkTypeOK ==
  /\ backlog \in Seq(Channel)
  /\ conn \in Channel \cup {"none"}
  /\ authed \in BOOLEAN
  /\ ui \in {"none", "open", "closed"}

Worker     == {"none", "starting", "forked", "running", "killed"}
Compositor == {"none", "boot", "up", "term", "killed"}
Session    == {"none", "running", "lingering", "adrift"}

ProcsTypeOK ==
  /\ gw \in Worker /\ cage \in Compositor
  /\ sess \in Session /\ comp \in Compositor
  /\ past \in Compositor

\* The variables keep their types.
TypeOK == DoordTypeOK /\ LinkTypeOK /\ ProcsTypeOK

Init ==
  /\ pc = "Boot" /\ ret = "Boot" /\ down = "no" /\ life = 1
  /\ greeting = FALSE /\ teardown = FALSE
  /\ rapid = 0 /\ young = FALSE /\ tries = 0 /\ hook = FALSE
  /\ backlog = <<>> /\ conn = "none" /\ authed = FALSE /\ ui = "none"
  /\ gw = "none" /\ cage = "none" /\ sess = "none" /\ comp = "none"
  /\ past = "none"

-----------------------------------------------------------------------------
(***************************************************************************)
(* The seat.  A process holds the card when it has the DRM node open: an   *)
(* "up" compositor, one told to stop that has not exited yet, one whose    *)
(* SIGKILL is still to take effect.                                        *)
(***************************************************************************)
HoldsCard(p) == p \in {"up", "term", "killed"}

CardHeld == HoldsCard(cage) \/ HoldsCard(comp) \/ HoldsCard(past)

\* SIGTERM, or SIGKILL, of the process group of a holder.  Every compositor
\* leads a group of its own (session_setup's setsid), so the groups
\* signal_group refuses, doord's own and those <= 1, are never a holder's.  A
\* compositor that has not got the card yet may ignore a SIGTERM.
Told(p) == IF p = "up" THEN "term" ELSE p
NotDoomed(p) == p  \* mutant: the SIGKILL round is dropped
Doomed(p) == IF HoldsCard(p) THEN "killed" ELSE p

TellHolders ==
  cage' = Told(cage) /\ comp' = Told(comp) /\ past' = Told(past)
KillHolders ==
  cage' = Doomed(cage) /\ comp' = Doomed(comp) /\ past' = Doomed(past)

\* free_seat: scan; nothing to do, or SIGTERM the holders and wait.
ScanSeat ==
  /\ pc = "Scan" /\ Up
  /\ pc' = IF CardHeld THEN "Grace" ELSE ret
  /\ TellHolders
  /\ UNCHANGED <<ret, down, life, flags, link, gw, sess>>

\* Re-scan: nobody left, or SIGKILL whatever holds the card now and wait.
KillStragglers ==
  /\ pc = "Grace" /\ Up
  /\ pc' = IF CardHeld THEN "Settle" ELSE ret
  /\ KillHolders
  /\ UNCHANGED <<ret, down, life, flags, link, gw, sess>>

\* The third scan only warns: free_seat returns, the card held or not.
SettleEnds ==
  /\ pc = "Settle" /\ Up
  /\ pc' = ret
  /\ UNCHANGED <<ret, down, life, flags, link, procs>>

(***************************************************************************)
(* The panic hook is the process's: a panic of the reauth listener's       *)
(* thread ends that thread only, but frees the seat first, beside the main *)
(* thread (the two rounds of free_seat).  The thread dies of its panic;    *)
(* the model lets it panic again, and only in the first life (a bound).    *)
(***************************************************************************)
HookScans ==
  /\ Up /\ pc # "Boot" /\ life = 1 /\ ~hook /\ CardHeld
  /\ hook' = TRUE
  /\ TellHolders
  /\ UNCHANGED <<pc, ret, down, life, greeting, teardown, streak>>
  /\ UNCHANGED <<link, gw, sess>>

HookKills ==
  /\ Up /\ hook
  /\ hook' = FALSE
  /\ KillHolders
  /\ UNCHANGED <<pc, ret, down, life, greeting, teardown, streak>>
  /\ UNCHANGED <<link, gw, sess>>

-----------------------------------------------------------------------------
(***************************************************************************)
(* The daemon's main thread.                                               *)
(***************************************************************************)

\* The daemon is gone, and with it its memory and its end of every connection.
Die(how) ==
  /\ down' = how
  /\ pc' = "Boot" /\ ret' = "Boot" /\ life' = life
  /\ greeting' = FALSE /\ teardown' = FALSE
  /\ rapid' = 0 /\ young' = FALSE /\ tries' = 0 /\ hook' = FALSE
  /\ backlog' = <<>> /\ conn' = "none" /\ authed' = FALSE
  /\ ui' = IF ui = "open" THEN "closed" ELSE ui

\* serve: the listener is bound and the handlers are installed.
EnterLoop ==
  /\ pc = "Boot" /\ Up
  /\ pc' = "Top"
  /\ UNCHANGED <<ret, down, life, flags, link, procs>>

\* The loop top: GREETING.store(true), then free_seat before greeting.
LoopTop ==
  /\ pc = "Top" /\ Up
  /\ greeting' = TRUE
  /\ pc' = "Scan" /\ ret' = "Launch"
  /\ UNCHANGED <<down, life, teardown, streak, hook, link, procs>>

\* One more greeter attempted (kept up to one above the limit).
Attempt == tries' = IF tries > MaxRapidFailures THEN tries ELSE tries + 1

\* Of the current greeter and the last session, what still runs when a new one
\* takes its place.  A step that would lose sight of a second compositor is not
\* taken: a bound of the model.
Leave(remains) ==
  IF remains = "none" THEN past' = past ELSE past = "none" /\ past' = remains

LaunchUncounted ==  \* mutant: the error path backs off and counts nothing
  /\ pc = "Launch" /\ Up
  /\ Attempt
  /\ pc' = "Backoff"
  /\ UNCHANGED <<ret, down, life, greeting, teardown, rapid, young, hook>>
  /\ UNCHANGED <<link, procs>>

\* The launch failed.  The greeter may run all the same: its worker was forked
\* but its handle did not reach the daemon.
LaunchFails ==
  /\ pc = "Launch" /\ Up
  /\ IF rapid + 1 >= MaxRapidFailures
       THEN Die("gaveup")
       ELSE /\ rapid' = rapid + 1 /\ Attempt
            /\ pc' = "Backoff"
            /\ UNCHANGED <<ret, down, life, greeting, teardown, young, hook>>
            /\ UNCHANGED link
  /\ \E unseen \in {"none", "boot"} : Leave(unseen)
  /\ UNCHANGED <<gw, cage, sess, comp>>

\* The peers of waiting connections are gone: accepting one reads EOF.
Stale(queue) ==
  [i \in DOMAIN queue |-> IF queue[i] = "greeter" THEN "stale" ELSE queue[i]]

\* A new greeter process.  A connection its predecessor's UI left in the backlog
\* is still there.
LaunchGreeter ==
  /\ pc = "Launch" /\ Up
  /\ gw' = "starting" /\ cage' = "none" /\ ui' = "none"
  /\ Leave(cage)
  /\ backlog' = Stale(backlog)
  /\ young' = TRUE
  /\ Attempt
  /\ pc' = "Accept"
  /\ UNCHANGED <<ret, down, life, greeting, teardown, rapid, hook>>
  /\ UNCHANGED <<conn, authed, sess, comp>>

EndBackoff ==
  /\ pc = "Backoff" /\ Up
  /\ pc' = "Top"
  /\ UNCHANGED <<ret, down, life, flags, link, procs>>

\* accept_with_greeter_watch: a waiting connection wins over a dead greeter.
AcceptConnection ==
  /\ pc = "Accept" /\ Up
  /\ backlog # <<>>
  /\ conn' = Head(backlog)
  /\ backlog' = Tail(backlog)
  /\ authed' = FALSE
  /\ pc' = "Serve"
  /\ UNCHANGED <<ret, down, life, flags, ui, procs>>

\* Leave the cycle through the final terminate() of the loop body.
LeaveVia(point) == pc' = "Term" /\ ret' = point

NeverNotice == FALSE  \* mutant: a blocking accept()
NoticeDeadGreeter ==
  /\ pc = "Accept" /\ Up
  /\ backlog = <<>>
  /\ gw = "none"
  /\ LeaveVia("Account")
  /\ UNCHANGED <<down, life, flags, link, procs>>

AcceptFails ==
  /\ pc = "Accept" /\ Up
  /\ LeaveVia("Account")
  /\ UNCHANGED <<down, life, flags, link, procs>>

\* handle_connection returns: a foreign uid is refused, a dead peer reads EOF.
ConnectionOver ==
  \/ conn \in {"foreign", "stale"}
  \/ ui # "open"

EndConnection ==
  /\ pc = "Serve" /\ Up
  /\ conn' = "none" /\ authed' = FALSE
  /\ LeaveVia("Account")
  /\ ui' = IF conn = "greeter" THEN "closed" ELSE ui
  /\ UNCHANGED <<down, life, flags, backlog, procs>>

ServeEof   == ConnectionOver /\ EndConnection
\* ... or the daemon drops a live peer: bad handshake, frame error, dead worker.
ServeDrops == ~ConnectionOver /\ EndConnection

Authenticate ==
  /\ pc = "Serve" /\ Up /\ conn = "greeter"
  /\ authed' = TRUE
  /\ UNCHANGED <<doord, backlog, conn, ui, procs>>

\* run_start with a session that exists: tear the greeter down first.
RequestStart ==
  /\ pc = "Serve" /\ Up /\ conn = "greeter" /\ authed
  /\ LeaveVia("Handoff")
  /\ UNCHANGED <<down, life, flags, link, procs>>

\* GreeterHandle::terminate: SIGTERM to the greeter worker, unless it ended.
\* Its forwarder tells the compositor; before the forwarder is armed the
\* signal kills the worker.
SignalWorker ==
  \/ gw = "running" /\ gw' = gw /\ cage' = Told(cage)
  \/ gw \in {"starting", "forked", "killed"} /\ gw' = "killed" /\ cage' = cage

Terminate ==
  /\ pc = "Term" /\ Up
  /\ \/ /\ gw = "none"
        /\ pc' = ret
        /\ UNCHANGED <<gw, cage>>
     \/ /\ SignalWorker
        /\ pc' = "TermWait"
  /\ UNCHANGED <<ret, down, life, flags, link, sess, comp, past>>

\* The control fd hit EOF within GREETER_TERM_GRACE, of either wait.
TermSeesEof ==
  /\ pc \in {"TermWait", "KillWait"} /\ Up
  /\ gw = "none"
  /\ pc' = ret
  /\ UNCHANGED <<ret, down, life, flags, link, procs>>

WaitWithoutDeadline == FALSE  \* mutant of TermEscalates: no grace
ReturnAtDeadline ==  \* mutant of TermEscalates: the SIGKILL is dropped
  /\ pc = "TermWait" /\ Up
  /\ pc' = ret
  /\ UNCHANGED <<ret, down, life, flags, link, procs>>

\* The grace ran out: SIGKILL the worker and wait again.
TermEscalates ==
  /\ pc = "TermWait" /\ Up
  /\ gw # "none"
  /\ gw' = "killed"
  /\ pc' = "KillWait"
  /\ UNCHANGED <<ret, down, life, flags, link, cage, sess, comp, past>>

\* The second wait's result is ignored: no EOF either, and the worker counts
\* as ended.
TermGivesUp ==
  /\ pc = "KillWait" /\ Up
  /\ gw # "none"
  /\ pc' = ret
  /\ UNCHANGED <<ret, down, life, flags, link, procs>>

KeepGreeting ==  \* mutant of LeaveGreeting: no GREETING.store(false)
  pc = "Handoff" /\ Up /\ pc' = "Start"
  /\ UNCHANGED <<ret, down, life, flags, link, procs>>

\* run_start: the greeter was terminated; the session will own the VT.
LeaveGreeting ==
  /\ pc = "Handoff" /\ Up
  /\ greeting' = FALSE
  /\ pc' = "Start"
  /\ UNCHANGED <<ret, down, life, teardown, streak, hook, link, procs>>

\* The worker launched the session and reported Started.
Launched(state) ==
  /\ pc = "Start" /\ Up
  /\ sess' = state /\ comp' = "boot"
  /\ Leave(comp)
  /\ UNCHANGED <<down, life, flags, backlog, ui, gw, cage>>

\* login.start returns the handle to wait on ...
StartSession ==
  /\ Launched("running")
  /\ pc' = "Wait"
  /\ UNCHANGED <<ret, conn, authed>>

\* ... or an error all the same: the control socket could not be cloned or made
\* non-blocking.  The session runs, and the loop believes it does not.
StartLosesSession ==
  /\ Launched("adrift")
  /\ conn' = "none" /\ authed' = FALSE
  /\ LeaveVia("Account")

\* The launch failed after the handoff.
StartFails ==
  /\ pc = "Start" /\ Up
  /\ conn' = "none" /\ authed' = FALSE
  /\ LeaveVia("Account")
  /\ UNCHANGED <<down, life, flags, backlog, ui, procs>>

WaitDeaf ==  \* mutant of WaitChecks: TEARDOWN is not consulted
  pc = "Wait" /\ Up /\ pc' = "Poll"
  /\ UNCHANGED <<ret, down, life, flags, link, procs>>

\* wait_for_session: look at TEARDOWN, then poll the session, then sleep.
WaitChecks ==
  /\ pc = "Wait" /\ Up
  /\ IF teardown THEN pc' = "Scan" /\ ret' = "Exit"
                 ELSE pc' = "Poll" /\ ret' = ret
  /\ UNCHANGED <<down, life, flags, link, procs>>

PollRunning ==
  /\ pc = "Poll" /\ Up
  /\ sess # "none"
  /\ pc' = "Wait"
  /\ UNCHANGED <<ret, down, life, flags, link, procs>>

PollGivesUp ==  \* mutant of PollEnded: a live session is taken for ended
  pc = "Poll" /\ Up /\ conn' = "none" /\ authed' = FALSE /\ LeaveVia("Account")
  /\ UNCHANGED <<down, life, flags, backlog, ui, procs>>

PollEnded ==
  /\ pc = "Poll" /\ Up
  /\ sess = "none"
  /\ conn' = "none" /\ authed' = FALSE
  /\ LeaveVia("Account")
  /\ UNCHANGED <<down, life, flags, backlog, ui, procs>>

ExitAfterTeardown ==
  /\ pc = "Exit" /\ Up
  /\ Die("teardown")
  /\ UNCHANGED procs

QuickUncounted ==  \* mutant: back off, for ever
  /\ pc = "Account" /\ Up
  /\ young
  /\ pc' = "Backoff"
  /\ UNCHANGED <<ret, down, life, flags, link, procs>>

\* The crash-loop guard at the bottom of the loop: the second place that
\* counts, and gives up.
AccountQuick ==
  /\ pc = "Account" /\ Up
  /\ young
  /\ IF rapid + 1 >= MaxRapidFailures
       THEN Die("gaveup")
       ELSE /\ rapid' = rapid + 1
            /\ pc' = "Backoff"
            /\ UNCHANGED <<ret, down, life, greeting, teardown>>
            /\ UNCHANGED <<young, tries, hook, link>>
  /\ UNCHANGED procs

AccountLong ==
  /\ pc = "Account" /\ Up
  /\ ~young
  /\ rapid' = 0 /\ tries' = 0
  /\ pc' = "Top"
  /\ UNCHANGED <<ret, down, life, greeting, teardown, young, hook>>
  /\ UNCHANGED <<link, procs>>

-----------------------------------------------------------------------------
(***************************************************************************)
(* Signals, crashes and time.                                              *)
(***************************************************************************)

\* SIGTERM or SIGINT.  Before the handler is installed it just kills; then
\* handle_teardown runs, atomically with respect to the interrupted main
\* thread: at the greeter it dies, else it only sets the flag.
StopSignal ==
  /\ Up
  /\ IF pc = "Boot" \/ greeting
       THEN Die("signal")
       ELSE /\ teardown' = TRUE
            /\ UNCHANGED <<pc, ret, down, life, greeting, streak, hook, link>>
  /\ UNCHANGED procs

\* A panic of the main thread: the hook frees the seat, then doord dies.
Panic ==
  /\ Up /\ pc \notin {"Boot", "Scan", "Grace", "Settle", "Abort"}
  /\ pc' = "Scan" /\ ret' = "Abort"
  /\ UNCHANGED <<down, life, flags, link, procs>>

AbortAfterPanic ==
  /\ pc = "Abort" /\ Up
  /\ Die("panicked")
  /\ UNCHANGED procs

\* Killed outright (SIGKILL, OOM): no handler runs.
Killed ==
  /\ Up
  /\ Die("killed")
  /\ UNCHANGED procs

\* Restart=on-failure: a new process, with fresh statics and a fresh socket
\* (at most MaxLives starts, the model's bound), that knows nothing of the
\* greeter and the session of the life before.
Restart ==
  /\ down \in {"panicked", "killed"} /\ life < MaxLives
  /\ life' = life + 1 /\ down' = "no" /\ ui' = "none"
  /\ UNCHANGED <<pc, ret, flags, backlog, conn, authed>>
  /\ gw' = "none" /\ cage' = "none" /\ sess' = "none" /\ comp' = "none"
  /\ \/ comp = "none" /\ Leave(IF gw = "starting" THEN "boot" ELSE cage)
     \/ cage = "none" /\ gw # "starting" /\ Leave(comp)

\* GREETER_MIN_UPTIME passes since the greeter was launched.
GreeterAges ==
  /\ Up /\ young
  /\ pc \notin {"Backoff", "Top", "Scan", "Grace", "Settle", "Launch"}
  /\ young' = FALSE
  /\ UNCHANGED <<pc, ret, down, life, greeting, teardown, rapid, tries, hook>>
  /\ UNCHANGED <<link, procs>>

-----------------------------------------------------------------------------
(***************************************************************************)
(* The processes doord spawned, which outlive it.                          *)
(***************************************************************************)

\* The greeter worker (worker.rs, launch_greeter): PAM session, fork of the
\* compositor, then the terminate forwarder.
WorkerForksCage ==
  /\ gw = "starting"
  /\ gw' = "forked" /\ cage' = "boot"
  /\ UNCHANGED <<doord, link, sess, comp, past>>

WorkerFails ==
  /\ gw = "starting"
  /\ gw' = "none"
  /\ UNCHANGED <<doord, link, cage, sess, comp, past>>

WorkerArmsForwarder ==
  /\ gw = "forked"
  /\ gw' = "running"
  /\ UNCHANGED <<doord, link, cage, sess, comp, past>>

\* child.wait() returned: close the logind session and exit (control EOF).
WorkerExits ==
  /\ gw = "running" /\ cage = "none"
  /\ gw' = "none"
  /\ UNCHANGED <<doord, link, cage, sess, comp, past>>

\* A worker is gone that did not wait for its compositor: the compositor is
\* sent the parent-death SIGKILL.  One that has not got the card yet just goes.
Orphaned(p) == IF HoldsCard(p) THEN "killed" ELSE "none"
WorkerDies ==
  /\ gw = "killed"
  /\ gw' = "none" /\ cage' = Orphaned(cage)
  /\ UNCHANGED <<doord, link, sess, comp, past>>

\* The compositor takes the card, which only one process can be master of.
CageUp ==
  /\ cage = "boot" /\ ~CardHeld
  /\ cage' = "up"
  /\ UNCHANGED <<doord, link, gw, sess, comp, past>>

\* It exits: told to, killed, crashed, or could not take the card.  Its UI, a
\* client of this compositor, dies with it and its connection reads EOF.
CageExits ==
  /\ cage # "none"
  /\ cage' = "none"
  /\ ui' = IF ui = "open" THEN "closed" ELSE ui
  /\ backlog' = Stale(backlog)
  /\ UNCHANGED <<doord, conn, authed, gw, sess, comp, past>>

\* The UI connects, once per greeter process.
UiConnects ==
  /\ Up /\ cage = "up" /\ ui = "none"
  /\ Len(backlog) < MaxBacklog
  /\ ui' = "open"
  /\ backlog' = Append(backlog, "greeter")
  /\ UNCHANGED <<doord, conn, authed, procs>>

UiQuits ==
  /\ ui = "open"
  /\ ui' = "closed"
  /\ backlog' = Stale(backlog)
  /\ UNCHANGED <<doord, conn, authed, procs>>

\* Some other local process that may open the socket connects.
ForeignConnects ==
  /\ Up /\ pc # "Boot" /\ Len(backlog) < MaxBacklog
  /\ backlog' = Append(backlog, "foreign")
  /\ UNCHANGED <<doord, conn, authed, ui, procs>>

\* The session's compositor takes the card, and exits.
CompositorUp ==
  /\ comp = "boot" /\ ~CardHeld
  /\ comp' = "up"
  /\ UNCHANGED <<doord, link, gw, cage, sess, past>>

CompositorExits ==
  /\ comp # "none"
  /\ comp' = "none"
  /\ UNCHANGED <<doord, link, gw, cage, sess, past>>

\* The session leader exits; a running compositor may outlive it, and so may
\* a process that inherited the worker's control fd, which is not close-on-exec
\* (nobody reads the other end of a session adrift).
SessionEnds ==
  /\ sess \in {"running", "adrift"}
  /\ \/ sess' = "none"
     \/ sess = "running" /\ sess' = "lingering"
  /\ comp' = IF comp = "boot" THEN "none" ELSE comp
  /\ UNCHANGED <<doord, link, gw, cage, past>>

LingererExits ==
  /\ sess = "lingering"
  /\ sess' = "none"
  /\ UNCHANGED <<doord, link, gw, cage, comp, past>>

\* The compositor the daemon lost sight of does the same; if it was a greeter's,
\* its worker may die before it.
PastUp ==
  /\ past = "boot" /\ ~CardHeld
  /\ past' = "up"
  /\ UNCHANGED <<doord, link, gw, cage, sess, comp>>

PastOrphaned ==
  /\ past # "none"
  /\ past' = Orphaned(past)
  /\ UNCHANGED <<doord, link, gw, cage, sess, comp>>

PastExits ==
  /\ past # "none"
  /\ past' = "none"
  /\ UNCHANGED <<doord, link, gw, cage, sess, comp>>

-----------------------------------------------------------------------------
DoordStep ==
  \/ EnterLoop \/ LoopTop \/ ScanSeat \/ KillStragglers \/ SettleEnds
  \/ LaunchFails \/ LaunchGreeter \/ EndBackoff
  \/ AcceptConnection \/ NoticeDeadGreeter
  \/ ServeEof
  \/ Terminate \/ TermSeesEof \/ TermEscalates \/ TermGivesUp
  \/ LeaveGreeting \/ StartSession \/ StartLosesSession \/ StartFails
  \/ WaitChecks \/ PollRunning \/ PollEnded \/ ExitAfterTeardown
  \/ AccountQuick \/ AccountLong \/ AbortAfterPanic

ProcessStep ==
  \/ WorkerForksCage \/ WorkerFails \/ WorkerArmsForwarder
  \/ WorkerExits \/ WorkerDies \/ CageUp \/ CageExits
  \/ CompositorUp \/ CompositorExits \/ SessionEnds \/ LingererExits
  \/ PastUp \/ PastOrphaned \/ PastExits
  \/ UiConnects \/ UiQuits \/ ForeignConnects

Next ==
  \/ DoordStep
  \/ AcceptFails \/ ServeDrops \/ Authenticate \/ RequestStart
  \/ StopSignal \/ Panic \/ Killed \/ Restart \/ GreeterAges
  \/ HookScans \/ HookKills
  \/ ProcessStep

Spec == Init /\ [][Next]_vars

(***************************************************************************)
(* Fairness: the daemon's thread keeps running, and a SIGKILL takes effect *)
(* in the end on a compositor that outlived its session, or the daemon's   *)
(* sight.  Greeters, sessions, users, compositors that were only asked,    *)
(* administrators, systemd and clocks owe nothing.                         *)
(***************************************************************************)
Fairness ==
  /\ WF_vars(DoordStep)
  /\ WF_vars(comp = "killed" /\ CompositorExits)
  /\ WF_vars(past = "killed" /\ PastExits)

FairSpec == Spec /\ Fairness

-----------------------------------------------------------------------------
(***************************************************************************)
(* Safety.                                                                 *)
(***************************************************************************)
Settled == pc \in {"Accept", "Serve", "Wait", "Poll"}
Freeing == pc \in {"Scan", "Grace", "Settle"}
Squatted == HoldsCard(comp) \/ HoldsCard(past)
Asked == "term" \in {cage, comp, past}

\* From the moment the daemon asks for the session (run_start, login.start)
\* until that session is over, its greeter has ended or is doomed: the worker
\* is gone and its compositor with it, gone or under SIGKILL; or the worker is
\* under SIGKILL itself.  (terminate()'s doc says more, that the greeter has
\* exited; the second wait of ipc.rs:832 does not see to that.)
GreeterDoomedAtHandoff ==
  pc \in {"Start", "Wait", "Poll"} =>
    \/ gw = "killed"
    \/ gw = "none" /\ cage \in {"none", "killed"}

\* The signal handler lets the process die at once exactly when the daemon
\* watches no session: GREETING is never seen true beside one.  (A session
\* whose handle was lost at its start, "adrift", runs beside it.)
GreetingExcludesSession ==
  greeting => sess \notin {"running", "lingering"}

\* In one life, the daemon never attempts more than GREETER_MAX_RAPID_FAILURES
\* greeters of which none lasted: both places that see a greeter fail count it.
AttemptsBounded ==
  tries <= MaxRapidFailures

\* free_seat never returns past a process it only asked: whatever still has the
\* card then is under SIGKILL, or took it after the last scan that kills.  (In
\* the two seconds of the panic hook's own round another thread asks, too.)
FreeSeatInsists ==
  [][Freeing /\ pc' = ret /\ ~hook => ~Asked']_vars

\* doord tells the compositor of a session it watches and whose leader runs to
\* exit only after a stop was requested, or in a panic of one of its threads.
LiveSessionSpared ==
  [][sess = "running" /\ comp = "up" /\ comp' = "term"
       => teardown \/ ret = "Abort" \/ hook' # hook]_vars

-----------------------------------------------------------------------------
(***************************************************************************)
(* Liveness, under FairSpec.                                               *)
(***************************************************************************)

\* Whatever a compositor does with SIGTERM, the daemon always gets back to
\* waiting for a greeter, a request or a session, or it ends.
LoginScreenReturns ==
  (Up /\ ~Settled) ~> (~Up \/ Settled)

\* A greeter that dies before connecting never leaves the daemon in accept().
DeadGreeterNoticed ==
  (Up /\ pc = "Accept" /\ gw = "none") ~> (~Up \/ pc # "Accept")

\* If greeters stop lasting, the daemon stops relaunching them: it settles or
\* ends, and never cycles through quick failures for ever.
NoThrashing ==
  <>[](~(pc = "Account" /\ ~young)) => <>[](~Up \/ Settled)

\* A stop requested while the daemon waits on a session takes effect, unless
\* the session ends first.
StopDuringSession ==
  (Up /\ teardown /\ pc \in {"Wait", "Poll"}) ~> (~Up \/ sess = "none")

\* A session's compositor that holds the card when the daemon means to free the
\* seat does lose it, whether or not it heeds SIGTERM and whoever else dies in
\* between, or the daemon goes down over it.
SquatterEvicted ==
  (Up /\ pc = "Scan" /\ Squatted) ~> (~Up \/ ~Squatted)

-----------------------------------------------------------------------------
(***************************************************************************)
(* What the comments of ipc.rs promise and the code does not keep.         *)
(***************************************************************************)

\* ipc.rs:212-215: with GREETING down, "the session-wait loop sees the flag"
\* and the stop is honoured.
StopHonoured ==
  (Up /\ teardown) ~> ~Up

\* spawn.rs:60-62: the worker closes the control fd when it exits "so the
\* daemon reads session-end as EOF here".
SessionEndNoticed ==
  (Up /\ pc \in {"Wait", "Poll"} /\ sess # "running")
    ~> (~Up \/ pc \notin {"Wait", "Poll"})

-----------------------------------------------------------------------------
(***************************************************************************)
(* The abstract promise: one owner of the seat at a time, and no handover   *)
(* that skips the point where nobody owns it.  Owner is whom the daemon     *)
(* grants the seat to: a session it watches, a worker not under SIGKILL.    *)
(***************************************************************************)
SeatOwnerOf ==
  IF sess \in {"running", "lingering"} THEN "session"
  ELSE IF gw \in {"starting", "forked", "running"} THEN "greeter"
  ELSE "nobody"

Seat == INSTANCE SeatOwner WITH owner <- SeatOwnerOf

\* The loop grants the seat as SeatOwner says.
GrantsSeatProperly == Seat!Spec
=============================================================================
