# door: a TLA+ development

door is a display manager in Rust. `doord`, the privileged daemon, runs a
greeter on the seat, authenticates a user through PAM on the greeter's behalf,
hands the seat to the user's session and takes it back when the session ends.
`door-greeter` and `door-lock` are unprivileged GUI programs that talk to it over
local sockets; `door-settings` edits the theme both of them draw.

This directory holds TLA+ modules translated from that source, TLC
configurations that check them on small instances, and TLAPS proofs of the
properties that matter most for every value of the constants. Paths below are
relative to the repository (`doord/src/ipc.rs` and so on).

Contents

1. The system: components, state, operations, hard parts, what makes them correct
2. The modules and how they correspond to the code
3. What each run checks and shows; bounds; fairness
4. What is proved, from what, and how
5. Findings
6. What is abstracted or not modelled
7. Plan

---------------------------------------------------------------------------

## 1. The system

### 1.1 Processes and how they interact

```
 systemd --starts--> doord (root) --fork--> spawner (root, unconfined)
                       |  ^   \                 |
        greeter socket |  |    \ control fds    | clone of a worker
                       v  |     \               v
             door-greeter       +------> greeter worker  --fork--> cage + UI
             (UI thread +       +------> session worker  --fork--> session
              client thread)                (PAM)
                       reauth socket
             door-lock <------> reauth thread of doord --> reauth worker (PAM)
```

- The **login loop** is doord's main thread. It forks work off to a
  pre-forked, unconfined **spawner**, which starts **workers**; a worker is
  connected to doord by one *control socket*, whose end-of-file is doord's only
  news of the worker's death.
- A **greeter worker** opens a PAM session for the greeter user and runs the
  compositor (`cage`) with the greeter UI inside. A **session worker** holds one
  connection's PAM transaction, and later leads the user's session. A **reauth
  worker** checks one password for the lock screen.
- All connections carry length-prefixed frames of the wire protocol
  (`protocol`). One greeter connection is served at a time.
- Signals reach doord at any instruction (`handle_teardown`); crashes restart it
  through systemd (`Restart=on-failure`).

### 1.2 Inventory

| component | source | state | operations | hard behaviour | what makes it correct |
|---|---|---|---|---|---|
| login loop and seat handoff | `doord/src/ipc.rs`, `spawn.rs` | `GREETING`, `TEARDOWN`, `rapid_failures`, `greeted_at`, the greeter and session handles, the VT | `serve`, `free_seat`, `accept_with_greeter_watch`, `terminate`, `run_start`, `wait_for_session`, `handle_teardown`, the panic hook | a signal at any instruction; a crash with compositors on the card; a worker that dies, hangs or is replaced; escalation after a grace | the seat is never granted twice; whoever squats on the card is made to leave; a watched session is spared; a stop and a lost greeter are noticed; failures are counted and bounded |
| greeter connection and login seam | `doord/src/ipc.rs` (connection loop), `pam.rs`, `worker.rs` | the frame stream, `username`, the control socket, `AuthedSession`, the conversation's latched fault | handshake, `BeginAuth`, prompt and reply relay, cancel, `Start`, open/close session, launch | a peer that sends anything at any time; PAM outcomes against transport faults; a death of either end between two steps | only a proven user's session runs, as that user; the ends never wait for each other; workers are reaped; PAM sessions are closed |
| spawner | `doord/src/spawner.rs`, `fdpass.rs` | one request stream, the children | `fork_spawner`, `run_spawner`, `reap_exited`, `request`, `recv_fd` | an answer that is lost or late on a shared stream; a child that exits between `reap_exited` and `poll` | an answer goes to the request it belongs to; children are reaped; the spawner ends with doord |
| reauthentication service | `doord/src/reauth.rs` | a sequential listener, one worker per attempt | `serve_reauth`, `handle_reauth_connection`, `reauthenticate` | serving is sequential; a worker that dies mid-conversation | fail closed: success only for PAM success for the peer's own uid; the service stays available |
| greeter UI | `door-greeter/src/app.rs`, `client.rs`, `main.rs` | the UI mode, the selected user and session, the prompt, two channels | `update`, `send`, `worker_loop`, `run_conversation` | the UI and its client thread disagree about the conversation | every submit is answered; no command is swallowed; no frozen spinner |
| lock screen | `door-lock/src/*.rs` | as the greeter UI, and the session lock | `update`, `send`, `worker_loop`, `run_conversation`, unlock | a lost channel or daemon while locked | unlocks only on a success verdict; always usable again after a failure |
| wire protocol | `protocol/src/*.rs` | none | framing, length limit, version | partial reads, oversized frames | decode inverts encode; a bad length never blocks or allocates |
| session discovery | `doord/src/sessions.rs` | none | `discover`, `parse_entry`, `tokenize_exec` | precedence and shadowing of directories; quoting | an id names one entry, found again at `Start`; Exec is tokenized to the spec |
| privilege drop, users, config | `doord/src/privdrop.rs`, `user.rs`, `config.rs` | process credentials | `resolve`, `drop`, `Config::load` | order of setgroups/setgid/setuid | no root credential survives; a half-dropped process never execs |
| hardening and startup order | `doord/src/hardening.rs`, `main.rs`, `spawn.rs` | inherited process attributes | the startup sequence, a worker's launch | what a fork inherits depends on when it happens | doord is confined, sessions are not |
| theme resolution | `door-theme/src/lib.rs` | none | parse, `merged`, `load_pair`, `render_pair`, `load_at`, the window, scenes and seasons | 193 keys listed by hand in seven places; partial files over defaults | what is written parses back to the same theme, at every time of day and of year |
| sky, clock, shader rendering | `door-greeter`, `door-lock`, `door-theme` | pixels | drawing | numeric only | not a subject for a model checker |
| host facts and asset vetting | `door-theme/src/host.rs` | none | `vet_asset`, `/sys` reads | file ownership and modes | an asset is used only if vetted |
| theme studio | `door-settings/src/main.rs` | the draft, the variant being edited, the preview, the files | `update`, `apply_pair`, `rebuild_preview`, `write_draft`, presets, export, import | the preview is rebuilt unless a hand-kept list says otherwise; a preset is loaded over any draft | what is shown is the draft; what the greeter draws is what was shown; a preset restores what was saved |
| packaging and units | `dist/systemd`, `dist/pam.d`, `dist/sysusers.d` | none | systemd restart | restart policy and exit codes | a failure restarts doord, a stop does not |

`PROJECT.json` lists for each component the modules that cover it and whether
all of its state-changing operations are actions, and the *hazards*: the places
where the code is hard to test, each with the properties that watch it. A hazard
without a property says why there is none: the step is in a module but no
document promises anything about it (section 5), or it is left out (section 6).

---------------------------------------------------------------------------

## 2. The modules

| module | what it is |
|---|---|
| `LoginLoop` | the login loop, the processes it contends with, signals, crashes, restarts |
| `SeatOwner` | abstract: one owner of the seat at a time, never handed straight on |
| `MCLoginLoop`, `LoginLoopProofs` | its instance for TLC, and the theorems about it |
| `LoginSeam` | one greeter connection: connection loop, control socket, session worker |
| `LoginGate` | abstract: nothing runs until a user is bound, and it runs as that user |
| `MCLoginSeam`, `LoginSeamProofs` | its instance, and the theorems about it |
| `GreeterUI` | door-greeter's two threads on the other end of that connection |
| `MCGreeterUI`, `GreeterUIProofs` | its instance, and the theorems about it |
| `Spawner` | the stream of requests and answers to a spawner, and its children |
| `MCSpawner`, `SpawnerProofs` | its instance, and the theorems about it |
| `Startup` | `main()` step by step, what each process inherits, a program's launch |
| `MCStartup`, `StartupProofs` | its instance, and the theorems about it |
| `Sessions` | session discovery beside changes on disk |
| `MCSessions`, `SessionsProofs` | its instance, and the theorems about it |
| `Reauth` | the reauthentication service and its worker, against arbitrary peers |
| `LockScreen` | door-lock's two threads, in the place of one of `Reauth`'s peers |
| `LockGate` | abstract: a lock opens only on a proof, and one proof opens it once |
| `MCLockScreen`, `LockScreenProofs` | their instance; the theorems about `Reauth`, whatever its peers do, and those about the lock screen as one of them |
| `ThemeKeys` | the keys of a theme, as each list of them in the code has them |
| `StudioPanel` | the controls of the studio's panel by the key they edit, the scenes |
| `ThemeStudio` | the studio, the files, and the theme the greeter makes of them |
| `MCThemeStudio`, `ThemeStudioProofs` | its instance, and the theorems about it and about the lists of keys |

How they meet:

- `LoginLoop` sees a connection as one state, `Serve`, that may authenticate and
  may request a start; `LoginSeam` opens that state up, against any peer.
  `Authenticate`, `RequestStart`, and `StartSession`, `StartLosesSession` or `StartFails`
  of `LoginLoop` are the externally visible steps of `Verdict`, `RunStart` and
  `StartAnswered` of `LoginSeam`.
- `GreeterUI` is the same connection from the other end: there the peer is the
  greeter, and the daemon is what such a peer sees of it.
- `LockScreen` is composed with `Reauth` in one module: it EXTENDS it and takes the
  place of some of its arbitrary peers.
- The launches of `LoginLoop`, and the workers of `LoginSeam` and `Reauth`, are started
  over the stream that `Spawner` models, by processes whose inheritance `Startup` models.
- `ThemeStudio` uses the lists of `ThemeKeys` and the controls of `StudioPanel`.

### 2.1 LoginLoop

State, and where it lives in the code:

| variable | code |
|---|---|
| `pc`, `ret` | the main thread's place in `serve`; `free_seat` and `terminate` are each called from several places, and `ret` is where they return to |
| `greeting`, `teardown` | the atomics `GREETING`, `TEARDOWN` |
| `rapid`, `young` | `rapid_failures`; whether `greeted_at.elapsed()` is still below `GREETER_MIN_UPTIME` |
| `tries` | history: the greeters attempted in this life since one lasted |
| `hook` | a panic of the reauthentication thread is freeing the seat (`install_panic_hook`) |
| `backlog`, `conn`, `authed` | the listening socket's queue, the accepted stream, `login.user().is_some()` |
| `ui`, `gw`, `cage` | per greeter: its UI's connection, its worker, its compositor |
| `sess`, `comp` | the session and its compositor's process group |
| `past` | a compositor whose greeter or session the daemon lost sight of |
| `down`, `life` | how this life of the daemon ended, and which one it is |

A program point is kept wherever another process can step in between, so a
signal handler, a crash or a compositor may act between any two daemon steps.
`StopSignal` is the whole handler and runs atomically with respect to the interrupted
thread, as a signal handler does; before it is installed (`Boot`) a signal just kills.

A signal to a process is one step and what it does is another. A compositor that was sent
SIGTERM (`"term"`) may ignore it; a worker or compositor that was sent SIGKILL
(`"killed"`) is still there, and still holds the card, until it has died
(`WorkerDies`, `CageExits`, `CompositorExits`, `PastExits`). So no step of the daemon
makes a process go away:

- `free_seat` is `ScanSeat` (SIGTERM), `KillStragglers` (SIGKILL) and `SettleEnds`: its third
  scan only warns, and it returns with the card held or not;
- `GreeterHandle::terminate` is `Terminate`, then `TermSeesEof`, or `TermEscalates` to SIGKILL
  and a second wait, which ends in `TermSeesEof` or in `TermGivesUp`, the ignored result of
  `ipc.rs:832`;
- a worker that dies without having waited for its compositor leaves it a parent-death
  SIGKILL (`Orphaned`).

`login.start` has three outcomes. In the second, `StartLosesSession`, the worker reported
`Started` and the control socket could not be cloned or made non-blocking (`pam.rs:295-302`):
the session is `"adrift"`, it runs and the loop, which has an error in hand, goes on to greet.

The two places that count a quick failure are apart, as in the code: `LaunchFails`
(`ipc.rs:482`) and `AccountQuick` (529). `HookScans` and `HookKills` are the `free_seat` of a
panicking reauthentication thread, beside a main thread that goes on.

Every compositor leads a process group of its own (`setsid` in `session_setup`), so the
groups that `signal_group` refuses, doord's own and those below 2, are never a
holder's.

### 2.2 LoginSeam

| variable | code |
|---|---|
| `inbox`, `peer` | bytes the peer sent and did not send; its end of the stream |
| `d`, `asking`, `user` | the connection loop's place, the user in the running `BeginAuth`, `WorkerLogin::username` |
| `down`, `up` | the control socket's two directions |
| `w` | the worker: idle, inside PAM, blocked in `ask`, leading a session, returned, killed |
| `conv`, `heard`, `prompts`, `fault` | the conversation inside PAM and `ControlConversation::fault` |
| `authed`, `token`, `leaked`, `running` | `AuthedSession`, its open session, a session whose token was overwritten, the user whose process runs |
| `proven` | history: users PAM accepted in an unbroken conversation that heard their secret |

The peer is *any* program that may open the socket: it may send every frame at
every moment, pipeline them and hang up. PAM is external: it may prompt any
number of times (up to `MaxPrompts`), may refuse at any time, and accepts only
if it heard the user's own secret. That is the one assumption made of it, and
the properties need it: it is what "authenticated" means. A frame's secret is
the name of the user it belongs to, since only equality of the two matters.

`managed` is chosen in the initial state, so both the shipped mode (doord owns the
greeter and tears it down before the session) and the development mode (the
greeter is somebody else's, and the connection goes on after a failed start)
are covered by each run.

### 2.3 Reauth and LockScreen

`Reauth` models the listener thread as the sequential server it is: one
connection is served while the others queue in the kernel, and each of them is a
*slot* that can be used again once both of its ends are closed.

| variable | code |
|---|---|
| `link`, `backlog`, `open` | the service's end of a connection, the listen queue, the peer's end |
| `inbox`, `outbox` | frames unread by the service; unread by the peer, at most `Capacity` of them |
| `s` | where `serve_reauth`, `handle_reauth_connection` or `reauthenticate` is |
| `down`, `up`, `w`, `messages`, `heard`, `fault` | the attempt's worker and its conversation, as in `LoginSeam` |
| `proven` | history: connections whose last attempt PAM accepted, having heard the secret of that connection's user |

The identity of a connection is its `Owner`, a constant of the slot, as
`SO_PEERCRED` fixes it for the connection's life; `Unknown` is a uid without a
passwd entry. The read timeouts (358, 366, 389) are the disjunct `Silent` of `GivesUp`: whenever
the service reads and nothing is there, the read may fail. A write has no timeout: `Answer`
waits until the socket's buffer has room (`HasRoom`), which takes the peer to read or to hang up. A worker whose attempt
is over is not followed further: its control socket is closed and it can do no
more than exit.

`LockScreen` EXTENDS `Reauth` and adds the locker. Its thread uses the same peer
operators (`Connect`, `Send`, `Receive`, `HangUp`) as the arbitrary peers do, on
its own slots.

| variable | code |
|---|---|
| `phase`, `ready`, `field`, `prompt`, `cue` | `State::phase`, `cmd_tx`, `password`, `prompt`, `cue` |
| `commands`, `inbound` | the mpsc channel to the worker thread; the stream of messages to `update` |
| `th`, `lc` | where `worker_loop`, `Client::connect` or `run_conversation` is; its connection |
| `locked` | the compositor's session lock |
| `proof` | history: the success under way to the lock came from a proven connection |

Each arm of `update` that changes the unlock flow is an action; what the user can
do follows from what `view` shows (`FormShown`): the prompt's field replaces the
form, so does a cue, and the form's button is inert while busy but its
field is not. `LockerStarts` is a locker that is killed and started again, or a
session that is locked anew.

### 2.4 GreeterUI

| variable | code |
|---|---|
| `up` | the greeter's process |
| `phase`, `ready`, `selected`, `typed`, `prompt`, `cue` | `State::phase`, `cmd_tx`, `selected`, whether `password` is empty, `prompt`, `cue` |
| `commands`, `inbound` | the mpsc channel to the worker thread; the bounded channel of messages to `update` |
| `handed` | the subscription has sent `WorkerReady`; it races the thread's own first messages |
| `th` | where `worker_loop`, `Client` or `run_conversation` is; five of its places block on the daemon |
| `rq`, `rs` | requests and responses on the socket |
| `dm`, `managed`, `user`, `fault` | the daemon as this peer sees it: the place in its connection loop, who owns the greeter, `WorkerLogin::username`, the latched cancel |

`UiStep` is `update`, one message at a time; `UserStep` is what `view` offers
(`FormShown`); `ThreadStep` is the worker thread, a step per blocking call, so that a
command can be queued, a message emitted or the channel fill up between any
two. `DropConversation` is the arm of `run_conversation` for anything but a reply
(`app.rs:1042`): the thread goes back to its loop, the daemon is left in the prompt.
`ReadReply` is what the daemon makes of the next frame then.

PAM (`AskUser`, `Notify`, `Concludes`) may ask, tell and conclude whenever it is at
work.

### 2.5 Spawner

| variable | code |
|---|---|
| `role` | the spawner of the logins or of the reauthentications |
| `asked`, `rq`, `rs` | the requests so far, those unread, the answers unread |
| `dm`, `got` | `Spawner::request` in the daemon: idle, reading the tag or the descriptor; what each request was answered with |
| `sp`, `due` | the spawner's place in `run_spawner` and the request it serves |
| `kid` | each worker: not there, live, zombie, reaped |
| `slips` | reads of a descriptor that a signal has cut short |

Neither requests nor answers carry a number. An answer is a tag with the pid, then
the byte that carries the descriptor: two writes (`WriteHeader`, `SendFd`) and two reads
(`ReadTag`, `RecvFd`). A cut read (`RecvInterrupted`) leaves its descriptor on the
stream. It can only happen to reauthentications: a login's request is made while
`GREETING` is set, when the signal's handler ends the daemon instead. `WorkerEnds`
interrupts a `poll` under way and is spent anywhere else, which is the race between
`reap_exited` and `poll`.

### 2.6 Startup

| variable | code |
|---|---|
| `env` | the unit's variables that matter: spawner, sandbox, filter mode, ruleset mode, VT |
| `step` | how far `main()` is along `Order` |
| `up`, `marks` | each process or thread (main, listener, two spawners, three kinds of worker): whether it runs, and the filter and ruleset it runs under |
| `broke` | the parts of the sandbox that could not be installed |
| `freed`, `open` | the listener thread was released; the threads whose socket can be connected to |
| `launch` | for each worker that leads a program: how far its child is along `Setup`, whether its groups were set, its gid, its uid, its terminal, its parent-death signal |

Every fork, every part of the sandbox and every bind may fail, doord may die between
any two steps, a spawner or a worker at any time. Users and groups are separate sets: a user may
have any primary group, root's among them. `SetGroups`, `SetGid` and `SetUid` may each report
success without having taken effect. `VerifyDropped` looks at what `verify_dropped`
looks at, that uid and gid are the target's and the uid is not 0; at the supplementary
groups nobody looks. A change of ids disarms the parent-death signal, as the kernel does.

### 2.7 Sessions

`disk` is the entry of each id in each directory, in the order of `Dirs` (both kinds of a
root, then the next root); `Scan` reads one directory, so `Change` may happen between any
two. A scan answers a `ListSessions` or a `Start` (`want`), and `Launch` takes the first
session of the id. An entry is unfit, as packaged, or changed: what makes it unfit
(`Hidden`, no `Name`, an `Exec` that cannot be run) is one attribute. `steady` and `stale`
are history.

### 2.8 ThemeKeys, StudioPanel, ThemeStudio

`ThemeKeys` holds the lists of keys that the code keeps by hand, each transcribed from one
place and none defined through another: the file's struct, the four overlays, the two
writers, and the studio's `from_theme`, `new`, `apply_pair` and `build`. `StudioPanel` has the controls
of each tab by the key they change, and the scenes with their dials.

| variable | code |
|---|---|
| `draft` | the two palettes, the settings both share, the day window |
| `day`, `preview` | `State::editing_day`, `State::preview` |
| `files` | the installed theme, the user's preset, an exported file |
| `saved` | history: the draft that was written to each |

A theme is sparse: the pairs of a key and a value in which it differs from the built-in
theme. A value is a setting (`own`), text that is none (`text`), a number that Rust
prints in a form TOML does not have (`huge`), or free text that does the same (`odd`: `{:?}`
writes a no-break space or a joiner as `\u{..}`). `Printed` is what writing makes of a value, and a
file with one that is `broken` does not parse. `Settings` is what a file may hold, of a known key or not,
readable or not; `Drafts` is what the studio may: each pair in the part of the draft
that is kept for its key. `LoadAt` is `Theme::load_at`, what the
greeter and the lock screen show at a time of day in a month.

### 2.9 The abstract specifications

`SeatOwner` has one variable, the owner of the seat, and three steps: greet, log
in, release. `LoginLoop` implements it with `owner` the one to whom this life of the daemon has
granted the seat: a session it watches, or a greeter's worker that is not under SIGKILL. What the refinement excludes is a handoff that starts a
session while the greeter's worker runs, on any path through `terminate()`, and
a greeter started beside a session.

`LoginGate` has two variables: the bound user and the user whose session runs.
`LoginSeam` implements it with `bound <- user`, the daemon's own belief; so a
session can only be launched in a state where the *daemon* has that user bound,
although it is the worker that launches it, from its own state.

`LockGate` has the lock and a proof. `LockScreen` implements it with the proof
read off the connection that the locker's thread holds, and then off the message
on its way to `update`. What the refinement excludes is an opening on a success
from an aborted attempt, an earlier life of the locker or a daemon that has gone.

---------------------------------------------------------------------------

## 3. The runs

| run | module, cfg | distinct states | question |
|---|---|---|---|
| `login_loop` | `MCLoginLoop.cfg` | 0.58 M | is the seat handed over safely whatever greeters, sessions, connections, signals and crashes do, and does the loop always come back, or stop? |
| `login_seam` | `MCLoginSeam.cfg` | 1.08 M | can any peer, prompt sequence or death make the daemon and the worker disagree, hang, or run something unproven? |
| `greeter_ui` | `MCGreeterUI.cfg` | 0.10 M | do the greeter's threads and the daemon keep step, whatever the user presses and whenever the connection ends? |
| `spawner` | `MCSpawner.cfg` | 0.08 M | does every request get its own answer, and every worker its reaping? |
| `startup` | `MCStartup.cfg` | 4.64 M | who is confined by what, and as whom does a program run, under every environment and failure? |
| `sessions` | `MCSessions.cfg` | 0.88 M | is what is installed found, and what was offered started, while the disk changes? |
| `lock_screen` | `MCLockScreen.cfg` | 1.73 M | does the lock open only when PAM has accepted the locked user's secret, whatever peers, users and crashes do? |
| `lock_screen_live` | `MCLockScreenLive.cfg` | 0.42 M | does every attempt come back to the user, and does the service get rid of a stalled peer? |
| `theme_studio` | `MCThemeStudio.cfg` | 1.29 M | is what the studio shows what it saves, and what the greeter draws? |
| `stop_lost`, `session_end_missed`, `greeter_attempt_dropped` | `LoginLoopStopHonoured.cfg`, `LoginLoopSessionEnd.cfg`, `GreeterUIInFlight.cfg` | | three sentences of the source's comments that the code does not keep (section 5) |

### Properties

*login_loop*

- `GreeterDoomedAtHandoff`: from the request for the session to its end, this life's
  greeter has ended or is doomed: its worker is gone and the compositor gone or under
  SIGKILL, or the worker is under SIGKILL itself. No path through `terminate()` hands
  over from a greeter that was only asked. That they have *exited*, as the comment of
  `terminate()` says, does not hold (finding B).
- `GreetingExcludesSession`: the handler lets doord die only when `GREETING`; it is
  never true beside a session that the daemon watches. A session whose handle was
  lost at its start runs beside it (finding O).
- `AttemptsBounded`: in one life no more greeters are attempted since one lasted than
  the limit allows. It counts attempts, not failures: it breaks if one of the two places
  that count forgets to, or resets too early.
- `FreeSeatInsists`: `free_seat` returns past no process that it only asked to leave:
  what still has the card then is under SIGKILL, or took it after the last scan that kills.
- `LiveSessionSpared`: the compositor of a session that the daemon watches and whose leader
  runs is told to stop only after a stop was requested, or in a panic of one of
  doord's threads.
- `GrantsSeatProperly`: the refinement of `SeatOwner`.
- `SquatterEvicted`: a session's compositor, or one the daemon lost sight of, that holds
  the card when the daemon means to free the seat does lose it, or the daemon ends over
  it, whether or not it heeds SIGTERM.
- `LoginScreenReturns`: the daemon always comes back to waiting for a greeter, a
  request or a session, or ends, whatever a compositor does with SIGTERM.
- `DeadGreeterNoticed`: a greeter that died before it connected does not leave
  the daemon in `accept()`.
- `NoThrashing`: if greeters stop lasting, the daemon settles or ends and does
  not relaunch for ever.
- `StopDuringSession`: a stop that arrives during the session wait takes effect,
  unless the session ends first.

*login_seam*

- `IdentityBound`: the user the daemon gates on is the user in the worker's PAM
  context, after any series of conversations, failures and cancels.
- `SessionWasProven`: what runs, runs for a user whose secret PAM accepted in a
  conversation that nobody cancelled and no transport broke.
- `InStep`: the two ends never wait for each other, and no stray command or
  event is ever under way. It also shows that the arms for stray messages in
  `worker.rs` and `pam.rs` are unreachable from this daemon.
- `NothingLeftOpen`: a worker that returns leaves no session without a leader
  (unless its daemon died) and, with a managed greeter, no open PAM session.
- `ConversationSettles`, `WorkerReaped`: an authentication reaches a prompt or
  its end; a dropped login leaves no worker behind but one leading a session.
- `HonoursGate`: the refinement of `LoginGate`.

*greeter_ui*

- `SeamInStep`: when the greeter's thread waits for a response, exactly one is on
  its way (its request unread, PAM at work on it, or the response on the socket
  behind PAM's one-way messages); when it does not, none is. So no call ever reads the
  answer to another one, and that holds after a conversation was dropped in a prompt
  too: the cancelled verdict is the answer to whatever request comes next. And the
  thread waits for the user, or sends a reply, only while the daemon waits in the
  prompt.
- `StartsBound`: a `Start` reaches the daemon only after PAM accepted a user on this
  connection, through four channels and whatever was dropped or came late: the session
  gate's refusal never meets this greeter.
- `RequestAnswered`: the thread comes back from every read of a response.
- `AttemptAnswered`: every attempt that reaches the channel leads to a prompt or back
  out of Authenticating, unless another command was queued before a reply. The exception is
  finding G.

*spawner*

- `AnswersPaired`: an answered request got the worker that was made for it, as
  long as no read was cut short; after that an earlier one of the same kind, and never one that
  another request got.
- `RequestReturns`: no request waits for ever, whatever fails to start and whichever
  side dies.
- `NextRequestReaps`: what the race between `reap_exited` and `poll` leaves a zombie is
  reaped with the next request, and by init when the spawner is gone.

*startup*

- `DesktopUnconfined`: no compositor, no desktop and no worker that leads one runs under
  the supervisor's filter or ruleset, whichever spawners could be forked and
  whichever modes are asked for.
- `ServesConfined`: from the moment a thread's socket can be connected to, the thread runs
  under the whole of the sandbox, less what could not be installed. This is the order of
  `main()`; the comment of `hardening.rs:17-18` has another (finding P).
- `RunsAsTarget`: a program that runs has exactly its target's uid, never root's, and its gid,
  and the VT if there is one, though each call of the drop may succeed without effect. Its
  supplementary groups are the target's as far as `initgroups` said so: nothing reads
  them back (finding Q).
- `NeverOrphaned`: no compositor of the greeter runs without its worker, whenever the
  worker dies.

*sessions*

- `SteadySessionsFound`: a session that was on disk during the whole scan is
  found, in its own place or in one that takes precedence, whatever is changed
  beside it; and an id is found once.
- `StartsAsOffered`: a start launches what the list offered under that id, unless an
  entry changed since the list was asked for.

*lock_screen*

- `VerifierInStep`: the service and the worker of its attempt never wait for each
  other, and a frame between them is one the other end is there to read: a reply goes to a
  worker that asked, an order to one that has none, and after a prompt or a
  verdict the worker says nothing.
- `LockInStep`: while the locker's thread waits for a reply, exactly one of an
  undelivered prompt, an open prompt field and a reply under way exists, and
  at other times none; an `Authenticate` never meets a running conversation. So a
  reply never answers another attempt's prompt, and the thread never drops a
  conversation without telling the UI (`app.rs:994-995`).
- `AllowsOnlyProven`: `Allow` is sent only on the connection being served and only if
  PAM accepted, in that attempt, its own user's secret. A fault, a worker that
  vanished, an unknown uid or an earlier attempt on the connection never allow.
- `OpensProperly`: the refinement of `LockGate`.

*lock_screen_live*

- `StalledPeerDropped`: a peer that sends no more, while its socket's buffer has room again and
  again, is not served for ever, wherever it stalls. The second premise is needed: a
  peer that sends and does not read is served for ever (finding R).
- `CommandAnswered`: a command the UI sent leads to a prompt or the end of the
  attempt, whatever dies and however late a reply is, unless another peer is
  served for ever. The exception is real: the service has no limit on a
  connection that keeps talking, only on one that is silent.

*theme_studio*

- `PreviewCurrent`: the preview is the draft in the variant being edited after every
  message, those that `update` does not rebuild it for included.
- `GreeterShowsPreview`: of a saved draft the greeter shows what the studio previews
  of it, at every time of day and in every season, whatever was installed
  before. Every one of the keys goes through all the lists.
- `PresetRestores`: loading a preset or an exported file brings back the draft it was saved
  from, whatever is being edited.

The last two are stated for drafts whose values are TOML once printed
(`Representable`); what is not is in section 5 (finding H).

The type invariants, and `NeverBothWait` of `Spawner` (a daemon that waits has an
answer on the stream or the spawner at work for it), are in no run: they are
theorems (section 4), for every value of the constants.

Each property has, in `PROJECT.json`, a mutant of a mapped definition (a dropped
SIGKILL round, an uncounted failure, a missing store, an unnoticed end-of-file, a key
left out of one list, a thread created before the ruleset, ...) under which TLC
finds it violated. The mutants are the definitions marked `mutant` in the modules.

### Bounds, and why they are enough

| constant | value | why |
|---|---|---|
| `MaxRapidFailures` | 2 | one failure that is counted and one that gives up, each at either place; the shipped limit is 3 |
| `MaxLives` | 2 | one crash and the restart after it: a second crash meets no state the first did not, since a restarted daemon keeps nothing but the processes of earlier lives |
| `MaxBacklog` | 1 | a stale or a foreign connection in the greeter's place |
| `Users` | 2 | one bound, one asked for; in `Startup` root and another |
| `Users` of the live lock run | 1 | the secret makes no difference to who waits for whom; the arbitrary peer is then another program of the same user |
| `Groups` | 2 | root's and another, either of which may be any user's |
| `MaxInFlight` | 2 | a frame pipelined behind the one being served |
| `MaxPrompts` | 2 | a password and a second factor |
| `MaxPending` | 2 | a command of the user's behind another |
| `MaxNotices`, `Capacity` of `GreeterUI` | 1 | a one-way message in front of an answer; a channel that one message fills, so that each emission blocks (the code's has 64 places) |
| `MaxRequests` | 3 | a request cut short, and the two it disturbs |
| `Ids`, `Roots` | 2 | an id in several directories beside another; two roots with both kinds of session |
| `MaxChanges` | 1 | a change in every place of every scan |
| `MaxEdits` | 1 | one control of any tab, at any moment, over an installed theme with any scene; saving, loading, switching the variant and resetting are not bounded, so drafts and files differ and are loaded over each other |
| `MaxMessages` | 2 (safety), 1 (liveness) | prompts and notices of one conversation: two factors, or a cue and a prompt |
| `Capacity` of `Reauth` | 2 (safety), 1 (liveness) | answers a socket holds that its peer has not read: with 1 every second write waits for the peer |
| `Conns` | 2 (safety), 3 (liveness) | the locker's and another user's; for liveness a second one of the locker's, which queues behind its abandoned first |
| `MaxInFlight` of `Reauth` | 1 | a frame at a time of an arbitrary peer, whose requests are interleaved with everything |

Each bound is in the guard of the action it bounds: `Restart`, `UiConnects` and
`ForeignConnects` of `LoginLoop`, `Leave` (one compositor out of the daemon's sight at a time) and
`HookScans` (a panic of the other thread in the first life only); `PeerSends` and `Ask` of `LoginSeam`; `Ask`, `Notify`
and the peers' frames of `Reauth`; `MayQueue`, `Emit` and `Notify` of `GreeterUI`;
`Request` of `Spawner`; `Change` of `Sessions`; `Changes` of `ThemeStudio`. In `Startup`
there is a worker of each kind at a time (`StartWorker`), and one child is set up at a time, beside
a program that runs (`BeginLaunch`). Nothing else is bounded. The
theorems of section 4 hold for every value of all of them.

`CHECK_DEADLOCK FALSE`: in `login_loop` and `startup` the daemon really ends (a stop,
giving up, a crash after the last restart), in `login_seam` a connection does, in
`greeter_ui` the greeter exits, in `spawner` nothing is left to do after the last
request, and an unlocked session of `lock_screen` need not be locked again.

### Fairness

`LoginLoop!FairSpec`: weak fairness of the daemon's thread (`DoordStep`, which
includes the expiry of its own timers), and of a SIGKILL taking effect in the end on a
compositor of a session or one the daemon lost sight of. Nothing is assumed of users,
greeters and their workers, compositors that were only asked (one may ignore SIGTERM for ever),
sessions, other clients, administrators, systemd, or of `GREETER_MIN_UPTIME` passing.
`AcceptFails`, `ServeDrops`, `Authenticate` and `RequestStart` depend on an error or a user
and are not in `DoordStep`.

Two daemon steps stand for calls that the code lets take as long as they take:
`StartSession`, `StartLosesSession` and `StartFails` (`login.start` reads the worker's answer without a
deadline) and `LaunchGreeter` (the spawner's answer). Their fairness says that
PAM's session phase and the spawner answer. The second is what `RequestReturns` of
`Spawner` shows; nothing in doord bounds the first, which is recorded as a hazard.

`LoginSeam!FairSpec`: weak fairness of the daemon's connection loop and of the
worker, including that PAM returns. The peer, the session and whoever kills a
process promise nothing.

`GreeterUI!FairSpec`: weak fairness of the UI thread's handling of messages, of the
subscription, of the worker thread and of the daemon, and strong fairness of PAM
concluding: PAM may go on telling and asking, but not for ever. The user promises nothing.

`Spawner!FairSpec`: weak fairness of the reads of the daemon, of the spawner's loop
and of init. Workers, and who asks, promise nothing.

`LockScreen!FairSpec`: weak fairness of the locker's UI thread (the messages it has
been sent), of its worker thread, of the service's thread with its read timeouts
(a write that waits for its peer is not enabled, so it is owed nothing),
and of the reauth worker, including that PAM returns. A user need not press, type or
submit; other peers, and whoever kills the daemon or the locker, promise
nothing. In particular a daemon that is down need not return: the thread then
sees the end of its connection.

---------------------------------------------------------------------------

## 4. The proofs

Every theorem is checked by TLAPS down to the last leaf. The only assumptions are
the named ones on the constants: the three bounds of `LoginLoop` are positive
naturals (`ConstantsAssumption`); in `LoginSeam` `Nobody` is not a user and the bounds
are naturals, `MaxInFlight` positive (`SeamAssumption`); in `Reauth` each slot has
an owner who is a user or unknown, a socket holds at least one frame, and the bounds are
naturals (`ReauthAssumption`);
in `LockScreen` the locker's slots are connections of the user who locked
(`LockAssumption`); in `GreeterUI` the bounds are naturals, the queue's and the channel's
positive (`GreeterAssumption`); in `Spawner` the bound is a natural; in `Startup` root is a
user, and its group a group; in `Sessions` there is a root to search, the bound is a natural and no id is the word
that stands for the list (`SessionsAssumption`); in `ThemeStudio` the bound is a natural, what
stands for no file is neither a file nor a draft (`StudioAssumption`), and the built-in
presets differ from the built-in theme in no setting that the variants share
(`StockAgrees`). Users, slots, ids and the locker's share of
the slots may be any sets.

### 4.1 LoginLoopProofs

None of the properties is inductive by itself. `IInv` is the conjunction of

- `TypeOK`;
- `Returns`: *ret* is a point that the current call can return to (`free_seat` returns to
  `Launch`, `Exit` or `Abort`; `terminate` to `Account` or `Handoff`): without it
  nothing is known after a return;
- `WorkerLeads`: a compositor that is not under SIGKILL runs under a worker that forked it.
  Without it nothing is known of the compositor once the worker is gone;
- `WorkerWhere`: where there may be a worker that is not under SIGKILL. `terminate()` returns on
  four paths, on one of them with no end-of-file seen, and the handoff must be safe on each;
- `SessionWhere`, `OneOwner`: a watched session exists only in `Wait` and `Poll` and on the paths
  out of them, and never beside a worker that is not under SIGKILL;
- `NotGreeting`, `StopSeen`, `Fallen`: where `greeting` is false, that `free_seat` runs under a
  watched session only after a stop, and that a daemon that ended left its loop;
- `Counted`: the streak counts every attempt but the one under way. It is what
  `AttemptsBounded` needs, and either of the two places that count breaks it if it does not;
- `Insisting`: while `free_seat` settles after its second round nobody was merely asked;
- `GreetingExcludesSession`.

From it follow, as theorems of `Spec`: `TypeCorrect`, `HandoffSafe`, `SignalSafe`,
`StreakBounded` (for every limit), `SeatInsisted` and `SessionSpared` (the two action
properties), and `ImplementsSeatOwner`.

### 4.2 LoginSeamProofs

The inductive invariant is `TypeOK /\ Wire /\ Binding /\ Proven /\ Led /\ Tokens`:

- `Wire` says what can be under way on the control socket in each pair of states
  of its two ends: at most one message each way, which one, and who is waiting
  for it. `InStep` is its visible part; by itself it does not say *which*
  message is under way, so it is not inductive;
- `Binding` carries a username along a `Success` that is on its way: between the
  worker's `authed := conv` and the daemon's `username := asking` the two differ,
  and what holds is that the message under way will make them equal;
- `Proven`: whatever the worker's PAM context holds was proven;
- `Led`: a running session has a worker that leads it, or its daemon or its worker
  died;
- `Tokens`: with a managed greeter at most one PAM session is ever open and it is
  the token's, because a failed start ends the connection.

Theorems: `SeamTypeCorrect`, `IdentityHeld`, `SessionProven`, `AlwaysInStep`,
`NothingStaysOpen`, `ImplementsLoginGate`. They hold for any set of users, any
number of frames in flight and any number of prompts.

### 4.3 LockScreenProofs, first part: the service

The service is proved against `PeerMove`, which is weaker than the peers of
`Reauth`: any program may connect with frames already written, send any request,
read and hang up, without a bound. So the result carries over to the lock screen,
which is one such program. The inductive invariant `RInv` is `ReauthTypeOK` with

- `OneServed`: at most one connection is served, and none while the listener accepts or
  is down. Without it the worker's `Success` could meet another connection;
- `WorkerOfAttempt`: outside an attempt there is no worker and nothing from one;
- `SuccessProven`: a `Success` under way means that the connection being served has
  been proven. It is this that `Allow` rests on; that `Begin` and `DenyOutright` forget
  a proof is harmless because then nothing is under way.

`MoveKeepsRInv` says that any such step keeps it. `VerifierInStep` needs more than who waits:
`Talk` says what is under way, in three pictures of a conversation. It goes on (the
worker inside PAM with no order, or about to read the one there is), it asks (notices,
then one prompt, and the worker blocked on the answer), or it has ended (notices, then
one verdict, and an idle worker). The service leaves a picture by reading the head of what
the worker wrote, so each of them is about sequences of any length (`InfosMore`,
`InfosLess`). Theorems: `ReauthTypeCorrect`, `ReauthFailsClosed` (`AllowsOnlyProven` for
`ReauthSpec`) and `ReauthInStep`.

### 4.4 LockScreenProofs, second part: the lock screen

`LockMoves` shows that each step of the lock screen is a `PeerMove` or leaves the service
alone, so `RInv` is inherited. `LInv` adds

- `Stage`: seven pictures of an attempt (an order under way, connecting,
  waiting for the service, a prompt on its way to the UI, on the screen, its
  reply on the way back, a verdict on its way), each with the exact contents of both
  channels up to notices. `LockInStep` counts what `Stage` lists, but the count
  alone does not say that a verdict is the last message of its attempt;
- `Line`: what may be on the locker's connection. The locker begins one attempt per
  connection, so an unread `Allow` is that attempt's, and the service cannot
  forget the proof before it is read;
- `FreeSlot` and `FreeLink`: a slot that is used again is empty, or a fresh attempt could
  read an old `Allow`;
- `Provenance`: a success in the channel, or a UI that is unlocking, has its proof.

Theorems: `LockTypeCorrect`, `LockStaysInStep`, `LockFailsClosed` and `LockVerifierInStep`
(`AllowsOnlyProven` and `VerifierInStep` with the locker among the peers), and
`ImplementsLockGate`.

### 4.5 GreeterUIProofs

`SeamInStep` counts requests and responses but does not say who is talking while a
conversation is cancelled. The inductive invariant is `TypeOK /\ Undialled /\ Owed /\
Talking /\ Prompted`:

- `Undialled`: before the thread has dialled there is nothing on the socket;
- `Owed` is the first part of `SeamInStep` in the words of the model;
- `Talking`: while PAM works, the thread is in its conversation, unless that was cancelled,
  and then nothing has been written yet; only a thread in a conversation can have
  a reply or one-way messages on the socket. Without it a notice could reach a call that
  wants a verdict;
- `Prompted`: the daemon is in the prompt from its question, unread on the socket, to
  the request that ends it; so the prompt cannot have been left while the user thought.

`StartsBound` is carried by `Bound`: a success on the socket or on its way to the UI,
and the order it leads to in either queue, only exist once the daemon has bound a user, and it
never unbinds one. Theorems: `GreeterTypeCorrect`, `SeamStaysInStep`, `StartsAreBound`, for
every bound on commands, notices and messages.

### 4.6 SpawnerProofs

`AnswersPaired` relates what was delivered to the requests, and nothing in the code
carries a number, so the invariant has to number what is on the stream:

- `Numbered`: the unread requests are the last ones, in order, and the spawner serves the one
  before them; a cut read only ever happened to a spawner whose requests are all of
  one kind;
- `Spare`: a descriptor is in one place, on the stream or with one request, and
  belongs to a request that was taken;
- `InTurn`: while no read was cut short, the stream holds what is left of one answer,
  the one the daemon waits for, in the state of the two reads.

That nobody waits in vain is `Owed`: `NeverBothWait` with `LastStarted`, which says that a header
that ends the stream has a spawner about to send its descriptor, or none at all. Without
it, a daemon that has read the header would be owed nothing that the invariant knows of; with a
cut read before it, the header may have been written for another request. This
is the part of `RequestReturns` that needs no fairness.

Theorems: `SpawnerTypeCorrect`, `AnswersArePaired`, `NoWaitInVain`, for every number of
requests and of cut reads.

### 4.7 StartupProofs

The invariant adds to `TypeOK` what `main()` is confined by at each step and the
listener with it (`Confinement`), that nobody is released or served before the
sandbox is complete (`Opened`), that the spawners and the workers of the seat are
unconfined (`Clean`), and what a program's set-up has achieved by each of its steps
(`Programs`): the greeter's has armed the signal before it looks for its worker, so a
worker that dies later takes it along; and `TargetHolds` needs of `Programs` only what
`VerifyDropped` has looked at, for any of the three calls may have had no effect. Theorems: `StartupTypeCorrect`,
`DesktopIsUnconfined`, `ServedConfined`, `TargetHolds`, `NoOrphan`, for any sets of users and
groups and every environment.

### 4.8 SessionsProofs

A scan's result depends on the disk as it was when each directory was read. `Passed` says of
the directories behind the scan that a steady entry is found at its place or
before, and ids once; `Offered` relates the list to the disk while nothing changed: it is the
first startable entry of each id (`Best`), a definition by least element that needs no
induction over the directories because `Passed` carries it. Theorems:
`SessionsTypeCorrect`, `SteadyFound`, `StartedAsOffered`, for any ids, any number of
roots and any number of changes.

### 4.9 ThemeStudioProofs

The three properties rest on facts about the lists that the code keeps by hand, each of
which is a lemma that names the lists it compares: what is written is known to the
parser (`KeysWritten`), what the variants share is written, overlaid for either variant and
taken from a preset (`KeysShared`), what each has of its own is written in its own table and
overlaid from it (`KeysPalette`), no list reaches into the other's keys (`KeysApart`), and every control of
the panel changes a key that has a slot (`KeysOffered`). A key left out of one list makes one
of these false.

From them follows, for *every* draft and with no induction, what `render_pair` writes
(`RenderAll`, `RenderTyped`), and, for every representable one, that printing leaves it as it is
(`SceneNames`, `PrintPairs`, `RenderSame`), that it parses (`RenderParses`), that each variant read back is the
draft's (`RenderNight`, `RenderDay`, `RenderScene`), that a preset restores it
(`RenderRestores`) and that `load_at` shows it (`RenderShown`). What the runs of the program
add is `FilesKept`: where the studio has written, the file is what it renders of a draft that
was well-formed then. It is inductive only with the types of the drafts (`TypeOK`), which
say that no edit, preset, import or reset puts a pair where its key does not belong.

Theorems: `StudioTypeCorrect`, `PreviewIsCurrent`, `GreeterShowsWhatIsPreviewed`,
`PresetsRestore`, for every installed theme and any number of edits. The run bounds the edits
by one.

### 4.10 Only model-checked

Every invariant and every safety property of a step that a passing run checks is a theorem. Liveness
(`LoginScreenReturns`, `DeadGreeterNoticed`, `NoThrashing`,
`StopDuringSession`, `SquatterEvicted`, `ConversationSettles`, `WorkerReaped`, `RequestAnswered`,
`AttemptAnswered`, `RequestReturns`, `NextRequestReaps`, `StalledPeerDropped`,
`CommandAnswered`) is beyond the installed provers and is checked by TLC only: it takes
`ENABLED` for the fairness, and PTL does not expand it. What the theorems have of it is its
safe part: `InStep`, `SeamInStep`, `VerifierInStep` and `NeverBothWait` exclude that two ends
wait for each other.

---------------------------------------------------------------------------

## 5. Findings

### 5.1 As runs

Each is a run that TLC finds violated, with a short counterexample.

- **A. A stop can be lost** (`stop_lost`). A SIGTERM while `GREETING` is false
  but no session is being waited for only sets the flag, and a loop that goes on to greet does
  not read it. The counterexample is the first of three windows: between the handler's
  installation (`ipc.rs:441-448`) and the first `GREETING.store(true)` (457). The others are
  `login.start` failing after `GREETING` was cleared (1251-1271), and a session that ends after
  the wait's last look at `TEARDOWN` (251-268). The flag stays set, so the next session is
  torn down at once.
- **E. A session's end can go unnoticed** (`session_end_missed`). The session
  inherits the worker's end of the control socket: `FD_CLOEXEC` is cleared across
  the worker's exec and only the greeter worker sets it again. A process that
  outlives the session's leader holds the socket open, and doord waits on.
- **G. An attempt can be dropped without a word** (`greeter_attempt_dropped`). In
  `Authenticating` the greeter's button is inert, but Enter in the name or the password
  field sends `LoginPressed` again, and the power buttons are always live. The
  worker thread receives the second command where it waits for the reply to a
  prompt, and leaves the conversation without a message (`app.rs:1042`). The greeter
  stays in `Authenticating` with nobody at work, until the user presses once more.
  `door-lock` refuses an `Unlock` in any phase but `Locked`, and `LockInStep` holds there.

### 5.2 Steps that are in the modules

They follow from what the modules model, and no property of a passing run says
they do not happen.

- **B.** A greeter's card can outlive `terminate()`, whose comment says to "wait for it to
  exit" (`ipc.rs:778-781`). A worker that is SIGKILLed, or signalled before its forwarder is
  armed, closes its control fd as it dies, and the parent-death signal to its compositor is a
  separate event (`WorkerDies`, `CageExits`); and the wait after the SIGKILL may run out too, its
  result ignored (`TermGivesUp`, 832). `login.start` runs then with the compositor still on the
  card. `GreeterDoomedAtHandoff` is what holds.
- **C.** A stop at the greeter can leave the greeter: the compositor's parent-death
  signal is tied to its worker, a child of the spawner and not of doord;
  doord's death reaches neither. The next life's `free_seat` ends what holds the card.
- **D.** A stop just after a session starts frees nothing: the session's compositor
  does not hold the card yet, `free_seat` finds nobody, doord exits, and the
  compositor takes the card.
- **F.** Text typed during an attempt is sent without a submit.
  `door-lock/src/app.rs:330-333` reserves the automatic answer to the password
  pre-typed for the first secret prompt; `update` answers any secret prompt for
  which the field is not empty (482), and the field can be edited during the
  attempt whenever no prompt or cue is on the screen.
- **I.** With only the second spawner's fork failing (`main.rs:97`),
  reauthentication workers are forked by the confined daemon: under the enforcing filter
  none can be forked, under the others PAM runs confined.
- **J.** A worker that exits between `reap_exited` and `poll` (`spawner.rs:112`) stays
  a zombie until the next request.
- **K.** A `Hidden` entry in an earlier root does not hide the packaged entry of a
  later one (`sessions.rs:160`): it is skipped, and the id is found further on.
- **H.** Some drafts cannot be read back. A radius or a width such as `NaN` or `1e20` parses as a
  number and prints in a form TOML does not have (`door-settings/src/main.rs:1170`). Texts, and the
  times of the day window, are written with Rust's `{:?}` (`door-theme/src/lib.rs:2374`, 2378,
  2410-2424, 2787-2791), which escapes a no-break space, a zero-width joiner or a control
  character as `\u{..}`; TOML has no such escape. In either case the whole saved file does not
  parse: the greeter and the lock screen show the stock theme (`load_at`, 2240-2245), and a preset
  or an export with such a value is refused as malformed. A test comment says that "What
  door-settings writes must parse back to the same theme" (2932). Besides, a day window that is no
  time of day is saved as if it were, and reads back as 07:00 to 19:00.
- **L.** A refused `Power` arrives as `DaemonError`, which sets the phase to `Ready`
  whether or not an attempt is under way (`app.rs:498`).
- **M.** `WorkerReady` races the thread's own first messages (`app.rs:963`); `SeamInStep` and
  the liveness properties hold for either order.
- **N.** A comment in `Theme::load_at` says that "auto/seasonal follow the clock". A
  seasonal scene is resolved to the month's scene first, and that pins the
  night variant whatever the clock says.
- **O.** A session can run unseen beside a greeter. If the control socket cannot be cloned or
  made non-blocking after the worker reported `Started` (`pam.rs:295-302`), the loop takes the
  start for failed: it is `GREETING`, which `ipc.rs:145-146` explains as "(no live session)",
  `free_seat` tells that session's compositor to go, and a greeter is launched
  (`StartLosesSession`). `GreetingExcludesSession`, `LiveSessionSpared` and `SeatOwner` speak of
  sessions the daemon watches, and do not protect this one.
- **P.** `hardening.rs:17-18` calls load-bearing the order "fork spawner → bind listener →
  `apply_seccomp` → serve". `main()` creates the listener's thread before the filter and binds its socket
  after (`main.rs:113-120`, 162-170, 198-205): no socket can be connected to before the filter.
  `ServesConfined` is `main()`'s order, and would not hold of the comment's.
- **Q.** "Each drop is then *verified*" (`privdrop.rs:20`), but `verify_dropped` (73-97) reads the uid
  and the gid only. Supplementary groups that `initgroups` left as they were are not noticed, and
  a target with gid 0 is let through; neither are the saved ids read.
- **R.** A peer can pin the reauthentication service. The comment of `reauth.rs:52-56` says that a
  stalled peer "cannot pin the single-threaded listener forever", since "every read here is bounded". Writes are
  not (208, 239-243, 401-436): a peer that sends requests, reads nothing and leaves its end open fills
  the buffer, and the next answer waits for it without a deadline. Without the premise about room TLC
  finds `StalledPeerDropped` violated in this way.
- **S.** A panic of the reauthentication thread runs the process-wide hook: `free_seat` tells a live
  session's compositor to go and kills it two seconds later, while the daemon lives on (`HookScans`,
  `HookKills`).

### 5.3 In the comments only

`ipc.rs:149-150` says a session "rightly survives an admin restart of doord", which
the teardown in `wait_for_session` contradicts (its own comment describes the
opposite).

---------------------------------------------------------------------------

## 6. Abstracted or not modelled

In the modules there are:

- Time: a timer is a step that may happen. `young` is the only clock value kept.
- A process is identified with its life: pids, and their reuse after a reaping, are
  not modelled. `GreeterHandle` signals a retained pid; see the hazard list.
- In `LoginLoop` the session worker and the session it leads are one process, with
  the difference that matters to the loop (`lingering`) kept. A kill of the
  session worker alone is left out.
- In `LoginLoop` the mode of the VT is left out: `restore_text_vt` is best effort, its
  failures are dropped, and nothing in the loop reads it. So are a greeter whose handle was lost
  beyond its compositor (its UI is not followed), and a compositor that its own supervisor
  starts again before the group is killed.
- In `LoginSeam` the end of the control socket is the end of the worker: the
  inherited descriptor of finding E is in `LoginLoop` only.
- PAM's informational messages are relayed like prompts but expect no answer;
  `LoginSeam` leaves them out, `GreeterUI` and `Reauth` have them.
- The uid check of an accepted connection (`peer_cred`) is who the peer is:
  a foreign peer's connection ends at once in `LoginLoop`, and is not a connection
  in `LoginSeam`.
- Without a greeter user, without a real VT, or without a spawner, the loop takes other
  paths (no greeter to tear down, no VT to restore); `LoginLoop` covers the
  shipped configuration only, which is why its component is `partly`. `Startup` has the
  second and the third.
- In `GreeterUI` the users, sessions and texts are one of each; the clock, indicators,
  focus, fades and the theme's reload change nothing of the login flow.
- In `Spawner` what fails a request (`socketpair`, `clone`, `pidfd`) is one outcome, and
  what a worker does is its end.
- In `Startup` the filter and the ruleset are two marks, not lists of syscalls
  and paths; the lookup of a user and the configuration are choices of the initial state.
- In `Sessions` the parsing of an entry and the tokens of `Exec` are one attribute.
- In `Reauth` a response that ends the connection is the same to a peer as its end,
  so `Incompatible` and the error before the handshake are not kept apart from it. The
  padding of a denial in time, the socket's modes and the attempts' spawner are
  left out; that no worker can be had is an outcome of `DenyOutright`.
- In `LockScreen` the arms of `worker_loop` and `run_conversation` for a stray command
  are left out, since `LockInStep` shows that none arrives, and so is a panic of
  the worker thread (`State::send`'s error arm). `Tick`, `Fade`, focus and the
  indicators touch nothing of the unlock flow.
- In `ThemeStudio` clamps and the values of numbers and colours are left out; one user
  preset and one export stand for any number, so names that clash or that one preset's
  pretty form hides are not there; nor are file dialogs, a second window of the studio,
  and the draft file in the temporary directory that two of them would share. Of the
  messages for which `update` skips the rebuild (`main.rs:1393-1406`) only saving a preset and
  exporting are actions: the others touch the layout, names and notices, which are left out.

Not modelled at all: rendering, shaders and clocks, widget layout; frames as bytes
(lengths, partial reads, limits: a broken frame is the end of its connection);
`vet_asset` and the reads of `/sys`; the reload of a theme while a program runs; PAM
and systemd themselves; packaging.

---------------------------------------------------------------------------

## 7. Plan

Done, with their proofs where section 4 names them: `LoginLoop` and `SeatOwner`;
`LoginSeam` and `LoginGate`; `GreeterUI`; `Spawner`; `Startup`; `Sessions`; `Reauth`,
`LockScreen` and `LockGate`; `ThemeKeys`, `StudioPanel` and `ThemeStudio`.

Left, in this order:

1. The direct backends of the login loop (no spawner, no VT, no greeter user), as
   choices of `LoginLoop`'s initial state.
2. Pids, with a spawner that reaps and a kernel that reuses, for the signal that
   `GreeterHandle::terminate` sends to a retained pid.
3. Pure algorithms as operators checked against reference definitions: framing with
   partial reads and the length limit, the Exec tokenizer, `vet_asset`.
4. An abstract specification of the spawner (each request its own answer, or an
   error) with `Spawner` shown to implement it.
