------------------------------ MODULE GreeterUI ------------------------------
(***************************************************************************)
(* door-greeter: the UI thread (door-greeter/src/app.rs, `update` and what *)
(* `view` offers), its worker thread (`worker_loop`, `run_conversation`)   *)
(* with its client (client.rs), and the connection loop of doord at the    *)
(* other end with the responses it writes (doord/src/ipc.rs, pam.rs).      *)
(*                                                                         *)
(* LoginSeam models the daemon's side of a connection against an arbitrary *)
(* peer and no responses; here the peer is the greeter, the daemon is what *)
(* such a peer sees of it, and the question is whether the two keep step.  *)
(***************************************************************************)
EXTENDS Naturals, Sequences, FiniteSets

CONSTANTS
  MaxPending, \* bound: commands the user has queued
  MaxNotices, \* bound: one-way PAM messages under way
  Capacity    \* the capacity of the channel of messages to the UI

ASSUME GreeterAssumption ==
  MaxPending \in Nat \ {0} /\ MaxNotices \in Nat /\ Capacity \in Nat \ {0}

Commands  == {"Authenticate", "Reply", "Start", "Power"}
Verdicts  == {"AuthSucceeded", "AuthFailed", "DaemonError", "Fatal"}
Messages  == {"WorkerReady", "Sessions", "NoSessions", "Prompt", "Notice",
              "SessionStarted"} \cup Verdicts
Requests  == {"Hello", "ListSessions", "BeginAuth", "AuthReply", "Start",
              "Power"}
Responses == {"Welcome", "Incompatible", "Sessions", "NoSessions", "Question",
              "Notice", "AuthSuccess", "AuthFailure", "Error", "Started"}

VARIABLES
  up,       \* the greeter's process runs
  phase,    \* State::phase
  ready,    \* State::cmd_tx is Some
  selected, \* State::selected is Some
  typed,    \* State::password is not empty
  prompt,   \* State::prompt is Some
  cue,      \* State::cue is Some
  commands, \* the mpsc channel to the worker thread
  inbound,  \* the messages on their way to `update`
  handed,   \* the subscription has sent WorkerReady
  th,       \* where the worker thread is
  rq,       \* requests on the socket
  rs,       \* responses on the socket
  dm,       \* where the connection loop is
  managed,  \* doord manages this greeter
  user,     \* WorkerLogin::username is Some
  fault     \* ControlConversation::fault is Some(Cancelled)

ui     == <<phase, ready, selected, typed, prompt, cue>>
links  == <<commands, inbound>>
socket == <<rq, rs>>
daemon == <<dm, managed, user, fault>>
vars   == <<up, ui, links, handed, th, socket, daemon>>

\* The places of the thread in which it blocks on the daemon's response.
Waiting == {"hello", "list", "recv", "start", "power"}

\* The variables keep their types, and the channel its capacity.
TypeOK ==
  /\ up \in BOOLEAN /\ handed \in BOOLEAN
  /\ phase \in {"Connecting", "Ready", "Authenticating", "Started"}
  /\ ready \in BOOLEAN /\ selected \in BOOLEAN /\ typed \in BOOLEAN
  /\ prompt \in BOOLEAN /\ cue \in BOOLEAN
  /\ commands \in Seq(Commands)
  /\ inbound \in Seq(Messages) /\ Len(inbound) <= Capacity
  /\ th \in Waiting \cup {"connect", "idle", "await", "returned"}
  /\ rq \in Seq(Requests) /\ rs \in Seq(Responses)
  /\ dm \in {"away", "handshake", "idle", "auth", "prompt", "owns", "over"}
  /\ managed \in BOOLEAN /\ user \in BOOLEAN /\ fault \in BOOLEAN

Init ==
  /\ up = TRUE /\ handed = FALSE
  /\ phase = "Connecting" /\ ready = FALSE /\ selected = FALSE
  /\ typed = FALSE /\ prompt = FALSE /\ cue = FALSE
  /\ commands = <<>> /\ inbound = <<>>
  /\ th = "connect" /\ rq = <<>> /\ rs = <<>>
  /\ dm = "away" /\ managed \in BOOLEAN /\ user = FALSE /\ fault = FALSE

-----------------------------------------------------------------------------
(***************************************************************************)
(* The UI thread: `update`, one message at a time.                         *)
(***************************************************************************)
Takes(m) ==
  up /\ inbound # <<>> /\ Head(inbound) = m /\ inbound' = Tail(inbound)

\* Something of `update` ran that touched only the UI's own state.
Locally == UNCHANGED <<up, handed, th, socket, daemon>>

\* State::send to a phase of the caller's: without a channel nothing is sent,
\* and once the thread has returned the send fails and the UI is Connecting.
Sends(c, p) ==
  IF ready /\ th # "returned"
    THEN commands' = Append(commands, c) /\ phase' = p
    ELSE commands' = commands /\ phase' = IF ready THEN "Connecting" ELSE p

TakeWorkerReady ==
  /\ Takes("WorkerReady")
  /\ ready' = TRUE
  /\ phase' = IF phase = "Connecting" THEN "Ready" ELSE phase
  /\ UNCHANGED <<selected, typed, prompt, cue, commands>> /\ Locally

TakeSessions ==
  /\ \/ Takes("Sessions") /\ selected' = TRUE
     \/ Takes("NoSessions") /\ UNCHANGED selected
  /\ UNCHANGED <<phase, ready, typed, prompt, cue, commands>> /\ Locally

\* The typed password answers a secret prompt; any other is shown.
TakePrompt ==
  /\ Takes("Prompt") /\ cue' = FALSE
  /\ \/ typed /\ typed' = FALSE /\ Sends("Reply", phase) /\ UNCHANGED prompt
     \/ prompt' = TRUE /\ UNCHANGED <<phase, typed, commands>>
  /\ UNCHANGED <<ready, selected>> /\ Locally

TakeNotice ==
  /\ Takes("Notice")
  /\ cue' = (cue \/ (phase = "Authenticating" /\ ~prompt))
  /\ UNCHANGED <<phase, ready, selected, typed, prompt, commands>> /\ Locally

\* A success asks for the selected session; the phase stays Authenticating.
TakeSuccess ==
  /\ Takes("AuthSucceeded")
  /\ typed' = FALSE /\ prompt' = FALSE /\ cue' = FALSE
  /\ IF selected THEN Sends("Start", phase)
                 ELSE phase' = "Ready" /\ UNCHANGED commands
  /\ UNCHANGED <<ready, selected>> /\ Locally

\* A failure, or any error the daemon reports, is back to the form.
TakeFailure ==
  /\ Takes("AuthFailed") \/ Takes("DaemonError")
  /\ phase' = "Ready" /\ typed' = FALSE /\ prompt' = FALSE /\ cue' = FALSE
  /\ UNCHANGED <<ready, selected, commands>> /\ Locally

TakeFatal ==
  /\ Takes("Fatal")
  /\ phase' = "Connecting" /\ prompt' = FALSE /\ cue' = FALSE
  /\ UNCHANGED <<ready, selected, typed, commands>> /\ Locally

\* The greeter steps aside: iced::exit, and the socket is closed.
TakeStarted ==
  /\ Takes("SessionStarted")
  /\ phase' = "Started" /\ up' = FALSE
  /\ UNCHANGED <<ready, selected, typed, prompt, cue, commands>>
  /\ UNCHANGED <<handed, th, socket, daemon>>

\* view: the prompt's field, or the cue, or else the login form.
FormShown == up /\ ~prompt /\ ~cue
MayQueue  == Len(commands) < MaxPending

EditPassword ==
  /\ FormShown /\ typed' \in BOOLEAN
  /\ UNCHANGED <<phase, ready, selected, prompt, cue, links>> /\ Locally

\* LoginPressed with a name typed.  The button is inert while an attempt
\* runs, but Enter in either field of the form is not.
PressLogin ==
  /\ FormShown /\ selected /\ MayQueue
  /\ prompt' = FALSE /\ cue' = FALSE
  /\ Sends("Authenticate", "Authenticating")
  /\ UNCHANGED <<ready, selected, typed, inbound>> /\ Locally

SubmitPrompt ==
  /\ up /\ prompt /\ prompt' = FALSE
  /\ Sends("Reply", phase)
  /\ UNCHANGED <<ready, selected, typed, cue, inbound>> /\ Locally

\* The power buttons are on the screen whatever else is.
PressPower ==
  /\ up /\ MayQueue /\ Sends("Power", phase)
  /\ UNCHANGED <<ready, selected, typed, prompt, cue, inbound>> /\ Locally

-----------------------------------------------------------------------------
(***************************************************************************)
(* The subscription and the worker thread.                                 *)
(***************************************************************************)
\* A message to the UI, which blocks while the channel is full.
Emit(m) == Len(inbound) < Capacity /\ inbound' = Append(inbound, m)

\* The thread's step leaves the UI and the daemon alone.
InThread == up /\ UNCHANGED <<up, ui, handed, daemon>>

\* daemon_worker hands the channel over, racing the thread it has spawned.
HandOver ==
  /\ up /\ ~handed /\ handed' = TRUE /\ Emit("WorkerReady")
  /\ UNCHANGED <<up, ui, commands, th, socket, daemon>>

Asks(r) == dm # "over" /\ rq' = Append(rq, r) /\ UNCHANGED rs
Hears(r) ==
  rs # <<>> /\ Head(rs) = r /\ rs' = Tail(rs) /\ UNCHANGED rq

\* A response the call does not expect is an error, like a failed read.
HearsBut(expected) == \E r \in Responses \ expected : Hears(r)

\* A read that ends at the daemon's end of file.
DaemonGone == dm = "over" /\ rs = <<>> /\ UNCHANGED socket

\* The socket is dialled and the version declared, or the thread returns.
Dial ==
  /\ th = "connect" /\ up /\ UNCHANGED <<up, ui, handed, commands>>
  /\ \/ /\ dm = "away" /\ dm' = "handshake"
        /\ rq' = <<"Hello">> /\ th' = "hello" /\ UNCHANGED <<rs, inbound>>
     \/ Emit("Fatal") /\ th' = "returned" /\ UNCHANGED <<socket, dm>>
  /\ UNCHANGED <<managed, user, fault>>

ShakeHands ==
  /\ th = "hello" /\ InThread /\ UNCHANGED commands
  /\ \/ /\ rs # <<>> /\ Head(rs) = "Welcome" /\ dm # "over"
        /\ rs' = Tail(rs) /\ rq' = Append(rq, "ListSessions")
        /\ th' = "list" /\ UNCHANGED inbound
     \/ HearsBut({"Welcome"}) /\ Emit("Fatal") /\ th' = "returned"
     \/ DaemonGone /\ Emit("Fatal") /\ th' = "returned"
     \/ /\ Hears("Welcome") /\ dm = "over"  \* the next request fails
        /\ Emit("DaemonError") /\ th' = "idle"

ReadSessions ==
  /\ th = "list" /\ InThread /\ UNCHANGED commands
  /\ \/ \E r \in {"Sessions", "NoSessions"} : Hears(r) /\ Emit(r)
     \/ /\ DaemonGone \/ HearsBut({"Sessions", "NoSessions"})
        /\ Emit("DaemonError")
  /\ th' = "idle"

Ordered(c) ==
  commands # <<>> /\ Head(commands) = c /\ commands' = Tail(commands)

\* worker_loop's commands, each written as a request; a write to a daemon
\* that is gone fails.
Obey ==
  /\ th = "idle" /\ InThread
  /\ \E c \in {<<"Authenticate", "BeginAuth", "recv", "DaemonError">>,
               <<"Start", "Start", "start", "Fatal">>,
               <<"Power", "Power", "power", "DaemonError">>} :
       /\ Ordered(c[1])
       /\ \/ Asks(c[2]) /\ th' = c[3] /\ UNCHANGED inbound
          \/ /\ dm = "over" /\ Emit(c[4])
             /\ UNCHANGED <<th, socket>>

\* A reply outside a conversation is ignored.
DropStrayReply ==
  /\ th = "idle" /\ InThread /\ Ordered("Reply")
  /\ UNCHANGED <<inbound, th, socket>>

\* Client::start, whose read takes nothing but Started and Error.
HearStart ==
  /\ th = "start" /\ InThread /\ th' = "idle" /\ UNCHANGED commands
  /\ \/ Hears("Started") /\ Emit("SessionStarted")
     \/ Hears("Error") /\ Emit("DaemonError")
     \/ (DaemonGone \/ HearsBut({"Started", "Error"})) /\ Emit("Fatal")

\* Client::power: a refusal, and whatever else comes, is shown.
HearPower ==
  /\ th = "power" /\ InThread /\ th' = "idle" /\ UNCHANGED commands
  /\ DaemonGone \/ HearsBut({})
  /\ Emit("DaemonError")

\* The responses AuthStep has a case for.
Steps == {"Question", "Notice", "AuthSuccess", "AuthFailure"}

\* run_conversation: a prompt or a message goes to the UI...
PassPrompt ==
  /\ th = "recv" /\ InThread /\ UNCHANGED commands
  /\ Hears("Question") /\ Emit("Prompt") /\ th' = "await"

PassNotice ==
  /\ th = "recv" /\ InThread /\ UNCHANGED commands
  /\ Hears("Notice") /\ Emit("Notice") /\ th' = "recv"

DropVerdict ==  \* mutant of PassVerdict: a lost connection is not reported
  /\ th = "recv" /\ InThread /\ th' = "idle" /\ UNCHANGED commands
  /\ \/ Hears("AuthSuccess") /\ Emit("AuthSucceeded")
     \/ Hears("AuthFailure") /\ Emit("AuthFailed")
     \/ DaemonGone /\ UNCHANGED inbound

\* ... and so does the verdict, which ends the conversation.
PassVerdict ==
  /\ th = "recv" /\ InThread /\ th' = "idle" /\ UNCHANGED commands
  /\ \/ Hears("AuthSuccess") /\ Emit("AuthSucceeded")
     \/ Hears("AuthFailure") /\ Emit("AuthFailed")
     \/ (DaemonGone \/ HearsBut(Steps)) /\ Emit("Fatal")

\* The reply to a prompt; any other command ends the conversation instead,
\* without a word to either side.
PassReply ==
  /\ th = "await" /\ InThread /\ Ordered("Reply")
  /\ \/ Asks("AuthReply") /\ th' = "recv" /\ UNCHANGED inbound
     \/ dm = "over" /\ Emit("DaemonError") /\ th' = "idle" /\ UNCHANGED socket

DropConversation ==
  /\ th = "await" /\ InThread /\ th' = "idle"
  /\ \E c \in Commands \ {"Reply"} : Ordered(c)
  /\ UNCHANGED <<inbound, socket>>

-----------------------------------------------------------------------------
(***************************************************************************)
(* The daemon, as the greeter sees it.                                     *)
(***************************************************************************)
InDaemon == UNCHANGED <<ui, links, handed, th, managed>>

Reads(r) == rq # <<>> /\ Head(rq) = r /\ rq' = Tail(rq)
Answers(r) == rs' = Append(rs, r)

\* Peer credentials and version are checked; either may end the connection.
Handshake ==
  /\ dm = "handshake"
  /\ \/ Reads("Hello") /\ Answers("Welcome") /\ dm' = "idle"
     \/ Reads("Hello") /\ Answers("Incompatible") /\ dm' = "over"
     \/ dm' = "over" /\ UNCHANGED socket
  /\ UNCHANGED <<up, user, fault>> /\ InDaemon

\* dispatch, and the Start gate's refusals.  SeamInStep shows that this peer
\* never sends a reply outside a prompt, which would be refused too.
Dispatch ==
  /\ dm = "idle"
  /\ \/ /\ Reads("ListSessions")
        /\ \E r \in {"Sessions", "NoSessions"} : Answers(r)
     \/ (Reads("Power") \/ Reads("Start")) /\ Answers("Error")
  /\ UNCHANGED <<up, dm, user, fault>> /\ InDaemon

BeginAuth ==
  /\ dm = "idle" /\ Reads("BeginAuth")
  /\ dm' = "auth" /\ fault' = FALSE
  /\ UNCHANGED <<up, rs, user>> /\ InDaemon

\* What PAM says: nothing after a fault, which also decides the verdict.
AskUser ==
  /\ dm = "auth" /\ ~fault /\ Answers("Question") /\ dm' = "prompt"
  /\ UNCHANGED <<up, rq, user, fault>> /\ InDaemon

Under(n) == Len(rs) < n

NotifyAlways ==  \* mutant of Notify: messages after a cancel are relayed
  /\ dm = "auth" /\ Under(MaxNotices) /\ Answers("Notice")
  /\ UNCHANGED <<up, rq, dm, user, fault>> /\ InDaemon

Notify ==
  /\ dm = "auth" /\ ~fault /\ Under(MaxNotices) /\ Answers("Notice")
  /\ UNCHANGED <<up, rq, dm, user, fault>> /\ InDaemon

ForgetUser ==  \* mutant of Concludes: the user PAM accepted is not recorded
  /\ dm = "auth" /\ dm' = "idle" /\ fault' = FALSE
  /\ \/ ~fault /\ Answers("AuthSuccess")
     \/ Answers("AuthFailure")
  /\ UNCHANGED <<up, rq, user>> /\ InDaemon

Concludes ==
  /\ dm = "auth" /\ dm' = "idle" /\ fault' = FALSE
  /\ \/ ~fault /\ Answers("AuthSuccess") /\ user' = TRUE
     \/ Answers("AuthFailure") /\ UNCHANGED user
  /\ UNCHANGED <<up, rq>> /\ InDaemon

KeepAsking ==  \* mutant of ReadReply: only a reply is read in a prompt
  /\ dm = "prompt" /\ Reads("AuthReply")
  /\ dm' = "auth" /\ UNCHANGED fault
  /\ UNCHANGED <<up, rs, user>> /\ InDaemon

\* In a prompt a reply is relayed; any other frame cancels, and is lost.
ReadReply ==
  /\ dm = "prompt" /\ \E r \in Requests : Reads(r) /\ fault' = (r # "AuthReply")
  /\ dm' = "auth"
  /\ UNCHANGED <<up, rs, user>> /\ InDaemon

\* run_start for the user PAM accepted.  A managed greeter is terminated and
\* told nothing; another is told, and owned until its session ends.
StartSession ==
  /\ dm = "idle" /\ user /\ Reads("Start") /\ dm' = "owns"
  /\ IF managed THEN up' = FALSE /\ UNCHANGED rs
                ELSE Answers("Started") /\ UNCHANGED up
  /\ UNCHANGED <<user, fault>> /\ InDaemon

\* The connection ends: the session is over, the worker is lost, the daemon
\* is stopped, or the greeter is gone.
Ends ==
  /\ dm \notin {"away", "over"} /\ dm' = "over"
  /\ UNCHANGED <<up, socket, user, fault>> /\ InDaemon

-----------------------------------------------------------------------------
UiStep ==
  \/ TakeWorkerReady \/ TakeSessions \/ TakePrompt \/ TakeNotice
  \/ TakeSuccess \/ TakeFailure \/ TakeFatal \/ TakeStarted

UserStep == EditPassword \/ PressLogin \/ SubmitPrompt \/ PressPower

ThreadStep ==
  \/ Dial \/ ShakeHands \/ ReadSessions \/ Obey \/ DropStrayReply
  \/ HearStart \/ HearPower \/ PassPrompt \/ PassNotice \/ PassVerdict
  \/ PassReply \/ DropConversation

\* What the daemon does of itself for a request it has read or not yet read.
DaemonStep ==
  \/ Handshake \/ Dispatch \/ BeginAuth \/ ReadReply \/ StartSession

PamStep == AskUser \/ Notify \/ Concludes

Next == UiStep \/ UserStep \/ HandOver \/ ThreadStep
          \/ DaemonStep \/ PamStep \/ Ends

Spec == Init /\ [][Next]_vars

\* Both threads and the daemon run, and PAM's conversations are finite.  The
\* user promises nothing, and nothing need ever end the connection.
FairSpec ==
  /\ Spec
  /\ WF_vars(UiStep) /\ WF_vars(HandOver) /\ WF_vars(ThreadStep)
  /\ WF_vars(DaemonStep) /\ SF_vars(Concludes)

-----------------------------------------------------------------------------
(***************************************************************************)
(* Safety.                                                                 *)
(***************************************************************************)
Notices(q) == \A i \in DOMAIN q : q[i] = "Notice"

\* The greeter and the daemon keep step while the connection lasts.  When the
\* thread waits for a response exactly one is on its way: its request is not
\* read yet, or PAM is at work on it, or it is on the socket, behind PAM's
\* one-way messages.  When it does not, none is.  So no call ever reads the
\* answer to another one, which holds after a conversation was dropped in a
\* prompt too: the cancelled verdict answers whatever request comes next.  And
\* the thread waits for the user, or sends what the user said, only while the
\* daemon waits in the prompt.
Unread   == Len(rq) = 1 /\ rs = <<>> /\ dm # "auth"
AtWork   == rq = <<>> /\ dm = "auth" /\ Notices(rs)
Answered ==
  /\ rq = <<>> /\ dm # "auth" /\ rs # <<>>
  /\ \A i \in DOMAIN rs : rs[i] = "Notice" <=> i # Len(rs)

SeamInStep ==
  dm \notin {"away", "owns", "over"} =>
    /\ th \in Waiting => (Unread \/ AtWork \/ Answered)
    /\ th \notin Waiting => (rq = <<>> /\ rs = <<>> /\ dm # "auth")
    /\ th = "await" \/ rq = <<"AuthReply">> => dm = "prompt"

\* A Start that reaches the daemon follows PAM's success on this connection,
\* through the four channels between them: the session gate's refusal for want
\* of a user (ipc.rs:1096-1106) never meets this greeter.
StartsBound == \A i \in DOMAIN rq : rq[i] = "Start" => user

\* "Authentication is in flight (waiting on PAM prompts / verdict)", says the
\* phase Authenticating: while the daemon waits for the user, and nothing is
\* under way to or from the UI, the thread is not at rest.
AttemptInFlight ==
  (/\ up /\ phase = "Authenticating" /\ dm = "prompt"
   /\ ~prompt /\ commands = <<>> /\ inbound = <<>>) => th # "idle"

-----------------------------------------------------------------------------
(***************************************************************************)
(* Liveness, under FairSpec.                                               *)
(***************************************************************************)

\* No request is left unanswered: the thread comes back from every read of a
\* response, in whatever state an abandoned conversation left the daemon.
RequestAnswered == th \in Waiting ~> (th \notin Waiting \/ ~up)

\* Every attempt that reaches the channel leads to a prompt or back out of
\* Authenticating, unless another command was queued before a reply.
OnlyReplies ==
  (th = "await" /\ commands # <<>>) => Head(commands) = "Reply"

Attempted == \E i \in DOMAIN commands : commands[i] = "Authenticate"

AttemptAnswered ==
  []OnlyReplies => (Attempted ~> (prompt \/ phase # "Authenticating" \/ ~up))
=============================================================================
