------------------------------ MODULE LoginSeam ------------------------------
(***************************************************************************)
(* One greeter connection of doord, from the handshake to the end of the   *)
(* session it starts: the connection loop (doord/src/ipc.rs), the login it *)
(* drives over a control socket (pam.rs) and the session worker at the     *)
(* other end (worker.rs), which holds the PAM transaction.                 *)
(*                                                                         *)
(* The peer is any program with the greeter's uid: it may send every frame *)
(* at every moment, pipeline frames, and hang up.  LoginLoop models what   *)
(* surrounds a connection; there its whole conversation is one step.       *)
(***************************************************************************)
EXTENDS Naturals, Sequences

CONSTANTS
  Users,       \* names a BeginAuth can carry; each has a secret of its own
  Nobody,      \* no user
  MaxInFlight, \* bound: frames the peer sent that are not yet read
  MaxPrompts   \* bound: prompts of one PAM conversation

ASSUME SeamAssumption ==
  /\ Nobody \notin Users
  /\ MaxInFlight \in Nat \ {0}
  /\ MaxPrompts \in Nat \ {0}

(***************************************************************************)
(* Frames.  "Other" stands for CancelAuth, the stateless requests and a    *)
(* Hello of another version, which no state of the loop tells apart; Junk  *)
(* for bytes that are no frame, or stall for READ_TIMEOUT before they are. *)
(***************************************************************************)
Request ==
  [t : {"Hello", "Start", "Other", "Junk"}] \cup
  [t : {"BeginAuth"}, user : Users] \cup
  [t : {"AuthReply"}, secret : Users]

Command ==
  [t : {"Cancel", "Start"}] \cup
  [t : {"Auth"}, user : Users] \cup
  [t : {"Reply"}, secret : Users]

Faults   == {"Cancelled", "Transport"}
Verdicts == {"Success", "Failure"} \cup Faults
Event    == {"Prompt", "Started", "StartFailed"} \cup Verdicts

MaybeUser == Users \cup {Nobody}

VARIABLES
  managed,   \* doord manages the greeter (the shipped mode)
  peer,      \* the peer's end of the connection
  inbox,     \* frames the peer sent
  d,         \* where the connection loop is
  asking,    \* the user of the BeginAuth being run
  user,      \* WorkerLogin::username
  down,      \* control socket, daemon to worker
  up,        \* control socket, worker to daemon
  w,         \* where the worker is
  conv,      \* the user of the conversation that runs
  prompts,   \* prompts that conversation has made
  heard,     \* PAM was given conv's secret in it
  fault,     \* ControlConversation::fault
  authed,    \* the user of AuthedSession, or Nobody
  token,     \* AuthedSession::session is Some
  leaked,    \* an open PAM session has no token any more
  running,   \* the user whose session process runs, or Nobody
  proven     \* history: users with a completed conversation that heard
             \* their secret

client == <<managed, peer, inbox>>
daemon == <<d, asking, user>>
talk   == <<conv, prompts, heard, fault>>
login  == <<authed, token, leaked, running>>
worker == <<w, talk, login, proven>>
vars   == <<client, daemon, down, up, worker>>

\* The variables keep their types.
TypeOK ==
  /\ managed \in BOOLEAN
  /\ peer \in {"open", "closed"}
  /\ inbox \in Seq(Request)
  /\ d \in {"Handshake", "Idle", "AuthWait", "Prompt", "StartWait", "Own",
            "Over", "Dead"}
  /\ asking \in MaybeUser /\ user \in MaybeUser
  /\ down \in Seq(Command) /\ up \in Seq(Event)
  /\ w \in {"none", "idle", "pam", "ask", "leading", "gone", "killed"}
  /\ conv \in MaybeUser /\ prompts \in 0..MaxPrompts
  /\ heard \in BOOLEAN
  /\ fault \in Faults \cup {"none"}
  /\ authed \in MaybeUser
  /\ token \in BOOLEAN /\ leaked \in BOOLEAN
  /\ running \in MaybeUser
  /\ proven \in SUBSET Users

Init ==
  /\ managed \in BOOLEAN
  /\ peer = "open" /\ inbox = <<>>
  /\ d = "Handshake" /\ asking = Nobody /\ user = Nobody
  /\ down = <<>> /\ up = <<>>
  /\ w = "none" /\ conv = Nobody /\ prompts = 0 /\ heard = FALSE
  /\ fault = "none"
  /\ authed = Nobody /\ token = FALSE /\ leaked = FALSE /\ running = Nobody
  /\ proven = {}

\* Neither end of the control socket outlives its process; the daemon's is
\* also closed when the connection's login is dropped.
WorkerUp == w \notin {"none", "gone", "killed"}
DaemonUp == d \notin {"Over", "Dead"}

-----------------------------------------------------------------------------
(***************************************************************************)
(* The peer.                                                               *)
(***************************************************************************)
PeerSends ==
  /\ DaemonUp /\ peer = "open" /\ Len(inbox) < MaxInFlight
  /\ \E r \in Request : inbox' = Append(inbox, r)
  /\ UNCHANGED <<managed, peer, daemon, down, up, worker>>

PeerHangsUp ==
  /\ DaemonUp /\ peer = "open"
  /\ peer' = "closed"
  /\ UNCHANGED <<managed, inbox, daemon, down, up, worker>>

-----------------------------------------------------------------------------
(***************************************************************************)
(* The connection loop.                                                    *)
(***************************************************************************)
\* handle_connection returns: the login and with it `username` are dropped.
Ends == d' = "Over" /\ asking' = Nobody /\ user' = Nobody

\* Read the next frame, of one of these types.
Reads(types) ==
  /\ inbox # <<>> /\ Head(inbox).t \in types
  /\ inbox' = Tail(inbox) /\ UNCHANGED <<managed, peer>>

\* The peer hung up and everything it sent has been read.
AtEof == inbox = <<>> /\ peer = "closed" /\ UNCHANGED client

\* Write a response and go on with `u` bound to the login; the write fails
\* once the peer has hung up.
Respond(next, u) ==
  \/ peer = "open" /\ d' = next /\ asking' = Nobody /\ user' = u
  \/ peer = "closed" /\ Ends

\* write_frame on the control socket, which fails once the worker is gone.
Tell(command) == WorkerUp /\ down' = Append(down, command)
Unheard       == ~WorkerUp /\ UNCHANGED down

\* handshake, then the login: a worker, a DeadLogin when none can be had, or
\* no connection at all when its fd cannot be cloned.
Handshake ==
  /\ d = "Handshake" /\ Reads({"Hello"})
  /\ \/ Respond("Idle", Nobody) /\ w' = IF d' = "Idle" THEN "idle" ELSE w
     \/ Respond("Idle", Nobody) /\ w' = "gone"
     \/ Ends /\ UNCHANGED w
  /\ UNCHANGED <<down, up, talk, login, proven>>

\* Any other first frame is refused; so is silence for READ_TIMEOUT.
RefuseHandshake ==
  /\ d = "Handshake"
  /\ \/ Reads({"Other", "Junk", "BeginAuth", "AuthReply", "Start"})
     \/ UNCHANGED client
  /\ Ends
  /\ UNCHANGED <<down, up, worker>>

\* The idle read ends the connection on EOF and on a bad frame.
Disconnects ==
  /\ d = "Idle"
  /\ AtEof \/ Reads({"Junk"})
  /\ Ends
  /\ UNCHANGED <<down, up, worker>>

\* dispatch: answer the stateless requests, refuse stray replies and cancels.
Dispatch ==
  /\ d = "Idle" /\ Reads({"Hello", "Other", "AuthReply"})
  /\ Respond("Idle", user)
  /\ UNCHANGED <<down, up, worker>>

BeginAuth ==
  /\ d = "Idle" /\ Reads({"BeginAuth"})
  /\ LET u == Head(inbox).user IN
       \/ /\ Tell([t |-> "Auth", user |-> u])
          /\ d' = "AuthWait" /\ asking' = u /\ UNCHANGED user
       \/ Unheard /\ Ends
  /\ UNCHANGED <<up, worker>>

\* The Start gate refuses when nobody authenticated on this connection;
\* run_start refuses a session that discovery does not find.
RefuseStart ==
  /\ d = "Idle" /\ Reads({"Start"})
  /\ Respond("Idle", user)
  /\ UNCHANGED <<down, up, worker>>

\* run_start.  A managed greeter is terminated first; that it hangs up then
\* is a PeerHangsUp.
RunStart ==
  /\ d = "Idle" /\ Reads({"Start"})
  /\ user # Nobody
  /\ \/ Tell([t |-> "Start"]) /\ d' = "StartWait" /\ UNCHANGED <<asking, user>>
     \/ Unheard /\ (IF managed THEN Ends ELSE Respond("Idle", user))
  /\ UNCHANGED <<up, worker>>

-----------------------------------------------------------------------------
(***************************************************************************)
(* WorkerLogin::authenticate and run_auth.                                 *)
(***************************************************************************)
Hears(events) ==
  /\ up # <<>> /\ Head(up) \in events
  /\ up' = Tail(up)

\* EOF on the control socket.
WorkerVanished == up = <<>> /\ ~WorkerUp /\ UNCHANGED up

\* Relay a prompt; a peer that is gone cancels the conversation.
RelayPrompt ==
  /\ d = "AuthWait" /\ Hears({"Prompt"})
  /\ \/ peer = "open" /\ d' = "Prompt" /\ UNCHANGED <<down, asking, user>>
     \/ peer = "closed" /\ Ends /\ (Tell([t |-> "Cancel"]) \/ Unheard)
  /\ UNCHANGED <<client, worker>>

\* Relay the reply to it.
RelayReply ==
  /\ d = "Prompt" /\ Reads({"AuthReply"})
  /\ \/ /\ Tell([t |-> "Reply", secret |-> Head(inbox).secret])
        /\ d' = "AuthWait" /\ UNCHANGED <<asking, user>>
     \/ Unheard /\ Ends
  /\ UNCHANGED <<up, worker>>

SwallowFrame ==  \* mutant: the other frame is dropped and nobody is told
  /\ d = "Prompt" /\ Reads({"Hello", "Other", "BeginAuth", "Start"})
  /\ d' = "AuthWait" /\ UNCHANGED <<asking, user>>
  /\ UNCHANGED <<down, up, worker>>

\* Any other frame cancels the conversation, and is lost.
CancelsConversation ==
  /\ d = "Prompt" /\ Reads({"Hello", "Other", "BeginAuth", "Start"})
  /\ Tell([t |-> "Cancel"]) \/ Unheard
  /\ d' = "AuthWait" /\ UNCHANGED <<asking, user>>
  /\ UNCHANGED <<up, worker>>

\* EOF or a bad frame while the user is typing.
PromptBreaks ==
  /\ d = "Prompt" /\ (AtEof \/ Reads({"Junk"}))
  /\ Tell([t |-> "Cancel"]) \/ Unheard
  /\ Ends
  /\ UNCHANGED <<up, worker>>

BindEarly(verdict) == asking  \* mutant: bound whatever the verdict
BindAsked(verdict) == IF verdict = "Success" THEN asking ELSE user

\* The verdict: bind the user, and report it.
Verdict ==
  /\ d = "AuthWait"
  /\ \/ /\ Hears({"Success", "Failure", "Cancelled"})
        /\ Respond("Idle", BindAsked(Head(up)))
     \/ (Hears({"Transport"}) \/ WorkerVanished) /\ Ends
  /\ UNCHANGED <<client, down, worker>>

-----------------------------------------------------------------------------
(***************************************************************************)
(* WorkerLogin::start and the rest of run_start.                           *)
(***************************************************************************)
KeepServing == Respond("Idle", user)  \* mutant: a managed greeter is served on

\* A managed greeter is gone, so a failure ends the connection.
StartDidFail == IF managed THEN Ends ELSE Respond("Idle", user)

StartAnswered ==
  /\ d = "StartWait"
  /\ \/ /\ Hears({"Started"})
        /\ IF managed
             THEN d' = "Own" /\ UNCHANGED <<asking, user>>
             ELSE Respond("Own", user)
     \/ \* the control socket cannot be cloned for the session wait
        Hears({"Started"}) /\ StartDidFail
     \/ (Hears({"StartFailed"}) \/ WorkerVanished) /\ StartDidFail
  /\ UNCHANGED <<client, down, worker>>

\* The session the daemon owns ends; so does the connection.
SessionOver ==
  /\ d = "Own" /\ WorkerVanished
  /\ Ends
  /\ UNCHANGED <<client, down, worker>>

\* doord is killed, or exits for a stop.
DaemonDies ==
  /\ DaemonUp
  /\ d' = "Dead" /\ UNCHANGED <<asking, user>>
  /\ UNCHANGED <<client, down, up, worker>>

-----------------------------------------------------------------------------
(***************************************************************************)
(* The session worker.  AuthedSession's Drop closes the PAM session whose  *)
(* token it holds.                                                         *)
(***************************************************************************)
Obeys(commands) ==
  /\ down # <<>> /\ Head(down).t \in commands
  /\ down' = Tail(down)

\* EOF: the daemon closed its end and everything it wrote has been read.
DaemonVanished == down = <<>> /\ ~DaemonUp /\ UNCHANGED down

Tells(event) == DaemonUp /\ up' = Append(up, event)
NotHeard     == ~DaemonUp /\ UNCHANGED up

\* serve returns and drops `authed`.
WorkerReturns == w' = "gone" /\ token' = FALSE /\ authed' = Nobody

NoTalk == conv' = Nobody /\ prompts' = 0 /\ heard' = FALSE /\ fault' = "none"

\* authenticate; a control socket that cannot be cloned is a transport fault.
BeginConversation ==
  /\ w = "idle" /\ Obeys({"Auth"})
  /\ w' = "pam" /\ conv' = Head(down).user
  /\ fault' \in {"none", "Transport"}
  /\ UNCHANGED <<prompts, heard>>
  /\ UNCHANGED <<client, daemon, up, login, proven>>

\* ControlConversation::ask, up to the read.
Ask ==
  /\ w = "pam" /\ fault = "none" /\ prompts < MaxPrompts
  /\ prompts' = prompts + 1
  /\ \/ Tells("Prompt") /\ w' = "ask" /\ UNCHANGED fault
     \/ NotHeard /\ fault' = "Transport" /\ UNCHANGED w
  /\ UNCHANGED <<client, daemon, down, conv, heard, login, proven>>

WaitForReply ==  \* mutant: the end of the daemon's socket is not noticed
  /\ w = "ask" /\ w' = "pam"
  /\ \/ /\ Obeys({"Reply"}) /\ UNCHANGED fault
        /\ heard' = (heard \/ Head(down).secret = conv)
     \/ Obeys({"Cancel"}) /\ fault' = "Cancelled" /\ UNCHANGED heard
  /\ UNCHANGED <<client, daemon, up, conv, prompts, login, proven>>

\* ... and what it reads: the reply, a cancel, or the daemon's end closing.
HearReply ==
  /\ w = "ask" /\ w' = "pam"
  /\ \/ /\ Obeys({"Reply"}) /\ UNCHANGED fault
        /\ heard' = (heard \/ Head(down).secret = conv)
     \/ Obeys({"Cancel"}) /\ fault' = "Cancelled" /\ UNCHANGED heard
     \/ DaemonVanished /\ fault' = "Transport" /\ UNCHANGED heard
  /\ UNCHANGED <<client, daemon, up, conv, prompts, login, proven>>

TrustPam(accepted) ==  \* mutant: a fault does not override PAM
  IF accepted THEN "Success" ELSE IF fault # "none" THEN fault ELSE "Failure"

\* pam_authenticate and pam_acct_mgmt return.  PAM accepts a user only with
\* that user's secret; a fault overrides what PAM says.
AuthVerdict(accepted) ==
  IF fault # "none" THEN fault ELSE IF accepted THEN "Success" ELSE "Failure"

EndConversation ==
  /\ w = "pam" /\ NoTalk
  /\ \E accepted \in {FALSE, heard} :
       LET verdict == AuthVerdict(accepted) IN
       /\ proven' = IF heard /\ fault = "none" /\ accepted
                      THEN proven \cup {conv} ELSE proven
       /\ \/ /\ Tells(verdict) /\ w' = "idle"
             /\ IF verdict = "Success"
                  THEN authed' = conv /\ token' = FALSE
                  ELSE UNCHANGED <<authed, token>>
          \/ NotHeard /\ WorkerReturns
  /\ UNCHANGED <<client, daemon, down, leaked, running>>

\* start_session: the user cannot be resolved or pam_open_session fails; the
\* launch fails after it, leaving the session open; or the session runs.
StartSession ==
  /\ w = "idle" /\ Obeys({"Start"})
  /\ \/ /\ Tells("StartFailed") \/ NotHeard
        /\ UNCHANGED <<w, login>>
     \/ /\ authed # Nobody
        /\ leaked' = (leaked \/ token) /\ token' = TRUE
        /\ Tells("StartFailed") \/ NotHeard
        /\ UNCHANGED <<w, authed, running>>
     \/ /\ authed # Nobody
        /\ leaked' = (leaked \/ token) /\ running' = authed
        /\ \/ Tells("Started") /\ w' = "leading" /\ token' = TRUE
                               /\ UNCHANGED authed
           \/ NotHeard /\ WorkerReturns
  /\ UNCHANGED <<client, daemon, talk, proven>>

\* The session's process exits, and with it the worker that led it.
SessionEnds ==
  /\ running # Nobody /\ running' = Nobody
  /\ IF w = "leading" THEN WorkerReturns ELSE UNCHANGED <<w, token, authed>>
  /\ UNCHANGED <<client, daemon, down, up, talk, leaked, proven>>

\* An idle worker whose daemon closed the control socket.
WorkerLeaves ==
  /\ w = "idle" /\ DaemonVanished
  /\ WorkerReturns
  /\ UNCHANGED <<client, daemon, up, talk, leaked, running, proven>>

\* The worker is killed: nothing is dropped.
WorkerDies ==
  /\ WorkerUp /\ w' = "killed"
  /\ UNCHANGED <<client, daemon, down, up, talk, login, proven>>

-----------------------------------------------------------------------------
DaemonStep ==
  \/ Handshake \/ RefuseHandshake \/ Disconnects \/ Dispatch \/ BeginAuth
  \/ RefuseStart \/ RunStart
  \/ RelayPrompt \/ RelayReply \/ CancelsConversation \/ PromptBreaks
  \/ Verdict \/ StartAnswered \/ SessionOver

WorkerStep ==
  \/ BeginConversation \/ Ask \/ HearReply \/ EndConversation
  \/ StartSession \/ WorkerLeaves

Environment ==
  PeerSends \/ PeerHangsUp \/ DaemonDies \/ SessionEnds \/ WorkerDies

Next == DaemonStep \/ WorkerStep \/ Environment

Spec == Init /\ [][Next]_vars

\* Both processes run; PAM and the start of a session return.  The peer, the
\* session and whoever kills a process promise nothing.
FairSpec == Spec /\ WF_vars(DaemonStep) /\ WF_vars(WorkerStep)

-----------------------------------------------------------------------------
(***************************************************************************)
(* Safety.                                                                 *)
(***************************************************************************)

\* Repeated conversations for different users, failures and cancels in
\* between: when the daemon can honour a Start, or has, the user it gates on
\* is the user in the worker's PAM context (pam.rs `username`, worker.rs
\* `authed`).
IdentityBound ==
  d \in {"Idle", "Prompt", "StartWait", "Own"} /\ WorkerUp => user = authed

\* A session runs only for a user whose secret PAM accepted in a conversation
\* that nobody cancelled and no transport broke.
SessionWasProven ==
  running # Nobody => running \in proven

\* The two ends of the control socket never wait for each other, and a reply
\* or a cancel is only ever under way to a worker that asked: the arms for
\* stray commands (worker.rs serve) and stray events (pam.rs) are never taken.
InStep ==
  /\ d \in {"AuthWait", "StartWait"} /\ up = <<>> /\ down = <<>>
       => w \in {"pam", "leading", "gone", "killed"}
  /\ d = "Prompt" /\ WorkerUp => w = "ask" /\ down = <<>>
  /\ WorkerUp /\ w # "ask"
       => \A i \in 1..Len(down) : down[i].t \notin {"Reply", "Cancel"}
  /\ d = "AuthWait" => \A i \in 1..Len(up) : up[i] \in Verdicts \cup {"Prompt"}
  /\ d = "StartWait" =>
       \A i \in 1..Len(up) : up[i] \in {"Started", "StartFailed"}

\* A worker that returns leaves no session process behind, unless its daemon
\* died, and with a managed greeter every PAM session it opened is closed.
\* (Without one a second Start after a failed launch overwrites the token.)
NothingLeftOpen ==
  w = "gone" => /\ d # "Dead" => running = Nobody
                /\ managed => ~token /\ ~leaked

-----------------------------------------------------------------------------
(***************************************************************************)
(* Liveness, under FairSpec.                                               *)
(***************************************************************************)

\* An authentication in progress comes to a prompt or to its end, unless the
\* worker leads a session.
ConversationSettles ==
  d = "AuthWait" ~> (d # "AuthWait" \/ w = "leading")

\* A dropped login never leaves a worker behind, but to lead a session.
WorkerReaped ==
  ~DaemonUp ~> (~WorkerUp \/ w = "leading")

-----------------------------------------------------------------------------
(***************************************************************************)
(* The abstract promise, of the user the daemon gates on.                  *)
(***************************************************************************)
Gate == INSTANCE LoginGate WITH bound <- user

\* What runs is what the daemon's gate let through, and runs as that user.
HonoursGate == Gate!Spec
=============================================================================
