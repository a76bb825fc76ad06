------------------------------- MODULE Reauth -------------------------------
(***************************************************************************)
(* The reauthentication service of doord (doord/src/reauth.rs): one        *)
(* listener thread that serves one connection at a time and verifies the   *)
(* secret of the connecting peer's own user, through a session worker that *)
(* is only ever told to authenticate (worker.rs; LoginSeam models the same *)
(* worker at the login).                                                   *)
(*                                                                         *)
(* A connection is one of the slots Conns, which is used again once both   *)
(* of its ends are closed.  The peers here are any programs of any user:   *)
(* they send every request at every moment and hang up.  LockScreen puts   *)
(* the lock screen in the place of one of them.                            *)
(***************************************************************************)
EXTENDS Naturals, Sequences

CONSTANTS
  Conns,       \* bound: slots for connections
  Users,       \* the users with a passwd entry; each has a secret of its own
  Unknown,     \* a uid without one
  Owner,       \* the user SO_PEERCRED's uid resolves to, of each slot
  Capacity,    \* frames for the peer that a connection's socket buffer holds
  MaxInFlight, \* bound: frames of an arbitrary peer the service has not read
  MaxMessages  \* bound: prompts and notices of one PAM conversation

ASSUME ReauthAssumption ==
  /\ Unknown \notin Users
  /\ Owner \in [Conns -> Users \cup {Unknown}]
  /\ Capacity \in Nat \ {0}
  /\ MaxInFlight \in Nat /\ MaxMessages \in Nat

(***************************************************************************)
(* Junk stands for bytes that are no frame.  A Hello of another version is *)
(* what Junk is before the handshake, and what Hello is after it.  To a    *)
(* peer a response that ends the connection is the same as its end, so     *)
(* only Stray, which does not end it, is kept of the error responses.      *)
(***************************************************************************)
Request ==
  [t : {"Hello", "Begin", "Cancel", "Junk"}] \cup
  [t : {"Reply"}, secret : Users]

Response == {"Welcome", "Prompt", "Notice", "Allow", "Deny", "Stray"}

Command == [t : {"Auth", "Cancel"}] \cup [t : {"Reply"}, secret : Users]
Faults  == {"Cancelled", "Transport"}
Event   == {"Prompt", "Info", "Success", "Failure"} \cup Faults

VARIABLES
  link,      \* the service's end of each connection
  backlog,   \* connections the listener has not accepted yet, oldest first
  open,      \* the peer's end of each connection
  inbox,     \* frames the peer sent and the service has not read
  outbox,    \* frames the service sent and the peer has not read
  s,         \* where the listener thread is
  down,      \* control socket, service to worker
  up,        \* control socket, worker to service
  w,         \* where the worker of the attempt is
  messages,  \* prompts and notices the conversation has made
  heard,     \* PAM was given the secret of the conversation's user
  fault,     \* ControlConversation::fault
  proven     \* history: connections whose last attempt PAM accepted, in a
             \* conversation that nobody cancelled and that heard the secret

wire   == <<link, backlog, open, inbox, outbox>>
worker == <<down, up, w, messages, heard, fault>>
reauth == <<wire, s, worker, proven>>

\* The variables keep their types.
ReauthTypeOK ==
  /\ link \in [Conns -> {"free", "queued", "served", "ended"}]
  /\ backlog \in Seq(Conns)
  /\ open \in [Conns -> BOOLEAN]
  /\ inbox \in [Conns -> Seq(Request)]
  /\ outbox \in [Conns -> Seq(Response)]
  /\ s \in {"Accept", "Handshake", "Between", "AuthWait", "Reply", "Down"}
  /\ down \in Seq(Command) /\ up \in Seq(Event)
  /\ w \in {"none", "idle", "pam", "ask", "gone"}
  /\ messages \in 0..MaxMessages
  /\ heard \in BOOLEAN
  /\ fault \in Faults \cup {"none"}
  /\ proven \in SUBSET Conns

NoWorker ==
  /\ down = <<>> /\ up = <<>> /\ w = "none"
  /\ messages = 0 /\ heard = FALSE /\ fault = "none"

ReauthInit ==
  /\ link = [k \in Conns |-> "free"]
  /\ backlog = <<>>
  /\ open = [k \in Conns |-> FALSE]
  /\ inbox = [k \in Conns |-> <<>>] /\ outbox = [k \in Conns |-> <<>>]
  /\ s = "Accept"
  /\ NoWorker
  /\ proven = {}

-----------------------------------------------------------------------------
(***************************************************************************)
(* A peer's side of a connection.                                          *)
(***************************************************************************)
Live(k) == link[k] \in {"queued", "served"}

\* connect(2), with the first frame already written.
Connect(k, frames) ==
  /\ s # "Down" /\ link[k] = "free"
  /\ link' = [link EXCEPT ![k] = "queued"]
  /\ backlog' = Append(backlog, k)
  /\ open' = [open EXCEPT ![k] = TRUE]
  /\ inbox' = [inbox EXCEPT ![k] = frames]
  /\ proven' = proven \ {k}
  /\ UNCHANGED outbox

Send(k, r) ==
  /\ open[k] /\ Live(k)
  /\ inbox' = [inbox EXCEPT ![k] = Append(@, r)]
  /\ UNCHANGED <<link, backlog, open, outbox>>

Receive(k, r) ==
  /\ open[k] /\ outbox[k] # <<>> /\ r = Head(outbox[k])
  /\ outbox' = [outbox EXCEPT ![k] = Tail(@)]
  /\ UNCHANGED <<link, backlog, open, inbox>>

\* The service closed its end and all it wrote has been read.
ServiceVanished(k) == link[k] = "ended" /\ outbox[k] = <<>>

\* What it sent can still be read; what was sent to it is lost.
HangUp(k) ==
  /\ open[k]
  /\ open' = [open EXCEPT ![k] = FALSE]
  /\ link' = [link EXCEPT ![k] = IF @ = "ended" THEN "free" ELSE @]
  /\ outbox' = [outbox EXCEPT ![k] = <<>>]
  /\ UNCHANGED <<backlog, inbox>>

-----------------------------------------------------------------------------
(***************************************************************************)
(* The listener thread: serve_reauth and handle_reauth_connection.         *)
(***************************************************************************)
Serving(k) == link[k] = "served"

\* WorkerReauth::drop: the control socket is closed.  A worker that is still
\* in PAM fails its next read or write of it, and an idle one exits.
DropWorker ==
  /\ down' = <<>> /\ up' = <<>> /\ w' = "none"
  /\ messages' = 0 /\ heard' = FALSE /\ fault' = "none"

\* handle_reauth_connection returns, or the process dies with connections.
Close(ks) ==
  /\ link' = [k \in Conns |->
                IF k \notin ks THEN link[k]
                ELSE IF open[k] THEN "ended" ELSE "free"]
  /\ inbox' = [k \in Conns |-> IF k \in ks THEN <<>> ELSE inbox[k]]

Ends(k) ==
  /\ Close({k}) /\ s' = "Accept" /\ DropWorker
  /\ UNCHANGED <<backlog, open, outbox>>

Accept ==
  /\ s = "Accept" /\ backlog # <<>>
  /\ s' = "Handshake"
  /\ link' = [link EXCEPT ![Head(backlog)] = "served"]
  /\ backlog' = Tail(backlog)
  /\ UNCHANGED <<open, inbox, outbox, worker, proven>>

Reads(k, types) ==
  /\ Serving(k)
  /\ inbox[k] # <<>> /\ Head(inbox[k]).t \in types
  /\ inbox' = [inbox EXCEPT ![k] = Tail(@)]

\* The peer is gone, or sent nothing until the read timed out.
Silent(k) == Serving(k) /\ inbox[k] = <<>>

\* Only the reads have a timeout: a write waits for as long as the buffer is
\* full, which is until the peer reads or hangs up.
HasRoom(k) == Len(outbox[k]) < Capacity

\* Write a response and go on; the write fails once the peer has hung up.
Answer(k, r) ==
  /\ open[k] /\ HasRoom(k)
  /\ outbox' = [outbox EXCEPT ![k] = Append(@, r)]
  /\ UNCHANGED <<link, backlog, open>>
Unanswerable(k) == ~open[k]

\* A frame that can be read and a response to it.
Exchange(k, types, r) ==
  /\ Serving(k) /\ inbox[k] # <<>> /\ Head(inbox[k]).t \in types
  /\ \/ Reads(k, types) /\ Answer(k, r) /\ s' = "Between" /\ UNCHANGED worker
     \/ Unanswerable(k) /\ Ends(k)

\* Read a frame of one of these types, or nothing at all, and hang up.
GivesUp(k, types) ==
  /\ \/ Silent(k)
     \/ Serving(k) /\ inbox[k] # <<>> /\ Head(inbox[k]).t \in types
  /\ Ends(k)

Welcome(k) ==
  /\ s = "Handshake" /\ Exchange(k, {"Hello"}, "Welcome")
  /\ UNCHANGED proven

RefuseHandshake(k) ==
  /\ s = "Handshake" /\ GivesUp(k, {"Begin", "Cancel", "Reply", "Junk"})
  /\ UNCHANGED proven

\* Junk is answered with an error before the service hangs up.
Disconnect(k) ==
  /\ s = "Between"
  /\ GivesUp(k, {"Junk"}) /\ (Silent(k) \/ HasRoom(k) \/ Unanswerable(k))
  /\ UNCHANGED proven

\* A second Hello is welcomed again, a cancel is a no-op, a reply is stray.
BetweenAttempts(k) ==
  /\ s = "Between"
  /\ \/ Exchange(k, {"Hello"}, "Welcome")
     \/ Exchange(k, {"Reply"}, "Stray")
     \/ Reads(k, {"Cancel"})
        /\ UNCHANGED <<link, backlog, open, outbox, s, worker>>
  /\ UNCHANGED proven

\* An attempt begins with a worker of its own.
Begin(k) ==
  /\ s = "Between" /\ Reads(k, {"Begin"})
  /\ Owner[k] # Unknown
  /\ s' = "AuthWait" /\ w' = "idle"
  /\ down' = <<[t |-> "Auth"]>> /\ up' = <<>>
  /\ messages' = 0 /\ heard' = FALSE /\ fault' = "none"
  /\ proven' = proven \ {k}
  /\ UNCHANGED <<link, backlog, open, outbox>>

\* An unknown uid, no worker to be had, or one that vanished at once: denied.
DenyOutright(k) ==
  /\ s = "Between" /\ Exchange(k, {"Begin"}, "Deny")
  /\ proven' = proven \ {k}

-----------------------------------------------------------------------------
(***************************************************************************)
(* WorkerReauth::reauthenticate: relay the conversation to the peer.       *)
(***************************************************************************)
WorkerUp == w \notin {"none", "gone"}

Hears(k, events) ==
  /\ s = "AuthWait" /\ Serving(k)
  /\ up # <<>> /\ Head(up) \in events
WorkerVanished(k) ==
  s = "AuthWait" /\ Serving(k) /\ up = <<>> /\ ~WorkerUp

\* Write to the worker, which fails once it is gone.
Tell(command) == down' = IF WorkerUp THEN Append(down, command) ELSE down

RelayPrompt(k) ==
  /\ Hears(k, {"Prompt"})
  /\ \/ /\ Answer(k, "Prompt") /\ s' = "Reply" /\ up' = Tail(up)
        /\ UNCHANGED <<inbox, down, w, messages, heard, fault>>
     \/ Unanswerable(k) /\ Ends(k)
  /\ UNCHANGED proven

\* The result of writing a notice is ignored.
RelayNotice(k) ==
  /\ Hears(k, {"Info"})
  /\ up' = Tail(up)
  /\ \/ Answer(k, "Notice")
     \/ Unanswerable(k) /\ UNCHANGED <<link, backlog, open, outbox>>
  /\ UNCHANGED <<inbox, s, down, w, messages, heard, fault, proven>>

RelayReply(k) ==
  /\ s = "Reply" /\ Reads(k, {"Reply"})
  /\ WorkerUp
  /\ Tell([t |-> "Reply", secret |-> Head(inbox[k]).secret])
  /\ s' = "AuthWait"
  /\ UNCHANGED <<link, backlog, open, outbox>>
  /\ UNCHANGED <<up, w, messages, heard, fault, proven>>

\* The worker is gone, so the reply is denied.
DenyReply(k) ==
  /\ s = "Reply" /\ ~WorkerUp
  /\ Serving(k) /\ inbox[k] # <<>> /\ Head(inbox[k]).t = "Reply"
  /\ \/ /\ Reads(k, {"Reply"}) /\ Answer(k, "Deny")
        /\ s' = "Between" /\ DropWorker
     \/ Unanswerable(k) /\ Ends(k)
  /\ UNCHANGED proven

RelayCancelQuietly(k) ==  \* mutant: the worker is not told
  /\ s = "Reply" /\ Reads(k, {"Cancel"})
  /\ s' = "AuthWait"
  /\ UNCHANGED <<link, backlog, open, outbox, worker, proven>>

RelayCancel(k) ==
  /\ s = "Reply" /\ Reads(k, {"Cancel"})
  /\ Tell([t |-> "Cancel"])
  /\ s' = "AuthWait"
  /\ UNCHANGED <<link, backlog, open, outbox>>
  /\ UNCHANGED <<up, w, messages, heard, fault, proven>>

WaitForEver(k) == FALSE  \* mutant of PromptBreaks: no reply timeout, no EOF

\* Any other frame, the end of the connection or the reply timeout.
PromptBreaks(k) ==
  /\ s = "Reply" /\ GivesUp(k, {"Hello", "Begin", "Junk"})
  /\ UNCHANGED proven

AllowUnlessFailed(event) ==  \* mutant: a fault allows
  IF event = "Failure" THEN "Deny" ELSE "Allow"

\* ReauthOutcome::from: only a success allows.
Outcome(event) == IF event = "Success" THEN "Allow" ELSE "Deny"

Verdict(k) ==
  /\ Hears(k, {"Success", "Failure"} \cup Faults)
  /\ \/ /\ Answer(k, Outcome(Head(up)))
        /\ s' = "Between" /\ DropWorker /\ UNCHANGED inbox
     \/ Unanswerable(k) /\ Ends(k)
  /\ UNCHANGED proven

DenyVanished(k) ==
  /\ WorkerVanished(k)
  /\ \/ /\ Answer(k, "Deny")
        /\ s' = "Between" /\ DropWorker /\ UNCHANGED inbox
     \/ Unanswerable(k) /\ Ends(k)
  /\ UNCHANGED proven

-----------------------------------------------------------------------------
(***************************************************************************)
(* The attempt's worker, as long as the service holds its control socket.  *)
(***************************************************************************)
Obeys(commands) ==
  /\ down # <<>> /\ Head(down).t \in commands
  /\ down' = Tail(down)

BeginConversation ==
  /\ w = "idle" /\ Obeys({"Auth"})
  /\ w' = "pam" /\ fault' \in {"none", "Transport"}
  /\ UNCHANGED <<wire, s, up, messages, heard, proven>>

Ask ==
  /\ w = "pam" /\ fault = "none" /\ messages < MaxMessages
  /\ messages' = messages + 1
  /\ up' = Append(up, "Prompt") /\ w' = "ask"
  /\ UNCHANGED <<wire, s, down, heard, fault, proven>>

Notify ==
  /\ w = "pam" /\ fault = "none" /\ messages < MaxMessages
  /\ messages' = messages + 1
  /\ up' = Append(up, "Info")
  /\ UNCHANGED <<wire, s, down, w, heard, fault, proven>>

HearReply(k) ==
  /\ Serving(k) /\ w = "ask" /\ w' = "pam"
  /\ \/ /\ Obeys({"Reply"}) /\ UNCHANGED fault
        /\ heard' = (heard \/ Head(down).secret = Owner[k])
     \/ Obeys({"Cancel"}) /\ fault' = "Cancelled" /\ UNCHANGED heard
  /\ UNCHANGED <<wire, s, up, messages, proven>>

\* A fault overrides what PAM says.
EndConversation(k) ==
  /\ Serving(k) /\ w = "pam" /\ w' = "idle"
  /\ \E accepted \in {FALSE, heard} :
       /\ up' = Append(up, IF fault # "none" THEN fault
                           ELSE IF accepted THEN "Success" ELSE "Failure")
       /\ proven' = IF fault = "none" /\ accepted THEN proven \cup {k}
                                                  ELSE proven
  /\ UNCHANGED <<wire, s, down, messages, heard, fault>>

WorkerDies ==
  /\ WorkerUp /\ w' = "gone"
  /\ UNCHANGED <<wire, s, down, up, messages, heard, fault, proven>>

-----------------------------------------------------------------------------
\* doord dies and is started again: every connection is closed.
ServiceDies ==
  /\ s # "Down" /\ s' = "Down"
  /\ Close({k \in Conns : Live(k)})
  /\ backlog' = <<>>
  /\ DropWorker
  /\ UNCHANGED <<open, outbox, proven>>

ServiceReturns ==
  /\ s = "Down" /\ s' = "Accept"
  /\ UNCHANGED <<wire, worker, proven>>

\* Any program of any user, on a connection it made itself.
PeerConnects(k) ==
  /\ Connect(k, <<>>)
  /\ UNCHANGED <<s, worker>>

PeerSends(k) ==
  /\ Len(inbox[k]) < MaxInFlight
  /\ \E r \in Request : Send(k, r)
  /\ UNCHANGED <<s, worker, proven>>

PeerReceives(k) ==
  /\ \E r \in Response : Receive(k, r)
  /\ UNCHANGED <<s, worker, proven>>

PeerHangsUp(k) == HangUp(k) /\ UNCHANGED <<s, worker, proven>>

Peer(k) ==
  PeerConnects(k) \/ PeerSends(k) \/ PeerReceives(k) \/ PeerHangsUp(k)

ServiceStep ==
  \/ Accept
  \/ \E k \in Conns :
       \/ Welcome(k) \/ RefuseHandshake(k) \/ Disconnect(k)
       \/ BetweenAttempts(k) \/ Begin(k) \/ DenyOutright(k)
       \/ RelayPrompt(k) \/ RelayNotice(k) \/ RelayReply(k) \/ DenyReply(k)
       \/ RelayCancel(k) \/ PromptBreaks(k) \/ Verdict(k) \/ DenyVanished(k)

WorkerStep ==
  \/ BeginConversation \/ Ask \/ Notify
  \/ \E k \in Conns : HearReply(k) \/ EndConversation(k)

Faulty == WorkerDies \/ ServiceDies \/ ServiceReturns

ReauthNext ==
  ServiceStep \/ WorkerStep \/ Faulty \/ (\E k \in Conns : Peer(k))

ReauthSpec == ReauthInit /\ [][ReauthNext]_reauth

-----------------------------------------------------------------------------
(***************************************************************************)
(* Safety.                                                                 *)
(***************************************************************************)

\* The service allows a connection only when PAM has just accepted, in an
\* unbroken conversation on that connection, the secret of the peer's own
\* user: never for another user's secret, an earlier attempt, a fault or a
\* worker that vanished.
AllowsOnlyProven ==
  [][\A k \in Conns :
       Len(outbox[k]') > Len(outbox[k]) /\ outbox[k]'[Len(outbox[k]')] = "Allow"
         => Serving(k) /\ k \in proven]_reauth

\* The service and the worker of its attempt never wait for each other, and a
\* frame between them is one that the other end is there to read: a reply or a
\* cancel goes to a worker that asked, an order to one that has none, and the
\* worker says nothing after a prompt or a verdict.  So the arm for another
\* event (reauth.rs:247) and the worker's for another command are never taken,
\* and the service, which is waiting for the peer when it reads nothing from
\* its worker, cannot miss a verdict.
VerifierInStep ==
  /\ s = "AuthWait" /\ up = <<>> /\ down = <<>> => w \in {"pam", "gone"}
  /\ s = "Reply" => up = <<>> /\ (WorkerUp => w = "ask" /\ down = <<>>)
  /\ WorkerUp => \A i \in 1..Len(down) :
       down[i].t \in IF w = "ask" THEN {"Reply", "Cancel"} ELSE {"Auth"}
  /\ \A i \in 1..(Len(up) - 1) : up[i] = "Info"

-----------------------------------------------------------------------------
(***************************************************************************)
(* Liveness.                                                               *)
(***************************************************************************)

\* From some moment on the peer sends nothing.
GoesQuiet(k) == <>[][Len(inbox[k]') <= Len(inbox[k])]_reauth

\* reauth.rs:52-61: a peer that stalls, before an attempt or while PAM waits
\* for it, cannot pin the listener.  That is so of a peer that reads what is
\* written to it.  One that sends requests, goes quiet and reads no answer
\* leaves the listener in a write, which has no timeout; HasRoom is the
\* premise that excludes it, and that the comment does not state.
StalledPeerDropped ==
  \A k \in Conns :
    GoesQuiet(k) /\ []<>HasRoom(k) => []<>(~Serving(k))
=============================================================================
