----------------------------- MODULE LockScreen -----------------------------
(***************************************************************************)
(* door-lock: the UI thread (door-lock/src/app.rs, `update`), its worker   *)
(* thread (`worker_loop`) with its end of the reauth socket (client.rs),   *)
(* and the reauthentication service they talk to (Reauth).  Between the    *)
(* two threads run a channel of commands and a channel of messages.        *)
(*                                                                         *)
(* The locker uses the slots Mine, one connection per attempt; the other   *)
(* slots belong to programs that do as they like.                          *)
(***************************************************************************)
EXTENDS Reauth, FiniteSets

CONSTANTS
  Mine,    \* the slots of the locker's connections
  Me,      \* the user who locked the session
  Empty,   \* an empty input field
  Nowhere  \* no connection

ASSUME LockAssumption ==
  /\ Me \in Users /\ Empty \notin Users /\ Nowhere \notin Conns
  /\ Mine \subseteq Conns /\ \A k \in Mine : Owner[k] = Me

Texts    == Users \cup {Empty}  \* what a field holds: somebody's secret
Commands == [t : {"Authenticate"}] \cup [t : {"Reply"}, secret : Users]
Messages == {"Ready", "Prompt", "Notice", "Succeeded", "Failed", "Error"}

VARIABLES
  phase,    \* State::phase
  ready,    \* State::cmd_tx is Some
  field,    \* State::password
  prompt,   \* State::prompt is Some
  cue,      \* State::cue is Some
  commands, \* the mpsc channel to the worker thread
  inbound,  \* the messages on their way to `update`
  th,       \* where the worker thread is
  lc,       \* the connection it holds
  locked,   \* the compositor's session lock
  proof     \* history: the success on its way to the lock was proven

ui    == <<phase, ready, field, prompt, cue, locked>>
links == <<commands, inbound>>
lock  == <<ui, links, th, lc, proof>>
vars  == <<reauth, lock>>

LockTypeOK ==
  /\ phase \in {"Locked", "Authenticating", "Unlocking"}
  /\ ready \in BOOLEAN /\ prompt \in BOOLEAN /\ cue \in BOOLEAN
  /\ field \in Texts
  /\ commands \in Seq(Commands) /\ inbound \in Seq(Messages)
  /\ th \in {"idle", "hello", "begin", "recv", "await"}
  /\ lc \in Mine \cup {Nowhere}
  /\ locked \in BOOLEAN /\ proof \in BOOLEAN

\* The variables keep their types.
TypeOK == ReauthTypeOK /\ LockTypeOK

Init ==
  /\ ReauthInit
  /\ phase = "Locked" /\ ready = FALSE /\ field = Empty
  /\ prompt = FALSE /\ cue = FALSE
  /\ commands = <<>> /\ inbound = <<"Ready">>
  /\ th = "idle" /\ lc = Nowhere
  /\ locked = TRUE /\ proof = FALSE

-----------------------------------------------------------------------------
(***************************************************************************)
(* The UI thread: `update`, one message at a time.                         *)
(***************************************************************************)
Takes(m) == inbound # <<>> /\ Head(inbound) = m /\ inbound' = Tail(inbound)

\* State::send, which has nowhere to send to until the worker is ready.
SendCommand(c) == commands' = IF ready THEN Append(commands, c) ELSE commands

TakeReady ==
  /\ locked /\ Takes("Ready")
  /\ ready' = TRUE
  /\ UNCHANGED <<phase, field, prompt, cue, locked, commands>>
  /\ UNCHANGED <<reauth, th, lc, proof>>

\* The typed password answers a secret prompt; any other is shown.
TakePrompt ==
  /\ locked /\ Takes("Prompt")
  /\ cue' = FALSE
  /\ \E secret \in BOOLEAN :
       /\ IF secret /\ field # Empty
            THEN /\ SendCommand([t |-> "Reply", secret |-> field])
                 /\ field' = Empty /\ UNCHANGED prompt
            ELSE prompt' = TRUE /\ UNCHANGED <<field, commands>>
  /\ UNCHANGED <<phase, ready, locked, reauth, th, lc, proof>>

TakeNotice ==
  /\ locked /\ Takes("Notice")
  /\ cue' = (cue \/ (phase = "Authenticating" /\ ~prompt))
  /\ UNCHANGED <<phase, ready, field, prompt, locked, commands>>
  /\ UNCHANGED <<reauth, th, lc, proof>>

\* A verdict, or an error, which ends the attempt just as well.
TakeVerdict ==
  /\ locked
  /\ \/ Takes("Succeeded") /\ phase' = "Unlocking"
     \/ (Takes("Failed") \/ Takes("Error")) /\ phase' = "Locked"
  /\ field' = Empty /\ prompt' = FALSE /\ cue' = FALSE
  /\ UNCHANGED <<ready, locked, commands, reauth, th, lc, proof>>

\* The session-lock shell takes the UnLock task: unlock and exit.
ShellUnlocks ==
  /\ locked /\ phase = "Unlocking"
  /\ locked' = FALSE /\ proof' = FALSE
  /\ UNCHANGED <<phase, ready, field, prompt, cue>>
  /\ UNCHANGED <<reauth, links, th, lc>>

\* The unlock form is on the screen whenever no prompt and no cue is.
FormShown == locked /\ ~prompt /\ ~cue

EditPassword ==
  /\ FormShown
  /\ \E text \in Texts : field' = text
  /\ UNCHANGED <<phase, ready, prompt, cue, locked, links>>
  /\ UNCHANGED <<reauth, th, lc, proof>>

PressAnyTime ==  \* mutant of PressUnlock: no look at the phase
  /\ FormShown
  /\ phase' = "Authenticating"
  /\ SendCommand([t |-> "Authenticate"])
  /\ UNCHANGED <<ready, field, prompt, cue, locked, inbound>>
  /\ UNCHANGED <<reauth, th, lc, proof>>

PressUnlock ==
  /\ FormShown /\ phase = "Locked"
  /\ phase' = "Authenticating"
  /\ SendCommand([t |-> "Authenticate"])
  /\ UNCHANGED <<ready, field, prompt, cue, locked, inbound>>
  /\ UNCHANGED <<reauth, th, lc, proof>>

\* The prompt's own field, edited and submitted.
SubmitPrompt ==
  /\ locked /\ prompt
  /\ prompt' = FALSE
  /\ \E text \in Users : SendCommand([t |-> "Reply", secret |-> text])
  /\ UNCHANGED <<phase, ready, field, cue, locked, inbound>>
  /\ UNCHANGED <<reauth, th, lc, proof>>

-----------------------------------------------------------------------------
(***************************************************************************)
(* The worker thread: worker_loop and run_conversation.  Their arms for a  *)
(* reply outside a conversation and for an attempt inside one are left     *)
(* out: LockInStep shows that no such command ever arrives.                *)
(***************************************************************************)
Ordered(t) == commands # <<>> /\ Head(commands).t = t
TakeOrder  == commands' = Tail(commands)
Emit(m)    == inbound' = Append(inbound, m)

Returns == th' = "idle" /\ lc' = Nowhere

\* The client is dropped, and with it the connection.
Abandon == HangUp(lc) /\ Returns

FreeSlots == {k \in Mine : link[k] = "free"}

\* A fresh connection for each attempt, or none.
Dial ==
  /\ th = "idle" /\ Ordered("Authenticate") /\ TakeOrder
  /\ \/ /\ FreeSlots # {}
        /\ LET k == CHOOSE k \in FreeSlots : TRUE IN
             Connect(k, <<[t |-> "Hello"]>>) /\ lc' = k
        /\ th' = "hello" /\ UNCHANGED inbound
     \/ Emit("Error") /\ UNCHANGED <<wire, proven, th, lc>>
  /\ UNCHANGED <<s, worker, ui, proof>>

\* The handshake, and Client::begin.
Welcomed ==
  /\ th = "hello" /\ Receive(lc, "Welcome")
  /\ th' = "begin"
  /\ UNCHANGED <<s, worker, proven, ui, links, lc, proof>>

BeginAttempt ==
  /\ th = "begin" /\ Send(lc, [t |-> "Begin"])
  /\ th' = "recv"
  /\ UNCHANGED <<s, worker, proven, ui, links, lc, proof>>

\* A question is passed on, and the thread waits for the UI's reply.
PassPrompt ==
  /\ th = "recv" /\ Receive(lc, "Prompt")
  /\ Emit("Prompt") /\ th' = "await"
  /\ UNCHANGED <<s, worker, proven, ui, commands, lc, proof>>

PassNotice ==
  /\ th = "recv" /\ Receive(lc, "Notice")
  /\ Emit("Notice")
  /\ UNCHANGED <<s, worker, proven, ui, commands, th, lc, proof>>

PassedOnWrong(r) == "Succeeded"  \* mutant: a denial passes for a success

\* What the UI is told of a response that ends the attempt.
PassedOn(r) == IF r = "Allow" THEN "Succeeded" ELSE "Failed"

PassVerdict ==
  /\ th = "recv" /\ outbox[lc] # <<>>
  /\ Head(outbox[lc]) \in {"Allow", "Deny"}
  /\ Emit(PassedOn(Head(outbox[lc])))
  /\ proof' = (PassedOn(Head(outbox[lc])) = "Succeeded" /\ lc \in proven)
  /\ Abandon
  /\ UNCHANGED <<s, worker, proven, ui, commands>>

PassReply ==
  /\ th = "await" /\ Ordered("Reply") /\ TakeOrder
  /\ Send(lc, [t |-> "Reply", secret |-> Head(commands).secret])
  /\ th' = "recv"
  /\ UNCHANGED <<s, worker, proven, ui, inbound, lc, proof>>

FailQuietly ==  \* mutant of AttemptFails: no message to the UI
  /\ th \in {"hello", "recv"} /\ ServiceVanished(lc) /\ Abandon
  /\ UNCHANGED <<s, worker, proven, ui, links, proof>>

\* Any read or write that fails ends the attempt with an error.
AttemptFails ==
  /\ \/ /\ th \in {"hello", "recv"} /\ ServiceVanished(lc)
        /\ UNCHANGED commands
     \/ th = "begin" /\ ~Live(lc) /\ UNCHANGED commands
     \/ th = "await" /\ ~Live(lc) /\ Ordered("Reply") /\ TakeOrder
  /\ Emit("Error") /\ Abandon
  /\ UNCHANGED <<s, worker, proven, ui, proof>>

\* The locker is killed and started again, or locks the session anew.
LockerStarts ==
  /\ phase' = "Locked" /\ ready' = FALSE /\ field' = Empty
  /\ prompt' = FALSE /\ cue' = FALSE
  /\ commands' = <<>> /\ inbound' = <<"Ready">>
  /\ Returns
  /\ locked' = TRUE /\ proof' = FALSE
  /\ IF lc = Nowhere THEN UNCHANGED wire ELSE HangUp(lc)
  /\ UNCHANGED <<s, worker, proven>>

-----------------------------------------------------------------------------
UiStep == TakeReady \/ TakePrompt \/ TakeNotice \/ TakeVerdict \/ ShellUnlocks

UserStep == EditPassword \/ PressUnlock \/ SubmitPrompt

ThreadStep ==
  \/ Dial \/ Welcomed \/ BeginAttempt
  \/ PassPrompt \/ PassNotice \/ PassVerdict \/ PassReply
  \/ AttemptFails

Elsewhere ==
  /\ ServiceStep \/ WorkerStep \/ Faulty \/ (\E k \in Conns \ Mine : Peer(k))
  /\ UNCHANGED lock

Next == UiStep \/ UserStep \/ ThreadStep \/ LockerStarts \/ Elsewhere

Spec == Init /\ [][Next]_vars

\* The locker's threads, the service and its worker run; PAM returns.  Users,
\* other peers and whoever kills a process promise nothing.
FairSpec ==
  /\ Spec
  /\ WF_vars(UiStep) /\ WF_vars(ThreadStep)
  /\ WF_vars(ServiceStep /\ UNCHANGED lock)
  /\ WF_vars(WorkerStep /\ UNCHANGED lock)

-----------------------------------------------------------------------------
(***************************************************************************)
(* Safety.                                                                 *)
(***************************************************************************)
Replies == {i \in DOMAIN commands : commands[i].t = "Reply"}
Asking  == {i \in DOMAIN inbound : inbound[i] = "Prompt"}

\* The UI and its worker thread agree on the conversation: while the thread
\* waits, exactly one of prompt message, open prompt field and reply exists,
\* and at no other time any; an Authenticate never meets a conversation.  So
\* no reply answers another attempt's prompt, and the arms that ignore a
\* reply or drop a conversation without a word are never taken.
LockInStep ==
  /\ Cardinality(Replies) + Cardinality(Asking) + (IF prompt THEN 1 ELSE 0)
       = (IF th = "await" THEN 1 ELSE 0)
  /\ th # "idle" => \A i \in DOMAIN commands : i \in Replies

-----------------------------------------------------------------------------
(***************************************************************************)
(* Liveness, under FairSpec.                                               *)
(***************************************************************************)

\* Every command the UI gets to send, an attempt or a reply, leads to a
\* prompt or a verdict, whatever becomes of the daemon and of a late reply,
\* unless somebody else's connection is served for ever.
CommandAnswered ==
  []<>(\A k \in Conns \ Mine : ~Serving(k))
    => (commands # <<>> ~> (prompt \/ phase # "Authenticating"))

-----------------------------------------------------------------------------
(***************************************************************************)
(* The abstract promise.                                                   *)
(***************************************************************************)
Gate == INSTANCE LockGate
          WITH proof <- proof \/ (lc # Nowhere /\ lc \in proven)

\* The lock opens as LockGate says: on PAM's acceptance of the locked user's
\* own secret, whatever else goes on.
OpensProperly == Gate!Spec
=============================================================================
