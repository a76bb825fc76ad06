--------------------------- MODULE LoginSeamProofs ---------------------------
(***************************************************************************)
(* The safety of LoginSeam for every set of users and every bound.         *)
(***************************************************************************)
EXTENDS LoginSeam, TLAPS

Cancels == [t |-> "Cancel"]
Starts  == [t |-> "Start"]
Auths(u)   == [t |-> "Auth", user |-> u]
Replies(s) == [t |-> "Reply", secret |-> s]

Answer == down = <<Cancels>> \/ \E s \in Users : down = <<Replies(s)>>

(***************************************************************************)
(* The inductive invariant.  Wire: what can be under way on the control    *)
(* socket at each pair of places.                                          *)
(***************************************************************************)
Quiet(places) == up = <<>> /\ (WorkerUp => down = <<>> /\ w \in places)

WireAuth ==
  /\ up = <<>> \/ \E e \in Verdicts \cup {"Prompt"} : up = <<e>>
  /\ WorkerUp =>
       \/ up = <<>> /\ down = <<Auths(asking)>> /\ w \in {"idle", "leading"}
       \/ up = <<>> /\ down = <<>> /\ w = "pam"
       \/ up = <<>> /\ Answer /\ w = "ask"
       \/ up = <<"Prompt">> /\ down = <<>> /\ w = "ask"
       \/ (\E v \in Verdicts : up = <<v>>) /\ down = <<>> /\ w = "idle"

WireStart ==
  /\ up \in {<<>>, <<"Started">>, <<"StartFailed">>}
  /\ WorkerUp =>
       \/ up = <<>> /\ down = <<Starts>> /\ w \in {"idle", "leading"}
       \/ up = <<"StartFailed">> /\ down = <<>> /\ w = "idle"
       \/ up = <<"Started">> /\ down = <<>> /\ w = "leading"

WireCut ==
  WorkerUp =>
    \/ down = <<>>
    \/ w = "ask" /\ Answer
    \/ w \in {"idle", "leading"} /\ \E u \in Users : down = <<Auths(u)>>
    \/ w \in {"idle", "leading"} /\ down = <<Starts>> /\ d = "Dead"

Wire ==
  /\ d = "Handshake" => w = "none" /\ up = <<>> /\ down = <<>>
  /\ w = "none" => d \in {"Handshake", "Over", "Dead"}
  /\ d = "Idle" => Quiet({"idle", "leading"})
  /\ d = "AuthWait" => WireAuth
  /\ d = "Prompt" => Quiet({"ask"})
  /\ d = "StartWait" => WireStart
  /\ d = "Own" => Quiet({"leading"})
  /\ ~DaemonUp => WireCut

\* Who the conversation and the binding are about.
Binding ==
  /\ d \in {"AuthWait", "Prompt"} => asking \in Users
  /\ w \in {"pam", "ask"} =>
       conv \in Users /\ (d \in {"AuthWait", "Prompt"} => conv = asking)
  /\ d \in {"Idle", "Prompt", "StartWait", "Own"} /\ WorkerUp => user = authed
  /\ d = "AuthWait" /\ WorkerUp =>
       IF up = <<"Success">> THEN authed = asking ELSE user = authed
  /\ d = "Handshake" => user = Nobody /\ authed = Nobody
  /\ d = "StartWait" => user \in Users
  /\ d = "Dead" /\ WorkerUp /\ down = <<Starts>> =>
       user = authed /\ user \in Users

Proven ==
  /\ authed # Nobody => authed \in proven
  /\ running # Nobody => running \in proven

\* A session has a leader, or its leader was killed, or its daemon was.
Led ==
  /\ running # Nobody =>
       w \in {"leading", "killed"} \/ (w = "gone" /\ d = "Dead")
  /\ d = "AuthWait" /\ up = <<"Success">> => running = Nobody

\* With a managed greeter an open PAM session has a session, or a worker that
\* is about to leave.
Tokens ==
  managed =>
    /\ ~leaked
    /\ token => \/ w \in {"leading", "killed"}
                \/ /\ w = "idle" /\ down = <<>>
                   /\ \/ ~DaemonUp
                      \/ d = "StartWait" /\ up = <<"StartFailed">>

IInv == TypeOK /\ Wire /\ Binding /\ Proven /\ Led /\ Tokens

-----------------------------------------------------------------------------
\* A channel with one message.
LEMMA OneMessage ==
  ASSUME NEW e
  PROVE  /\ <<e>> # <<>> /\ Head(<<e>>) = e /\ Tail(<<e>>) = <<>>
         /\ Append(<<>>, e) = <<e>>
OBVIOUS

\* What the peer sent is a request.
LEMMA Requests ==
  ASSUME TypeOK, inbox # <<>>
  PROVE  /\ Head(inbox) \in Request /\ Tail(inbox) \in Seq(Request)
         /\ Head(inbox).t = "BeginAuth" => Head(inbox).user \in Users
         /\ Head(inbox).t = "AuthReply" => Head(inbox).secret \in Users
<1>1. Head(inbox) \in Request /\ Tail(inbox) \in Seq(Request)
  BY DEF TypeOK
<1> QED
  BY <1>1 DEF Request

\* The daemon's steps keep the control socket in step ...
LEMMA WireDaemon == ASSUME IInv, DaemonStep \/ DaemonDies PROVE Wire'
<1> USE DEF WorkerUp, DaemonUp
<1>0. w = "none" => d \in {"Handshake", "Over", "Dead"}
  BY DEF IInv, Wire
<1>1. CASE Handshake
  BY <1>1 DEF Handshake, Respond, Ends, IInv, Wire, Quiet, WireCut
<1>2. CASE \/ RefuseHandshake \/ Disconnects \/ Dispatch \/ RefuseStart
  BY <1>2 DEF RefuseHandshake, Disconnects, Dispatch, RefuseStart, Respond,
              Ends, worker, IInv, Wire, Quiet, WireCut
<1>3. CASE BeginAuth
  <2>1. d = "Idle" /\ Quiet({"idle", "leading"}) /\ UNCHANGED <<up, w>>
    BY <1>3 DEF BeginAuth, worker, IInv, Wire
  <2>2. PICK u : \/ Tell(Auths(u)) /\ d' = "AuthWait" /\ asking' = u
                 \/ Unheard /\ Ends
    BY <1>3 DEF BeginAuth, Auths
  <2>3. CASE Tell(Auths(u)) /\ d' = "AuthWait" /\ asking' = u
    BY <2>1, <2>3, OneMessage DEF Tell, Quiet, Wire, WireAuth
  <2>4. CASE Unheard /\ Ends
    BY <2>1, <2>4 DEF Unheard, Ends, Wire, WireCut
  <2> QED
    BY <2>2, <2>3, <2>4
<1>4. CASE RunStart
  <2>1. d = "Idle" /\ Quiet({"idle", "leading"}) /\ UNCHANGED <<up, w>>
    BY <1>4 DEF RunStart, worker, IInv, Wire
  <2>2. CASE Tell([t |-> "Start"]) /\ d' = "StartWait"
    BY <2>1, <2>2, OneMessage DEF Tell, Starts, Quiet, Wire, WireStart
  <2>3. CASE Unheard /\ (Ends \/ Respond("Idle", user))
    BY <1>0, <2>1, <2>3 DEF Unheard, Ends, Respond, Quiet, Wire, WireCut
  <2> QED
    BY <1>4, <2>2, <2>3 DEF RunStart
<1>5. CASE RelayPrompt
  <2>1. d = "AuthWait" /\ up = <<"Prompt">> /\ up' = <<>> /\ UNCHANGED w
    BY <1>5, OneMessage DEF RelayPrompt, Hears, worker, IInv, Wire, WireAuth
  <2>2. WorkerUp => w = "ask" /\ down = <<>>
    BY <2>1, OneMessage DEF IInv, Wire, WireAuth, Verdicts, Faults
  <2>3. CASE d' = "Prompt" /\ UNCHANGED down
    BY <1>0, <2>1, <2>2, <2>3 DEF Wire, Quiet
  <2>4. CASE Ends /\ (Tell([t |-> "Cancel"]) \/ Unheard)
    BY <2>1, <2>2, <2>4, OneMessage
    DEF Ends, Tell, Unheard, Wire, WireCut, Answer, Cancels
  <2> QED
    BY <1>5, <2>3, <2>4 DEF RelayPrompt
<1>6. CASE RelayReply
  <2>1. d = "Prompt" /\ Quiet({"ask"}) /\ UNCHANGED <<up, w>>
    BY <1>6 DEF RelayReply, worker, IInv, Wire
  <2>2. PICK s \in Users : \/ Tell(Replies(s)) /\ d' = "AuthWait"
                           \/ Unheard /\ Ends
    BY <1>6, Requests DEF RelayReply, Reads, Replies, IInv
  <2>3. CASE Tell(Replies(s)) /\ d' = "AuthWait"
    BY <2>1, <2>3, OneMessage DEF Tell, Quiet, Answer, Wire, WireAuth
  <2>4. CASE Unheard /\ Ends
    BY <2>1, <2>4 DEF Unheard, Ends, Wire, WireCut
  <2> QED
    BY <2>2, <2>3, <2>4
<1>7. CASE CancelsConversation \/ PromptBreaks
  <2>1. d = "Prompt" /\ Quiet({"ask"}) /\ UNCHANGED <<up, w>>
    BY <1>7 DEF CancelsConversation, PromptBreaks, worker, IInv, Wire
  <2>2. /\ d' = "AuthWait" \/ d' = "Over"
        /\ (WorkerUp /\ down' = <<Cancels>>) \/ ~WorkerUp
    BY <1>7, <2>1, OneMessage DEF CancelsConversation, PromptBreaks, Ends,
       Tell, Unheard, Quiet, Cancels
  <2> QED
    BY <1>0, <2>1, <2>2 DEF Quiet, Answer, Wire, WireAuth, WireCut
<1>8. CASE Verdict
  <2>1. d = "AuthWait" /\ d' \in {"Idle", "Over"} /\ UNCHANGED <<w, down>>
    BY <1>8 DEF Verdict, Respond, Ends, worker
  <2>2. up' = <<>> /\ (WorkerUp => w = "idle" /\ down = <<>>)
    <3>1. CASE WorkerVanished
      BY <3>1 DEF WorkerVanished
    <3>2. CASE Hears({"Success", "Failure", "Cancelled", "Transport"})
      BY <2>1, <3>2, OneMessage
      DEF Hears, IInv, Wire, WireAuth, Verdicts, Faults
    <3> QED
      BY <1>8, <3>1, <3>2 DEF Verdict, Hears
  <2> QED
    BY <1>0, <2>1, <2>2 DEF Wire, Quiet, WireCut
<1>9. CASE StartAnswered
  <2>1. d = "StartWait" /\ WireStart /\ UNCHANGED <<w, down>>
    BY <1>9 DEF StartAnswered, worker, IInv, Wire
  <2>2. up' = <<>> /\ (WorkerUp => w \in {"idle", "leading"} /\ down = <<>>)
    BY <1>9, <2>1, OneMessage
    DEF StartAnswered, Hears, WorkerVanished, WireStart
  <2>3. d' = "Own" => (WorkerUp => w = "leading")
    BY <1>9, <2>1, OneMessage DEF StartAnswered, Hears, WorkerVanished,
       StartDidFail, Respond, Ends, WireStart
  <2>4. d' \in {"Own", "Idle", "Over"}
    BY <1>9 DEF StartAnswered, StartDidFail, Respond, Ends
  <2> QED
    BY <1>0, <2>1, <2>2, <2>3, <2>4 DEF Wire, Quiet, WireCut
<1>10. CASE SessionOver
  BY <1>10 DEF SessionOver, WorkerVanished, Ends, worker, IInv, Wire, WireCut
<1>11. CASE DaemonDies
  <2>1. d' = "Dead" /\ d \notin {"Over", "Dead"} /\ UNCHANGED <<up, down, w>>
    BY <1>11 DEF DaemonDies, worker
  <2>2. d \notin {"AuthWait", "StartWait"} => WireCut'
    BY <2>1 DEF IInv, TypeOK, Wire, Quiet, WireCut
  <2>3. d = "AuthWait" => WireCut'
    BY <2>1 DEF IInv, Wire, WireAuth, WireCut, Answer, Binding
  <2>4. d = "StartWait" => WireCut'
    BY <2>1 DEF IInv, Wire, WireStart, WireCut
  <2> QED
    BY <2>1, <2>2, <2>3, <2>4 DEF Wire
<1> QED
  BY <1>1, <1>2, <1>3, <1>4, <1>5, <1>6, <1>7, <1>8, <1>9, <1>10, <1>11
  DEF DaemonStep

\* ... and so do the steps of the worker and of the world around them.
LEMMA WireOthers ==
  ASSUME IInv,
         WorkerStep \/ PeerSends \/ PeerHangsUp \/ SessionEnds \/ WorkerDies
  PROVE  Wire'
<1>0. UNCHANGED d
  BY DEF WorkerStep, BeginConversation, Ask, HearReply, EndConversation,
     StartSession, WorkerLeaves, PeerSends, PeerHangsUp, SessionEnds,
     WorkerDies,
     daemon
<1> USE <1>0 DEF WorkerUp, DaemonUp
<1>1. CASE PeerSends \/ PeerHangsUp
  <2>1. UNCHANGED <<d, asking, up, down, w>>
    BY <1>1 DEF PeerSends, PeerHangsUp, daemon, worker
  <2> QED
    BY <2>1 DEF IInv, Wire, Quiet, WireAuth, WireStart, WireCut, Answer
<1>2. CASE WorkerDies
  <2>1. UNCHANGED <<up, down>> /\ w # "none" /\ w' = "killed"
    BY <1>2 DEF WorkerDies
  <2> QED
    BY <2>1 DEF IInv, Wire, Quiet, WireAuth, WireStart, WireCut
<1>3. CASE SessionEnds
  <2>1. UNCHANGED <<asking, up, down>>
    BY <1>3 DEF SessionEnds, daemon
  <2>2. UNCHANGED w \/ (w = "leading" /\ w' = "gone")
    BY <1>3 DEF SessionEnds, WorkerReturns
  <2> QED
    BY <2>1, <2>2 DEF IInv, Wire, Quiet, WireAuth, WireStart, WireCut, Answer
<1>4. CASE WorkerLeaves
  <2>1. ~DaemonUp /\ w' = "gone"
    BY <1>4 DEF WorkerLeaves, DaemonVanished, WorkerReturns
  <2> QED
    BY <2>1 DEF Wire, WireCut
<1>5. CASE BeginConversation
  <2>1. w = "idle" /\ w' = "pam" /\ UNCHANGED <<asking, up>>
    BY <1>5 DEF BeginConversation, daemon
  <2>2. down # <<>> /\ Head(down).t = "Auth" /\ down' = Tail(down)
    BY <1>5 DEF BeginConversation, Obeys
  <2>3. (d = "AuthWait" /\ up = <<>>) \/ ~DaemonUp
    BY <2>1, <2>2, OneMessage
    DEF IInv, TypeOK, Wire, Quiet, WireAuth, WireStart, Starts
  <2>4. down' = <<>>
    BY <2>1, <2>2, <2>3, OneMessage DEF IInv, Wire, WireAuth, WireCut
  <2> QED
    BY <2>1, <2>3, <2>4 DEF Wire, WireAuth, WireCut
<1>6. CASE Ask
  <2>1. w = "pam" /\ UNCHANGED <<asking, down>>
        /\ \/ DaemonUp /\ up' = Append(up, "Prompt") /\ w' = "ask"
           \/ ~DaemonUp /\ UNCHANGED <<up, w>>
    BY <1>6 DEF Ask, Tells, NotHeard, daemon
  <2>2. DaemonUp => d = "AuthWait" /\ up = <<>> /\ down = <<>>
    BY <2>1 DEF IInv, TypeOK, Wire, Quiet, WireAuth, WireStart
  <2> QED
    BY <2>1, <2>2, OneMessage DEF IInv, Wire, WireAuth, WireCut
<1>7. CASE HearReply
  <2>1. w = "ask" /\ w' = "pam" /\ UNCHANGED <<asking, up>>
    BY <1>7 DEF HearReply, daemon
  <2>2. \/ down # <<>> /\ down' = Tail(down)
        \/ ~DaemonUp /\ UNCHANGED down
    BY <1>7 DEF HearReply, Obeys, DaemonVanished
  <2>3. DaemonUp => d = "AuthWait" /\ up = <<>> /\ Answer
    BY <2>1, <2>2 DEF IInv, TypeOK, Wire, Quiet, WireAuth, WireStart
  <2>4. down # <<>> => Answer
    BY <2>1, <2>3 DEF IInv, Wire, WireCut
  <2>5. down' = <<>>
    <3>1. CASE DaemonVanished
      BY <3>1 DEF DaemonVanished
    <3>2. CASE down # <<>> /\ down' = Tail(down)
      BY <2>4, <3>2, OneMessage DEF Answer
    <3> QED
      BY <1>7, <3>1, <3>2 DEF HearReply, Obeys
  <2> QED
    BY <2>1, <2>3, <2>5 DEF Wire, WireAuth, WireCut
<1>8. CASE EndConversation
  <2>1. PICK v \in {"Success", "Failure", "Cancelled", "Transport"} :
          \/ Tells(v) /\ w' = "idle"
          \/ NotHeard /\ w' = "gone"
    BY <1>8
    DEF EndConversation, AuthVerdict, WorkerReturns, IInv, TypeOK, Faults
  <2>2. w = "pam" /\ UNCHANGED <<asking, down>>
    BY <1>8 DEF EndConversation, daemon
  <2>3. DaemonUp => d = "AuthWait" /\ up = <<>> /\ down = <<>>
    BY <2>2 DEF IInv, TypeOK, Wire, Quiet, WireAuth, WireStart
  <2> QED
    BY <2>1, <2>2, <2>3, OneMessage
    DEF Tells, NotHeard, Wire, WireAuth, WireCut, Verdicts, Faults
<1>9. CASE StartSession
  <2>1. /\ w = "idle" /\ down # <<>> /\ Head(down).t = "Start"
        /\ down' = Tail(down)
    BY <1>9 DEF StartSession, Obeys
  <2>2. \/ Tells("StartFailed") /\ UNCHANGED w
        \/ Tells("Started") /\ w' = "leading"
        \/ NotHeard
    BY <1>9 DEF StartSession, WorkerReturns
  <2>3. (d = "StartWait" /\ up = <<>>) \/ ~DaemonUp
    BY <2>1, OneMessage
    DEF IInv, TypeOK, Wire, Quiet, WireAuth, WireStart, Auths
  <2>4. down' = <<>>
    BY <2>1, <2>3, OneMessage DEF IInv, Wire, WireStart, WireCut
  <2> QED
    BY <2>1, <2>2, <2>3, <2>4, OneMessage
    DEF Tells, NotHeard, Wire, WireStart, WireCut
<1> QED
  BY <1>1, <1>2, <1>3, <1>4, <1>5, <1>6, <1>7, <1>8, <1>9 DEF WorkerStep

-----------------------------------------------------------------------------
(***************************************************************************)
(* Types.                                                                  *)
(***************************************************************************)
\* Taking and adding a message keep a channel's type.
LEMMA Channels ==
  ASSUME NEW S, NEW s \in Seq(S)
  PROVE  /\ s # <<>> => Tail(s) \in Seq(S)
         /\ \A e \in S : Append(s, e) \in Seq(S)
OBVIOUS

LEMMA InitTypes == Init => TypeOK
<1> SUFFICES ASSUME Init PROVE TypeOK
  OBVIOUS
<1>1. inbox \in Seq(Request) /\ down \in Seq(Command) /\ up \in Seq(Event)
  BY DEF Init
<1>2. prompts \in 0..MaxPrompts
  BY SeamAssumption DEF Init
<1> QED
  BY <1>1, <1>2 DEF Init, TypeOK, MaybeUser

\* The daemon's and the peer's steps keep the types ...
LEMMA DaemonTypes ==
  ASSUME TypeOK, DaemonStep \/ DaemonDies \/ PeerSends \/ PeerHangsUp
  PROVE  TypeOK'
<1> USE DEF DaemonStep, DaemonDies, PeerSends, PeerHangsUp, Handshake,
     RefuseHandshake, Disconnects, Dispatch, BeginAuth, RefuseStart, RunStart,
     RelayPrompt, RelayReply, CancelsConversation, PromptBreaks, Verdict,
     StartAnswered, SessionOver
<1>1. managed' \in BOOLEAN /\ peer' \in {"open", "closed"}
  BY DEF TypeOK, Reads, AtEof, client
<1>2. inbox' \in Seq(Request)
  <2>1. \/ inbox' = inbox
        \/ inbox # <<>> /\ inbox' = Tail(inbox)
        \/ \E r \in Request : inbox' = Append(inbox, r)
    BY DEF Reads, AtEof, client
  <2>2. inbox \in Seq(Request)
    BY DEF TypeOK
  <2> QED
    BY <2>1, <2>2, Channels
<1>3. up' \in Seq(Event)
  <2>1. up' = up \/ (up # <<>> /\ up' = Tail(up))
    BY DEF Hears, WorkerVanished
  <2>2. up \in Seq(Event)
    BY DEF TypeOK
  <2> QED
    BY <2>1, <2>2, Channels
<1>4. down' \in Seq(Command)
  <2>1. \/ down' = down
        \/ \E c \in Command : down' = Append(down, c)
    <3>1. \A u \in Users : Auths(u) \in Command /\ Replies(u) \in Command
      BY DEF Command, Auths, Replies
    <3>2. Cancels \in Command /\ Starts \in Command
      BY DEF Command, Cancels, Starts
    <3>3. CASE BeginAuth
      BY <3>1, <3>3, Requests DEF Reads, Tell, Unheard, Auths
    <3>4. CASE RelayReply
      BY <3>1, <3>4, Requests DEF Reads, Tell, Unheard, Replies
    <3>5. CASE ~BeginAuth /\ ~RelayReply
      BY <3>2, <3>5 DEF Tell, Unheard, Cancels, Starts
    <3> QED
      BY <3>3, <3>4, <3>5
  <2>2. down \in Seq(Command)
    BY DEF TypeOK
  <2> QED
    BY <2>1, <2>2, Channels
<1>5. d' \in {"Handshake", "Idle", "AuthWait", "Prompt", "StartWait", "Own",
              "Over", "Dead"}
  BY DEF TypeOK, daemon, Respond, Ends, StartDidFail
<1>6. asking' \in MaybeUser
  BY Requests DEF TypeOK, daemon, Respond, Ends, StartDidFail, Reads, MaybeUser
<1>7. user' \in MaybeUser
  BY DEF TypeOK, daemon, Respond, Ends, StartDidFail, BindAsked, MaybeUser
<1>8. /\ w' \in {"none", "idle", "pam", "ask", "leading", "gone", "killed"}
      /\ UNCHANGED <<talk, login, proven>>
  BY DEF TypeOK, worker
<1> QED
  BY <1>1, <1>2, <1>3, <1>4, <1>5, <1>6, <1>7, <1>8 DEF TypeOK, talk, login

\* ... and so do the worker's, the session's and a killer's.
LEMMA WorkerTypes ==
  ASSUME TypeOK, Binding, WorkerStep \/ SessionEnds \/ WorkerDies
  PROVE  TypeOK'
<1> USE DEF WorkerStep, SessionEnds, WorkerDies, BeginConversation, Ask,
     HearReply, EndConversation, StartSession, WorkerLeaves
<1>1. UNCHANGED <<client, daemon>>
  OBVIOUS
<1>2. down' \in Seq(Command)
  <2>1. down' = down \/ (down # <<>> /\ down' = Tail(down))
    BY DEF Obeys, DaemonVanished
  <2>2. down \in Seq(Command)
    BY DEF TypeOK
  <2> QED
    BY <2>1, <2>2, Channels
<1>3. up' \in Seq(Event)
  <2>1. \/ up' = up
        \/ \E e \in Event : up' = Append(up, e)
    <3>1. CASE EndConversation
      BY <3>1 DEF TypeOK, AuthVerdict, Tells, NotHeard, Event, Verdicts, Faults
    <3>2. CASE ~EndConversation
      BY <3>2 DEF Tells, NotHeard, DaemonVanished, Event
    <3> QED
      BY <3>1, <3>2
  <2>2. up \in Seq(Event)
    BY DEF TypeOK
  <2> QED
    BY <2>1, <2>2, Channels
<1>4. w' \in {"none", "idle", "pam", "ask", "leading", "gone", "killed"}
  BY DEF TypeOK, WorkerReturns
<1>5. conv' \in MaybeUser
  <2>1. CASE BeginConversation
    <3>1. Head(down) \in Command /\ Head(down).t = "Auth"
      BY <2>1 DEF Obeys, TypeOK
    <3> QED
      BY <2>1, <3>1 DEF Command, MaybeUser
  <2>2. CASE ~BeginConversation
    BY <2>2 DEF NoTalk, TypeOK, MaybeUser, talk
  <2> QED
    BY <2>1, <2>2
<1>6. prompts' \in 0..MaxPrompts
  <2>1. \/ prompts' = prompts \/ prompts' = 0
        \/ prompts < MaxPrompts /\ prompts' = prompts + 1
    BY DEF NoTalk, talk
  <2>2. prompts \in 0..MaxPrompts /\ MaxPrompts \in Nat
    BY SeamAssumption DEF TypeOK
  <2> QED
    BY <2>1, <2>2
<1>7. heard' \in BOOLEAN
  BY DEF NoTalk, TypeOK, talk
<1>8. fault' \in Faults \cup {"none"}
  BY DEF NoTalk, TypeOK, talk, Faults
<1>9. authed' \in MaybeUser /\ running' \in MaybeUser
  BY DEF TypeOK, WorkerReturns, login, MaybeUser
<1>10. token' \in BOOLEAN /\ leaked' \in BOOLEAN
  BY DEF TypeOK, WorkerReturns, login
<1>11. proven' \in SUBSET Users
  <2>1. CASE EndConversation
    <3>1. proven' = proven \/ proven' = proven \cup {conv}
      BY <2>1
    <3>2. conv \in Users
      BY <2>1 DEF Binding
    <3> QED
      BY <3>1, <3>2 DEF TypeOK
  <2>2. CASE ~EndConversation
    BY <2>2 DEF TypeOK
  <2> QED
    BY <2>1, <2>2
<1> QED
  BY <1>1, <1>2, <1>3, <1>4, <1>5, <1>6, <1>7, <1>8, <1>9, <1>10, <1>11
  DEF TypeOK, client, daemon

-----------------------------------------------------------------------------
(***************************************************************************)
(* The binding of the login, and what runs on the strength of it.          *)
(***************************************************************************)
LEMMA BindingDaemon == ASSUME IInv, DaemonStep \/ DaemonDies PROVE Binding'
<1> USE DEF WorkerUp
<1>1. CASE Handshake
  BY <1>1 DEF Handshake, Respond, Ends, login, IInv, Wire, Binding
<1>2. CASE \/ RefuseHandshake \/ Disconnects \/ Dispatch \/ RefuseStart
  BY <1>2 DEF RefuseHandshake, Disconnects, Dispatch, RefuseStart, Respond,
              Ends, worker, talk, login, IInv, Wire, Quiet, Binding
<1>3. CASE BeginAuth
  <2>1. d = "Idle" /\ Quiet({"idle", "leading"}) /\ UNCHANGED <<up, worker>>
    BY <1>3 DEF BeginAuth, IInv, Wire
  <2>2. PICK u \in Users :
          \/ WorkerUp /\ d' = "AuthWait" /\ asking' = u /\ UNCHANGED user
          \/ ~WorkerUp /\ Ends
    BY <1>3, Requests DEF BeginAuth, Reads, Tell, Unheard, IInv
  <2>3. w \notin {"pam", "ask"}
    BY <2>1 DEF Quiet
  <2> QED
    BY <2>1, <2>2, <2>3, OneMessage
    DEF Ends, worker, talk, login, IInv, Binding, Quiet
<1>4. CASE RunStart
  <2>1. d = "Idle" /\ Quiet({"idle", "leading"}) /\ UNCHANGED <<up, worker>>
    BY <1>4 DEF RunStart, IInv, Wire
  <2>2. \/ d' = "StartWait" /\ UNCHANGED <<asking, user>> /\ user \in Users
        \/ ~WorkerUp /\ d' \in {"Idle", "Over"}
    BY <1>4 DEF RunStart, Tell, Unheard, Ends, Respond, IInv, TypeOK, MaybeUser
  <2> QED
    BY <2>1, <2>2 DEF worker, talk, login, IInv, Binding, Quiet
<1>5. CASE RelayPrompt
  <2>1. d = "AuthWait" /\ up = <<"Prompt">>
    BY <1>5, OneMessage DEF RelayPrompt, Hears, IInv, Wire, WireAuth
  <2>2. /\ d' \in {"Prompt", "Over"}
        /\ d' = "Prompt" => UNCHANGED <<asking, user>>
    BY <1>5 DEF RelayPrompt, Ends
  <2>3. UNCHANGED worker
    BY <1>5 DEF RelayPrompt
  <2>4. up # <<"Success">>
    BY <2>1, OneMessage
  <2> QED
    BY <2>1, <2>2, <2>3, <2>4 DEF worker, talk, login, IInv, Binding
<1>6. CASE RelayReply \/ CancelsConversation \/ PromptBreaks
  <2>1. d = "Prompt" /\ up = <<>> /\ UNCHANGED <<up, worker>>
    BY <1>6 DEF RelayReply, CancelsConversation, PromptBreaks, IInv, Wire, Quiet
  <2>2. /\ d' \in {"AuthWait", "Over"}
        /\ d' = "AuthWait" => UNCHANGED <<asking, user>>
    BY <1>6 DEF RelayReply, CancelsConversation, PromptBreaks, Ends
  <2> QED
    BY <2>1, <2>2, OneMessage DEF worker, talk, login, IInv, Binding
<1>7. CASE Verdict
  <2>1. d = "AuthWait" /\ WireAuth /\ UNCHANGED worker
    BY <1>7 DEF Verdict, IInv, Wire
  <2>2. \/ d' = "Idle" /\ up # <<>> /\ user' = BindAsked(Head(up))
        \/ d' = "Over"
    BY <1>7 DEF Verdict, Respond, Ends, Hears
  <2>3. CASE d' = "Idle"
    <3>1. WorkerUp => w = "idle"
      BY <1>7, <2>1, <2>3, OneMessage
      DEF Verdict, Respond, Ends, Hears, WireAuth, Verdicts, Faults
    <3>2. CASE up = <<"Success">>
      BY <2>1, <2>2, <2>3, <3>1, <3>2, OneMessage
      DEF BindAsked, worker, talk, login, IInv, Binding
    <3>3. CASE up # <<"Success">>
      <4>1. user' = user
        BY <2>1, <2>2, <2>3, <3>3, OneMessage DEF BindAsked, WireAuth
      <4> QED
        BY <2>1, <2>3, <3>1, <3>3, <4>1 DEF worker, talk, login, IInv, Binding
    <3> QED
      BY <3>2, <3>3
  <2>4. CASE d' = "Over"
    BY <2>1, <2>4 DEF worker, talk, login, IInv, Binding
  <2> QED
    BY <2>2, <2>3, <2>4
<1>8. CASE StartAnswered
  <2>1. d = "StartWait" /\ UNCHANGED worker
    BY <1>8 DEF StartAnswered
  <2>2. d' \in {"Own", "Idle", "Over"} /\ (d' # "Over" => UNCHANGED user)
    BY <1>8 DEF StartAnswered, StartDidFail, Respond, Ends
  <2> QED
    BY <2>1, <2>2 DEF worker, talk, login, IInv, Binding
<1>9. CASE SessionOver
  BY <1>9 DEF SessionOver, Ends, worker, talk, login, IInv, Binding
<1>10. CASE DaemonDies
  <2>1. /\ d' = "Dead" /\ d \notin {"Over", "Dead"}
        /\ UNCHANGED <<asking, user, up, down, worker>>
    BY <1>10 DEF DaemonDies, DaemonUp
  <2>2. WorkerUp /\ down = <<Starts>> => d = "StartWait"
    <3>1. down = <<Starts>> => Head(down).t = "Start"
      BY OneMessage DEF Starts
    <3>2. d = "AuthWait" /\ WorkerUp /\ down # <<>> => Head(down).t # "Start"
      BY OneMessage DEF IInv, Wire, WireAuth, Answer, Auths, Cancels, Replies
    <3> QED
      BY <2>1, <3>1, <3>2, OneMessage DEF IInv, TypeOK, Wire, Quiet
  <2> QED
    BY <2>1, <2>2 DEF worker, talk, login, IInv, Binding
<1> QED
  BY <1>1, <1>2, <1>3, <1>4, <1>5, <1>6, <1>7, <1>8, <1>9, <1>10 DEF DaemonStep

LEMMA BindingOthers ==
  ASSUME IInv,
         WorkerStep \/ PeerSends \/ PeerHangsUp \/ SessionEnds \/ WorkerDies
  PROVE  Binding'
<1>0. UNCHANGED daemon
  BY DEF WorkerStep, BeginConversation, Ask, HearReply, EndConversation,
     StartSession, WorkerLeaves, PeerSends, PeerHangsUp, SessionEnds, WorkerDies
<1> USE <1>0 DEF WorkerUp, daemon
<1>1. CASE PeerSends \/ PeerHangsUp
  BY <1>1 DEF PeerSends, PeerHangsUp, worker, talk, login, IInv, Binding
<1>2. CASE WorkerDies
  BY <1>2 DEF WorkerDies, talk, login, IInv, Binding
<1>3. CASE SessionEnds
  BY <1>3 DEF SessionEnds, WorkerReturns, talk, IInv, Binding
<1>4. CASE WorkerLeaves
  BY <1>4
  DEF WorkerLeaves, WorkerReturns, DaemonVanished, DaemonUp, IInv, Binding
<1>5. CASE BeginConversation
  <2>1. /\ w = "idle" /\ w' = "pam" /\ down # <<>> /\ Head(down).t = "Auth"
        /\ conv' = Head(down).user /\ down' = Tail(down)
        /\ UNCHANGED <<up, login>>
    BY <1>5 DEF BeginConversation, Obeys
  <2>2. PICK u \in Users : /\ down = <<Auths(u)>>
                           /\ DaemonUp => d = "AuthWait" /\ u = asking
    BY <2>1, OneMessage
    DEF IInv, TypeOK, Wire, Quiet, WireAuth, WireStart, WireCut, Starts,
        Binding, DaemonUp
  <2>3. conv' = u /\ down' = <<>>
    BY <2>1, <2>2, OneMessage DEF Auths
  <2> QED
    BY <2>1, <2>2, <2>3, OneMessage DEF IInv, Binding, DaemonUp, login
<1>6. CASE Ask
  <2>1. /\ w = "pam" /\ w' \in {"pam", "ask"}
        /\ UNCHANGED <<down, conv, authed>>
        /\ up' = Append(up, "Prompt") \/ up' = up
    BY <1>6 DEF Ask, Tells, NotHeard, login
  <2>2. d = "AuthWait" => up = <<>>
    BY <2>1 DEF IInv, Wire, WireAuth
  <2>3. d = "AuthWait" => up' # <<"Success">>
    BY <2>1, <2>2, OneMessage
  <2> QED
    BY <2>1, <2>2, <2>3, OneMessage DEF IInv, Binding
<1>7. CASE HearReply
  <2>1. w = "ask" /\ w' = "pam" /\ UNCHANGED <<up, conv, authed>>
    BY <1>7 DEF HearReply, login
  <2>2. d = "Dead" => down' = <<>>
    BY <1>7, OneMessage
    DEF HearReply, Obeys, DaemonVanished, DaemonUp, IInv, Wire, WireCut, Answer
  <2> QED
    BY <2>1, <2>2, OneMessage DEF IInv, Binding
<1>8. CASE EndConversation
  <2>1. w = "pam" /\ UNCHANGED down
    BY <1>8 DEF EndConversation
  <2>2. PICK v \in {"Success", "Failure", "Cancelled", "Transport"} :
          \/ /\ DaemonUp /\ up' = Append(up, v) /\ w' = "idle"
             /\ IF v = "Success" THEN authed' = conv ELSE UNCHANGED authed
          \/ ~DaemonUp /\ w' = "gone"
    BY <1>8 DEF EndConversation, AuthVerdict, WorkerReturns, Tells, NotHeard,
       IInv, TypeOK, Faults
  <2>3. DaemonUp => d = "AuthWait" /\ up = <<>>
    BY <2>1 DEF IInv, TypeOK, Wire, Quiet, WireAuth, WireStart, DaemonUp
  <2> QED
    BY <2>1, <2>2, <2>3, OneMessage DEF IInv, Binding, DaemonUp
<1>9. CASE StartSession
  <2>1. /\ w = "idle" /\ down # <<>> /\ Head(down).t = "Start"
        /\ down' = Tail(down)
    BY <1>9 DEF StartSession, Obeys
  <2>2. d = "StartWait" \/ ~DaemonUp
    BY <2>1, OneMessage
    DEF IInv, TypeOK, Wire, Quiet, WireAuth, Auths, DaemonUp
  <2>3. down' = <<>>
    BY <2>1, <2>2, OneMessage DEF IInv, Wire, WireStart, WireCut
  <2>4. w' \in {"idle", "leading", "gone"} /\ (w' # "gone" => UNCHANGED authed)
    BY <1>9 DEF StartSession, WorkerReturns, login
  <2> QED
    BY <2>1, <2>2, <2>3, <2>4, OneMessage DEF IInv, Binding, DaemonUp
<1> QED
  BY <1>1, <1>2, <1>3, <1>4, <1>5, <1>6, <1>7, <1>8, <1>9 DEF WorkerStep

\* A session and a PAM context belong to a proven user.
LEMMA ProvenNext == ASSUME IInv, Next PROVE Proven'
<1>1. CASE EndConversation
  <2>1. UNCHANGED running /\ proven \subseteq proven'
    BY <1>1 DEF EndConversation
  <2>2. authed' = authed \/ authed' = Nobody \/ authed' \in proven'
    <3>1. PICK accepted \in {FALSE, heard} :
            /\ proven' = IF heard /\ fault = "none" /\ accepted
                           THEN proven \cup {conv} ELSE proven
            /\ \/ authed' = conv /\ AuthVerdict(accepted) = "Success"
               \/ authed' = authed \/ authed' = Nobody
      BY <1>1 DEF EndConversation, WorkerReturns
    <3>2. AuthVerdict(accepted) = "Success" => fault = "none" /\ accepted
      BY DEF AuthVerdict, IInv, TypeOK, Faults
    <3>3. accepted => heard
      OBVIOUS
    <3> QED
      BY <3>1, <3>2, <3>3
  <2> QED
    BY <2>1, <2>2 DEF IInv, Proven
<1>2. CASE StartSession
  BY <1>2 DEF StartSession, WorkerReturns, login, IInv, Proven
<1>3. CASE SessionEnds \/ WorkerLeaves
  BY <1>3 DEF SessionEnds, WorkerLeaves, WorkerReturns, IInv, Proven
<1>4. CASE UNCHANGED <<authed, running, proven>>
  BY <1>4 DEF IInv, Proven
<1> QED
  BY <1>1, <1>2, <1>3, <1>4
  DEF Next, DaemonStep, WorkerStep, Environment, Handshake, RefuseHandshake,
      Disconnects, Dispatch, BeginAuth, RefuseStart, RunStart, RelayPrompt,
      RelayReply, CancelsConversation, PromptBreaks, Verdict, StartAnswered,
      SessionOver, BeginConversation, Ask, HearReply, PeerSends, PeerHangsUp,
      DaemonDies, WorkerDies, worker, login

\* A session has a leader, or its leader was killed, or its daemon was.
LEMMA LedNext == ASSUME IInv, Next PROVE Led'
<1>1. CASE DaemonStep \/ DaemonDies \/ PeerSends \/ PeerHangsUp
  <2>1. UNCHANGED running /\ (UNCHANGED w \/ w = "none")
    BY <1>1 DEF DaemonStep, Handshake, RefuseHandshake, Disconnects, Dispatch,
       BeginAuth, RefuseStart, RunStart, RelayPrompt, RelayReply,
       CancelsConversation, PromptBreaks, Verdict, StartAnswered, SessionOver,
       DaemonDies, PeerSends, PeerHangsUp, worker, login, IInv, Wire
  <2>2. d = "Dead" => d' = "Dead"
    BY <1>1 DEF DaemonStep, Handshake, RefuseHandshake, Disconnects, Dispatch,
       BeginAuth, RefuseStart, RunStart, RelayPrompt, RelayReply,
       CancelsConversation, PromptBreaks, Verdict, StartAnswered, SessionOver,
       DaemonDies, PeerSends, PeerHangsUp, daemon
  <2>3. d' = "AuthWait" => up' = <<>> \/ (d = "AuthWait" /\ up' = up)
    BY <1>1 DEF DaemonStep, Handshake, RefuseHandshake, Disconnects, Dispatch,
       BeginAuth, RefuseStart, RunStart, RelayPrompt, RelayReply,
       CancelsConversation, PromptBreaks, Verdict, StartAnswered, SessionOver,
       DaemonDies, PeerSends, PeerHangsUp, daemon, Respond, Ends, StartDidFail,
       IInv, Wire, Quiet
  <2> QED
    BY <2>1, <2>2, <2>3, OneMessage DEF IInv, Led
<1>2. CASE EndConversation
  <2>1. w = "pam" /\ UNCHANGED <<daemon, running>>
    BY <1>2 DEF EndConversation
  <2> QED
    BY <2>1 DEF IInv, Led, daemon
<1>3. CASE StartSession
  <2>1. w = "idle" /\ UNCHANGED daemon /\ down # <<>> /\ Head(down).t = "Start"
    BY <1>3 DEF StartSession, Obeys
  <2>2. d # "AuthWait"
    BY <2>1, OneMessage DEF IInv, Wire, WireAuth, WorkerUp, Auths
  <2>3. ~DaemonUp => d = "Dead"
    BY <2>1, OneMessage DEF IInv, Wire, WireCut, WorkerUp, Auths
  <2>4. running = Nobody
    BY <2>1 DEF IInv, Led
  <2>5. \/ UNCHANGED running
        \/ w' = "leading"
        \/ ~DaemonUp /\ w' = "gone"
    BY <1>3 DEF StartSession, Tells, NotHeard, WorkerReturns, login
  <2> QED
    BY <2>1, <2>2, <2>3, <2>4, <2>5 DEF Led, daemon
<1>4. CASE SessionEnds
  BY <1>4 DEF SessionEnds, daemon, IInv, Led
<1>5. CASE WorkerDies
  BY <1>5 DEF WorkerDies, WorkerUp, login, daemon, IInv, Led
<1>6. CASE WorkerLeaves \/ BeginConversation \/ HearReply
  BY <1>6 DEF WorkerLeaves, BeginConversation, HearReply, DaemonVanished,
     login, daemon, IInv, Led
<1>7. CASE Ask
  <2>1. w = "pam" /\ UNCHANGED <<daemon, running>>
        /\ (up' = up \/ up' = Append(up, "Prompt"))
    BY <1>7 DEF Ask, login, Tells, NotHeard
  <2> QED
    BY <2>1 DEF IInv, Led, daemon
<1> QED
  BY <1>1, <1>2, <1>3, <1>4, <1>5, <1>6, <1>7 DEF Next, WorkerStep, Environment

\* An open PAM session of a managed login has somebody to close it.
LEMMA TokensNext == ASSUME IInv, Next PROVE Tokens'
<1> SUFFICES ASSUME managed'
             PROVE  /\ ~leaked'
                    /\ token' =>
                         \/ w' \in {"leading", "killed"}
                         \/ /\ w' = "idle" /\ down' = <<>>
                            /\ \/ ~DaemonUp'
                               \/ d' = "StartWait" /\ up' = <<"StartFailed">>
  BY DEF Tokens
<1>0. managed
  BY DEF Next, DaemonStep, WorkerStep, Environment, Handshake, RefuseHandshake,
      Disconnects, Dispatch, BeginAuth, RefuseStart, RunStart, RelayPrompt,
      RelayReply, CancelsConversation, PromptBreaks, Verdict, StartAnswered,
      SessionOver, BeginConversation, Ask, HearReply, EndConversation,
      StartSession, WorkerLeaves, SessionEnds, PeerSends, PeerHangsUp,
      DaemonDies, WorkerDies, Reads, AtEof, client
<1>1. CASE StartSession
  <2>1. w = "idle" /\ UNCHANGED daemon /\ down # <<>> /\ Head(down).t = "Start"
        /\ down' = Tail(down)
    BY <1>1 DEF StartSession, Obeys
  <2>2. ~token /\ ~leaked
    BY <1>0, <2>1 DEF IInv, Tokens
  <2>3. (d = "StartWait" /\ up = <<>>) \/ ~DaemonUp
    BY <2>1, OneMessage
    DEF IInv, TypeOK, Wire, Quiet, WireAuth, WireStart, WorkerUp, DaemonUp,
        Auths
  <2>4. down' = <<>>
    BY <2>1, <2>3, OneMessage DEF IInv, Wire, WireStart, WireCut, WorkerUp
  <2> QED
    <3>1. ~leaked'
      BY <1>1, <2>2 DEF StartSession, login
    <3>2. \/ ~token'
          \/ w' = "leading"
          \/ w' = "idle" /\ (Tells("StartFailed") \/ NotHeard)
      BY <1>1, <2>1, <2>2 DEF StartSession, WorkerReturns, login
    <3> QED
      BY <2>1, <2>3, <2>4, <3>1, <3>2, OneMessage
      DEF Tells, NotHeard, DaemonUp, daemon
<1>2. CASE EndConversation
  <2>1. ~token /\ ~leaked
    BY <1>0, <1>2 DEF EndConversation, IInv, Tokens
  <2>2. UNCHANGED leaked /\ (token' = FALSE \/ UNCHANGED token)
    BY <1>2 DEF EndConversation, WorkerReturns
  <2> QED
    BY <2>1, <2>2
<1>5. CASE SessionEnds
  BY <1>0, <1>5 DEF SessionEnds, WorkerReturns, daemon, DaemonUp, IInv, Tokens
<1>6. CASE WorkerDies \/ WorkerLeaves
  BY <1>0, <1>6 DEF WorkerDies, WorkerLeaves, WorkerReturns, login, IInv, Tokens
<1>3. CASE BeginConversation \/ Ask \/ HearReply
  BY <1>0, <1>3
  DEF BeginConversation, Obeys, Ask, HearReply, login, IInv, Tokens
<1>4. CASE DaemonStep \/ DaemonDies \/ PeerSends \/ PeerHangsUp
  <2>1. UNCHANGED <<token, leaked>> /\ (UNCHANGED w \/ w = "none")
    BY <1>4 DEF DaemonStep, Handshake, RefuseHandshake, Disconnects, Dispatch,
       BeginAuth, RefuseStart, RunStart, RelayPrompt, RelayReply,
       CancelsConversation, PromptBreaks, Verdict, StartAnswered, SessionOver,
       DaemonDies, PeerSends, PeerHangsUp, worker, login, IInv, Wire
  <2> DEFINE Leaving ==
        \/ ~DaemonUp
        \/ d = "StartWait" /\ up = <<"StartFailed">>
  <2>2. token /\ w = "idle" => UNCHANGED down /\ Leaving'
    <3> SUFFICES ASSUME token, w = "idle" PROVE UNCHANGED down /\ Leaving'
      OBVIOUS
    <3>1. ~DaemonUp \/ (d = "StartWait" /\ up = <<"StartFailed">>)
      BY <1>0 DEF IInv, Tokens
    <3>2. CASE StartAnswered
      BY <1>0, <3>1, <3>2, OneMessage
      DEF StartAnswered, Hears, WorkerVanished, WorkerUp, StartDidFail, Ends,
          DaemonUp
    <3>3. CASE ~StartAnswered
      BY <1>4, <3>1, <3>3
      DEF DaemonStep, Handshake, RefuseHandshake, Disconnects, Dispatch,
       BeginAuth, RefuseStart, RunStart, RelayPrompt, RelayReply,
       CancelsConversation, PromptBreaks, Verdict, SessionOver,
       DaemonDies, PeerSends, PeerHangsUp, daemon, DaemonUp
    <3> QED
      BY <3>2, <3>3
  <2> QED
    BY <1>0, <2>1, <2>2 DEF IInv, Tokens
<1> QED
  BY <1>1, <1>2, <1>3, <1>4, <1>5, <1>6 DEF Next, WorkerStep, Environment

-----------------------------------------------------------------------------
(***************************************************************************)
(* The theorems.                                                           *)
(***************************************************************************)
LEMMA IInvInit == Init => IInv
<1> SUFFICES ASSUME Init PROVE IInv
  OBVIOUS
<1>1. TypeOK
  BY InitTypes
<1>2. Wire
  BY DEF Init, Wire, DaemonUp
<1>3. Binding /\ Proven /\ Led /\ Tokens
  BY DEF Init, Binding, Proven, Led, Tokens
<1> QED
  BY <1>1, <1>2, <1>3 DEF IInv

LEMMA IInvNext == IInv /\ [Next]_vars => IInv'
<1> SUFFICES ASSUME IInv, [Next]_vars PROVE IInv'
  OBVIOUS
<1>1. CASE Next
  <2>1. TypeOK'
    BY <1>1, DaemonTypes, WorkerTypes DEF Next, Environment, IInv
  <2>2. Wire'
    BY <1>1, WireDaemon, WireOthers DEF Next, Environment
  <2>3. Binding'
    BY <1>1, BindingDaemon, BindingOthers DEF Next, Environment
  <2>4. Proven' /\ Led' /\ Tokens'
    BY <1>1, ProvenNext, LedNext, TokensNext
  <2> QED
    BY <2>1, <2>2, <2>3, <2>4 DEF IInv
<1>2. CASE UNCHANGED vars
  <2> USE <1>2 DEF vars, client, daemon, worker, talk, login
  <2>1. TypeOK'
    BY DEF IInv, TypeOK
  <2>2. Wire'
    BY DEF IInv, Wire, Quiet, WireAuth, WireStart, WireCut, Answer, WorkerUp,
           DaemonUp
  <2>3. Binding' /\ Proven' /\ Led' /\ Tokens'
    BY DEF IInv, Binding, Proven, Led, Tokens, WorkerUp, DaemonUp
  <2> QED
    BY <2>1, <2>2, <2>3 DEF IInv
<1> QED
  BY <1>1, <1>2

\* The inductive invariant holds in every state.
THEOREM SeamInvariance == Spec => []IInv
BY IInvInit, IInvNext, PTL DEF Spec

\* LoginSeam's variables keep their types.
THEOREM SeamTypeCorrect == Spec => []TypeOK
<1>1. IInv => TypeOK
  BY DEF IInv
<1> QED
  BY <1>1, SeamInvariance, PTL

\* Whatever conversations a connection has had, the user that the daemon
\* gates a Start on is the user of the worker's PAM context.
THEOREM IdentityHeld == Spec => []IdentityBound
<1>1. IInv => IdentityBound
  BY DEF IInv, Binding, IdentityBound
<1> QED
  BY <1>1, SeamInvariance, PTL

\* No session runs but for a user that a whole PAM conversation accepted.
THEOREM SessionProven == Spec => []SessionWasProven
<1>1. IInv => SessionWasProven
  BY DEF IInv, Proven, SessionWasProven
<1> QED
  BY <1>1, SeamInvariance, PTL

\* The daemon and the worker never wait for each other, and no stray command
\* or event is ever under way.
THEOREM AlwaysInStep == Spec => []InStep
<1>1. ASSUME IInv PROVE InStep
  <2>1. d \in {"AuthWait", "StartWait"} /\ up = <<>> /\ down = <<>>
          => w \in {"pam", "leading", "none", "gone", "killed"}
    BY <1>1, OneMessage
    DEF IInv, Wire, WireAuth, WireStart, Answer, WorkerUp
  <2>2. d \in {"AuthWait", "StartWait"} => w # "none"
    BY <1>1 DEF IInv, Wire
  <2>3. d = "Prompt" /\ WorkerUp => w = "ask" /\ down = <<>>
    BY <1>1 DEF IInv, Wire, Quiet
  <2>4. WorkerUp /\ w # "ask" =>
          \A i \in 1..Len(down) : down[i].t \notin {"Reply", "Cancel"}
    <3>1. WorkerUp /\ w # "ask" =>
            down = <<>> \/ down = <<Starts>> \/ \E u : down = <<Auths(u)>>
      BY <1>1
      DEF IInv, TypeOK, Wire, Quiet, WireAuth, WireStart, WireCut, WorkerUp,
          DaemonUp
    <3> QED
      BY <3>1 DEF Starts, Auths
  <2>5. d = "AuthWait" =>
          \A i \in 1..Len(up) : up[i] \in Verdicts \cup {"Prompt"}
    BY <1>1 DEF IInv, Wire, WireAuth
  <2>6. d = "StartWait" =>
          \A i \in 1..Len(up) : up[i] \in {"Started", "StartFailed"}
    BY <1>1 DEF IInv, Wire, WireStart
  <2> QED
    BY <2>1, <2>2, <2>3, <2>4, <2>5, <2>6 DEF InStep
<1> QED
  BY <1>1, SeamInvariance, PTL

\* A worker that returns leaves no session behind unless its daemon died, and
\* under a managed greeter no open PAM session.
THEOREM NothingStaysOpen == Spec => []NothingLeftOpen
<1>1. IInv => NothingLeftOpen
  BY DEF IInv, Led, Tokens, NothingLeftOpen
<1> QED
  BY <1>1, SeamInvariance, PTL

-----------------------------------------------------------------------------
(***************************************************************************)
(* The implementation of LoginGate.                                        *)
(***************************************************************************)
LEMMA GateInit == Init => Gate!Init
BY DEF Init, Gate!Init

\* Every step binds, launches for the bound user, ends a session, drops the
\* binding, or concerns none of this.
LEMMA GateStep == IInv /\ [Next]_vars => [Gate!Next]_(Gate!vars)
<1> SUFFICES ASSUME IInv, Next PROVE Gate!Next \/ UNCHANGED <<user, running>>
  BY DEF Gate!vars, vars, daemon, worker, login
<1> USE DEF Gate!Next, Gate!Bind, Gate!Launch, Gate!End, Gate!Drop
<1>1. CASE DaemonStep \/ DaemonDies \/ PeerSends \/ PeerHangsUp
  <2>1. UNCHANGED running
    BY <1>1 DEF DaemonStep, Handshake, RefuseHandshake, Disconnects, Dispatch,
       BeginAuth, RefuseStart, RunStart, RelayPrompt, RelayReply,
       CancelsConversation, PromptBreaks, Verdict, StartAnswered, SessionOver,
       DaemonDies, PeerSends, PeerHangsUp, worker, login
  <2>2. CASE Verdict
    <3>1. /\ d = "AuthWait"
          /\ user' = Nobody \/ (up # <<>> /\ user' = BindAsked(Head(up)))
      BY <2>2 DEF Verdict, Respond, Ends, Hears
    <3>2. CASE up = <<"Success">>
      BY <2>1, <3>1, <3>2, OneMessage DEF BindAsked, IInv, Led, Binding
    <3>3. CASE up # <<"Success">>
      BY <2>1, <3>1, <3>3, OneMessage DEF BindAsked, IInv, Wire, WireAuth
    <3> QED
      BY <3>2, <3>3
  <2>3. CASE ~Verdict
    <3>1. user' = user \/ user' = Nobody
      BY <1>1, <2>3 DEF DaemonStep, Handshake, RefuseHandshake, Disconnects,
         Dispatch, BeginAuth, RefuseStart, RunStart, RelayPrompt, RelayReply,
         CancelsConversation, PromptBreaks, StartAnswered, SessionOver,
         DaemonDies, PeerSends, PeerHangsUp, Respond, Ends, StartDidFail, daemon
    <3> QED
      BY <2>1, <3>1
  <2> QED
    BY <2>2, <2>3
<1>2. CASE StartSession
  <2>1. w = "idle" /\ UNCHANGED user /\ down # <<>> /\ Head(down).t = "Start"
    BY <1>2 DEF StartSession, Obeys, daemon
  <2>2. UNCHANGED running \/ (running' = authed /\ authed # Nobody)
    BY <1>2 DEF StartSession, login
  <2>3. running = Nobody
    BY <2>1 DEF IInv, Led
  <2>4. user = authed
    <3>1. d = "StartWait" \/ (d = "Dead" /\ down = <<Starts>>)
      BY <2>1, OneMessage
      DEF IInv, TypeOK, Wire, Quiet, WireAuth, WireCut, WorkerUp, DaemonUp,
          Auths
    <3> QED
      BY <2>1, <3>1 DEF IInv, Binding, WorkerUp
  <2> QED
    BY <2>1, <2>2, <2>3, <2>4
<1>3. CASE SessionEnds
  BY <1>3 DEF SessionEnds, daemon
<1>4. CASE UNCHANGED <<daemon, running>>
  BY <1>4 DEF daemon
<1> QED
  BY <1>1, <1>2, <1>3, <1>4
  DEF Next, WorkerStep, Environment, BeginConversation, Ask, HearReply,
      EndConversation, WorkerLeaves, WorkerDies, login

\* One connection implements LoginGate: only a bound user's session starts,
\* and the bound user is the one that authenticated.
THEOREM ImplementsLoginGate == Spec => HonoursGate
BY GateInit, GateStep, SeamInvariance, PTL DEF Spec, HonoursGate, Gate!Spec
=============================================================================
