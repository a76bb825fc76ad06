--------------------------- MODULE LockScreenProofs ---------------------------
(***************************************************************************)
(* The safety of the reauthentication service among any peers, and of the  *)
(* lock screen with it, for any number of connections and users and every  *)
(* bound.                                                                  *)
(***************************************************************************)
EXTENDS LockScreen, SequenceTheorems, FiniteSetTheorems, TLAPS

(***************************************************************************)
(* What programs do at their ends of their connections, all a lock screen  *)
(* can do included.                                                        *)
(***************************************************************************)
PeerMove(k) ==
  /\ \/ \E frames \in Seq(Request) : Connect(k, frames)
     \/ (\E r \in Request : Send(k, r)) /\ UNCHANGED proven
     \/ (\E r \in Response : Receive(k, r)) /\ UNCHANGED proven
     \/ HangUp(k) /\ UNCHANGED proven
  /\ UNCHANGED <<s, worker>>

AnyMove == ServiceStep \/ WorkerStep \/ Faulty \/ \E k \in Conns : PeerMove(k)

(***************************************************************************)
(* The inductive invariant: one connection is served at a time, there is a *)
(* worker only during its attempt, and a success on its way is that of the *)
(* connection being served.                                                *)
(***************************************************************************)
OneServed ==
  /\ \A j, k \in Conns : Serving(j) /\ Serving(k) => j = k
  /\ s \in {"Accept", "Down"} => \A k \in Conns : ~Serving(k)

WorkerOfAttempt == s \in {"AuthWait", "Reply"} \/ (up = <<>> /\ w = "none")

SuccessProven ==
  \A i \in 1..Len(up) :
    up[i] = "Success" => \A k \in Conns : Serving(k) => k \in proven

RInv == ReauthTypeOK /\ OneServed /\ WorkerOfAttempt /\ SuccessProven

-----------------------------------------------------------------------------
\* What a queue of these elements becomes.
LEMMA Queues ==
  ASSUME NEW S, NEW q \in Seq(S)
  PROVE  /\ \A e \in S : Append(q, e) \in Seq(S)
         /\ q # <<>> => Head(q) \in S /\ Tail(q) \in Seq(S)
         /\ <<>> \in Seq(S)
OBVIOUS

LEMMA Fresh ==
  /\ 0 \in 0..MaxMessages
  /\ "none" \in Faults \cup {"none"}
  /\ <<>> \in Seq(Command) /\ <<>> \in Seq(Event)
<1>1. MaxMessages \in Nat
  BY ReauthAssumption
<1> QED
  BY <1>1

LEMMA InitRInv == ReauthInit => RInv
<1> SUFFICES ASSUME ReauthInit PROVE RInv
  OBVIOUS
<1>1. up = <<>> /\ w = "none" /\ s = "Accept" /\ proven = {}
  BY DEF ReauthInit, NoWorker
<1>2. \A k \in Conns : ~Serving(k)
  BY DEF ReauthInit, Serving
<1>3. inbox \in [Conns -> Seq(Request)] /\ outbox \in [Conns -> Seq(Response)]
  BY Queues DEF ReauthInit
<1>4. backlog \in Seq(Conns) /\ down \in Seq(Command) /\ up \in Seq(Event)
  BY DEF ReauthInit, NoWorker
<1>5. /\ link \in [Conns -> {"free", "queued", "served", "ended"}]
      /\ open \in [Conns -> BOOLEAN]
  BY DEF ReauthInit
<1>6. ReauthTypeOK
  BY <1>1, <1>3, <1>4, <1>5, Fresh DEF ReauthInit, NoWorker, ReauthTypeOK
<1> QED
  BY <1>1, <1>2, <1>6 DEF RInv, OneServed, WorkerOfAttempt, SuccessProven

\* A connection in a function of queues.
LEMMA Appended ==
  ASSUME NEW S, NEW f \in [Conns -> Seq(S)], NEW k \in Conns, NEW e \in S
  PROVE  [f EXCEPT ![k] = Append(@, e)] \in [Conns -> Seq(S)]
OBVIOUS

LEMMA Taken ==
  ASSUME NEW S, NEW f \in [Conns -> Seq(S)], NEW k \in Conns, f[k] # <<>>
  PROVE  /\ [f EXCEPT ![k] = Tail(@)] \in [Conns -> Seq(S)]
         /\ Head(f[k]) \in S
OBVIOUS

\* The end of a connection drops its worker and clears its frames.
LEMMA EndsTypes ==
  ASSUME ReauthTypeOK, NEW ks \in SUBSET Conns, Close(ks), DropWorker,
         backlog' \in Seq(Conns), UNCHANGED <<open, outbox>>,
         s' \in {"Accept", "Down"}, proven' \in SUBSET Conns
  PROVE  ReauthTypeOK'
<1>1. link' \in [Conns -> {"free", "queued", "served", "ended"}]
  BY DEF ReauthTypeOK, Close
<1>2. inbox' \in [Conns -> Seq(Request)]
  BY Queues DEF ReauthTypeOK, Close
<1>3. /\ down' \in Seq(Command) /\ up' \in Seq(Event)
      /\ w' = "none" /\ messages' \in 0..MaxMessages
      /\ heard' \in BOOLEAN /\ fault' \in Faults \cup {"none"}
  BY Fresh DEF DropWorker
<1> QED
  BY <1>1, <1>2, <1>3 DEF ReauthTypeOK

LEMMA PeerTypes ==
  ASSUME ReauthTypeOK, NEW k \in Conns, PeerMove(k)
  PROVE  ReauthTypeOK'
<1>1. UNCHANGED <<s, down, up, w, messages, heard, fault>>
  BY DEF PeerMove, worker
<1>2. CASE \E frames \in Seq(Request) : Connect(k, frames)
  <2>1. backlog' \in Seq(Conns)
    BY <1>2, Queues DEF Connect, ReauthTypeOK
  <2>2. inbox' \in [Conns -> Seq(Request)]
    BY <1>2 DEF Connect, ReauthTypeOK
  <2> QED
    BY <1>1, <1>2, <2>1, <2>2 DEF Connect, ReauthTypeOK
<1>3. CASE (\E r \in Request : Send(k, r)) /\ UNCHANGED proven
  <2>1. inbox' \in [Conns -> Seq(Request)]
    BY <1>3, Appended DEF Send, ReauthTypeOK
  <2> QED
    BY <1>1, <1>3, <2>1 DEF Send, ReauthTypeOK
<1>4. CASE (\E r \in Response : Receive(k, r)) /\ UNCHANGED proven
  <2>1. outbox' \in [Conns -> Seq(Response)]
    BY <1>4, Taken DEF Receive, ReauthTypeOK
  <2> QED
    BY <1>1, <1>4, <2>1 DEF Receive, ReauthTypeOK
<1>5. CASE HangUp(k) /\ UNCHANGED proven
  <2>1. outbox' \in [Conns -> Seq(Response)]
    BY <1>5, Queues DEF HangUp, ReauthTypeOK
  <2>2. link' \in [Conns -> {"free", "queued", "served", "ended"}]
    BY <1>5 DEF HangUp, ReauthTypeOK
  <2> QED
    BY <1>1, <1>5, <2>1, <2>2 DEF HangUp, ReauthTypeOK
<1> QED
  BY <1>2, <1>3, <1>4, <1>5 DEF PeerMove

\* Reading a frame, and writing a response.
LEMMA ReadsTypes ==
  ASSUME ReauthTypeOK, NEW k \in Conns, NEW types, Reads(k, types)
  PROVE  /\ inbox' \in [Conns -> Seq(Request)]
         /\ Head(inbox[k]) \in Request /\ Head(inbox[k]).t \in types
BY Taken DEF Reads, ReauthTypeOK

LEMMA AnswerTypes ==
  ASSUME ReauthTypeOK, NEW k \in Conns, NEW r \in Response, Answer(k, r)
  PROVE  /\ outbox' \in [Conns -> Seq(Response)]
         /\ UNCHANGED <<link, backlog, open>>
BY Appended DEF Answer, ReauthTypeOK

LEMMA EndsKeepsTypes ==
  ASSUME ReauthTypeOK, NEW k \in Conns, Ends(k), proven' \in SUBSET Conns
  PROVE  ReauthTypeOK'
BY EndsTypes DEF Ends, ReauthTypeOK

\* The worker is dropped without the connection.
LEMMA DropTypes ==
  ASSUME DropWorker
  PROVE  /\ down' \in Seq(Command) /\ up' \in Seq(Event)
         /\ w' \in {"none", "idle", "pam", "ask", "gone"}
         /\ messages' \in 0..MaxMessages
         /\ heard' \in BOOLEAN /\ fault' \in Faults \cup {"none"}
BY Fresh DEF DropWorker

LEMMA ExchangeTypes ==
  ASSUME ReauthTypeOK, NEW k \in Conns, NEW types, NEW r \in Response,
         Exchange(k, types, r), proven' \in SUBSET Conns
  PROVE  ReauthTypeOK'
<1>1. CASE Reads(k, types) /\ Answer(k, r) /\ s' = "Between" /\ UNCHANGED worker
  <2>1. /\ inbox' \in [Conns -> Seq(Request)]
        /\ outbox' \in [Conns -> Seq(Response)]
        /\ UNCHANGED <<link, backlog, open>>
    BY <1>1, ReadsTypes, AnswerTypes
  <2> QED
    BY <1>1, <2>1 DEF worker, ReauthTypeOK
<1>2. CASE Ends(k)
  BY <1>2, EndsKeepsTypes
<1> QED
  BY <1>1, <1>2 DEF Exchange

LEMMA ServiceTypes ==
  ASSUME ReauthTypeOK, ServiceStep
  PROVE  ReauthTypeOK'
<1>1. CASE Accept
  <2>1. backlog' \in Seq(Conns) /\ Head(backlog) \in Conns
    BY <1>1, Queues DEF Accept, ReauthTypeOK
  <2> QED
    BY <1>1, <2>1 DEF Accept, worker, ReauthTypeOK
<1>2. ASSUME NEW k \in Conns, Welcome(k) \/ BetweenAttempts(k) \/ DenyOutright(k)
      PROVE  ReauthTypeOK'
  <2>1. proven' \in SUBSET Conns
    BY <1>2 DEF Welcome, BetweenAttempts, DenyOutright, ReauthTypeOK
  <2>2. CASE \E types, r : r \in Response /\ Exchange(k, types, r)
    BY <2>1, <2>2, ExchangeTypes
  <2>3. CASE Reads(k, {"Cancel"})
             /\ UNCHANGED <<link, backlog, open, outbox, s, worker>>
    BY <2>1, <2>3, ReadsTypes DEF worker, ReauthTypeOK
  <2> QED
    BY <1>2, <2>2, <2>3 DEF Welcome, BetweenAttempts, DenyOutright, Response
<1>3. ASSUME NEW k \in Conns,
             RefuseHandshake(k) \/ Disconnect(k) \/ PromptBreaks(k)
      PROVE  ReauthTypeOK'
  <2>1. Ends(k) /\ UNCHANGED proven
    BY <1>3 DEF RefuseHandshake, Disconnect, PromptBreaks, GivesUp
  <2> QED
    BY <2>1, EndsKeepsTypes DEF ReauthTypeOK
<1>4. ASSUME NEW k \in Conns, Begin(k) PROVE ReauthTypeOK'
  <2>1. inbox' \in [Conns -> Seq(Request)]
    BY <1>4, ReadsTypes DEF Begin
  <2>2. down' \in Seq(Command) /\ up' \in Seq(Event)
    BY <1>4 DEF Begin, Command
  <2>3. /\ messages' \in 0..MaxMessages
        /\ heard' \in BOOLEAN /\ fault' \in Faults \cup {"none"}
        /\ proven' \in SUBSET Conns
    BY <1>4, Fresh DEF Begin, ReauthTypeOK
  <2> QED
    BY <1>4, <2>1, <2>2, <2>3 DEF Begin, ReauthTypeOK
<1>5. ASSUME NEW k \in Conns, RelayPrompt(k) \/ RelayNotice(k) PROVE ReauthTypeOK'
  <2>1. CASE Ends(k)
    BY <1>5, <2>1, EndsKeepsTypes DEF RelayPrompt, RelayNotice, ReauthTypeOK
  <2>2. CASE ~Ends(k)
    <3>1. up' \in Seq(Event)
      BY <1>5, <2>2, Queues DEF RelayPrompt, RelayNotice, Hears, ReauthTypeOK
    <3>2. /\ outbox' \in [Conns -> Seq(Response)]
          /\ UNCHANGED <<link, backlog, open>>
      BY <1>5, <2>2, AnswerTypes
         DEF RelayPrompt, RelayNotice, Response, ReauthTypeOK
    <3> QED
      BY <1>5, <2>2, <3>1, <3>2 DEF RelayPrompt, RelayNotice, ReauthTypeOK
  <2> QED
    BY <2>1, <2>2
<1>6. ASSUME NEW k \in Conns, RelayReply(k) \/ RelayCancel(k) PROVE ReauthTypeOK'
  <2>1. inbox' \in [Conns -> Seq(Request)]
    BY <1>6, ReadsTypes DEF RelayReply, RelayCancel
  <2>2. down' \in Seq(Command)
    <3>1. PICK c \in Command : Tell(c)
      <4>1. CASE RelayReply(k)
        <5>1. Head(inbox[k]) \in Request /\ Head(inbox[k]).t = "Reply"
          BY <4>1, ReadsTypes DEF RelayReply
        <5>2. Head(inbox[k]).secret \in Users
          BY <5>1 DEF Request
        <5> QED
          BY <4>1, <5>2 DEF RelayReply, Command
      <4>2. CASE RelayCancel(k)
        BY <4>2 DEF RelayCancel, Command
      <4> QED
        BY <1>6, <4>1, <4>2
    <3> QED
      BY <3>1, Queues DEF Tell, ReauthTypeOK
  <2> QED
    BY <1>6, <2>1, <2>2 DEF RelayReply, RelayCancel, ReauthTypeOK
<1>7. ASSUME NEW k \in Conns, Verdict(k) \/ DenyVanished(k) \/ DenyReply(k)
      PROVE  ReauthTypeOK'
  <2>1. CASE Ends(k)
    BY <1>7, <2>1, EndsKeepsTypes
       DEF Verdict, DenyVanished, DenyReply, ReauthTypeOK
  <2>2. CASE ~Ends(k)
    <3>1. /\ \E r \in Response : Answer(k, r)
          /\ DropWorker /\ s' = "Between" /\ UNCHANGED proven
          /\ UNCHANGED inbox \/ Reads(k, {"Reply"})
      BY <1>7, <2>2 DEF Verdict, DenyVanished, DenyReply, Outcome, Response
    <3>2. /\ outbox' \in [Conns -> Seq(Response)]
          /\ UNCHANGED <<link, backlog, open>>
      BY <3>1, AnswerTypes
    <3>3. inbox' \in [Conns -> Seq(Request)]
      BY <3>1, ReadsTypes DEF ReauthTypeOK
    <3> QED
      BY <3>1, <3>2, <3>3, DropTypes DEF ReauthTypeOK
  <2> QED
    BY <2>1, <2>2
<1> QED
  BY <1>1, <1>2, <1>3, <1>4, <1>5, <1>6, <1>7 DEF ServiceStep

LEMMA WorkerTypes ==
  ASSUME ReauthTypeOK, WorkerStep
  PROVE  ReauthTypeOK'
<1>0. UNCHANGED <<link, backlog, open, inbox, outbox, s>>
  BY DEF WorkerStep, BeginConversation, Ask, Notify, HearReply,
         EndConversation, wire
<1>1. CASE BeginConversation
  <2>1. down' \in Seq(Command)
    BY <1>1, Queues DEF BeginConversation, Obeys, ReauthTypeOK
  <2> QED
    BY <1>0, <1>1, <2>1 DEF BeginConversation, Faults, ReauthTypeOK
<1>2. CASE Ask \/ Notify
  <2>1. up' \in Seq(Event)
    <3>1. PICK e \in Event : up' = Append(up, e)
      BY <1>2 DEF Ask, Notify, Event
    <3> QED
      BY <3>1, Queues DEF ReauthTypeOK
  <2>2. messages' \in 0..MaxMessages
    BY <1>2, ReauthAssumption DEF Ask, Notify, ReauthTypeOK
  <2> QED
    BY <1>0, <1>2, <2>1, <2>2 DEF Ask, Notify, ReauthTypeOK
<1>3. ASSUME NEW k \in Conns, HearReply(k) PROVE ReauthTypeOK'
  <2>1. down' \in Seq(Command)
    BY <1>3, Queues DEF HearReply, Obeys, ReauthTypeOK
  <2>2. heard' \in BOOLEAN /\ fault' \in Faults \cup {"none"}
    BY <1>3 DEF HearReply, Faults, ReauthTypeOK
  <2> QED
    BY <1>0, <1>3, <2>1, <2>2 DEF HearReply, ReauthTypeOK
<1>4. ASSUME NEW k \in Conns, EndConversation(k) PROVE ReauthTypeOK'
  <2>1. PICK e \in Event : up' = Append(up, e)
    BY <1>4 DEF EndConversation, Event, ReauthTypeOK
  <2>2. up' \in Seq(Event)
    BY <2>1, Queues DEF ReauthTypeOK
  <2>3. proven' \in SUBSET Conns
    BY <1>4 DEF EndConversation, ReauthTypeOK
  <2> QED
    BY <1>0, <1>4, <2>2, <2>3 DEF EndConversation, ReauthTypeOK
<1> QED
  BY <1>1, <1>2, <1>3, <1>4 DEF WorkerStep

LEMMA FaultyTypes ==
  ASSUME ReauthTypeOK, Faulty
  PROVE  ReauthTypeOK'
<1>1. CASE WorkerDies
  BY <1>1 DEF WorkerDies, wire, ReauthTypeOK
<1>2. CASE ServiceDies
  <2>1. {k \in Conns : Live(k)} \in SUBSET Conns /\ <<>> \in Seq(Conns)
    OBVIOUS
  <2> QED
    BY <1>2, <2>1, EndsTypes DEF ServiceDies, ReauthTypeOK
<1>3. CASE ServiceReturns
  BY <1>3 DEF ServiceReturns, wire, worker, ReauthTypeOK
<1> QED
  BY <1>1, <1>2, <1>3 DEF Faulty

-----------------------------------------------------------------------------
\* A peer's move changes neither the service nor its worker, and it serves
\* nobody and takes the proof of nobody who is served.
LEMMA PeerKeeps ==
  ASSUME RInv, NEW k \in Conns, PeerMove(k)
  PROVE  OneServed' /\ WorkerOfAttempt' /\ SuccessProven'
<1>1. UNCHANGED <<s, up, w>>
  BY DEF PeerMove, worker
<1>2. \A j \in Conns : Serving(j)' => Serving(j) /\ (j \in proven => j \in proven')
  <2>1. CASE \E frames \in Seq(Request) : Connect(k, frames)
    BY <2>1 DEF Connect, Serving, RInv, ReauthTypeOK
  <2>2. CASE (\E r \in Request : Send(k, r)) /\ UNCHANGED proven
    BY <2>2 DEF Send, Serving
  <2>3. CASE (\E r \in Response : Receive(k, r)) /\ UNCHANGED proven
    BY <2>3 DEF Receive, Serving
  <2>4. CASE HangUp(k) /\ UNCHANGED proven
    BY <2>4 DEF HangUp, Serving, RInv, ReauthTypeOK
  <2> QED
    BY <2>1, <2>2, <2>3, <2>4 DEF PeerMove
<1> QED
  BY <1>1, <1>2 DEF RInv, OneServed, WorkerOfAttempt, SuccessProven

\* After the end of the served connection nobody is served.
LEMMA EndsKeeps ==
  ASSUME RInv, NEW k \in Conns, Serving(k), Ends(k)
  PROVE  OneServed' /\ WorkerOfAttempt' /\ SuccessProven'
<1>1. \A j \in Conns : ~Serving(j)'
  BY DEF Ends, Close, Serving, RInv, OneServed, ReauthTypeOK
<1>2. up' = <<>> /\ w' = "none" /\ s' = "Accept"
  BY DEF Ends, DropWorker
<1> QED
  BY <1>1, <1>2 DEF OneServed, WorkerOfAttempt, SuccessProven

\* Steps that serve nobody else, stay with the connection and add no success.
LEMMA StaysWith ==
  ASSUME RInv, UNCHANGED link, s' \notin {"Accept", "Down"},
         UNCHANGED <<up, w, s, proven>> \/ (up' = <<>> /\ w' = "none")
           \/ /\ s' \in {"AuthWait", "Reply"}
              /\ \/ up' = <<>>
                 \/ up # <<>> /\ up' = Tail(up) /\ UNCHANGED proven
                 \/ UNCHANGED <<up, proven>>
  PROVE  OneServed' /\ WorkerOfAttempt' /\ SuccessProven'
<1>1. OneServed'
  BY DEF RInv, OneServed, Serving
<1>2. WorkerOfAttempt'
  BY DEF RInv, WorkerOfAttempt
<1>3. CASE up' = <<>>
  BY <1>1, <1>2, <1>3 DEF SuccessProven
<1>4. CASE UNCHANGED <<up, proven>>
  BY <1>1, <1>2, <1>4 DEF RInv, SuccessProven, Serving
<1>5. CASE up # <<>> /\ up' = Tail(up) /\ UNCHANGED proven
  <2>1. \A i \in 1..Len(up') : i + 1 \in 1..Len(up) /\ up'[i] = up[i + 1]
    BY <1>5 DEF RInv, ReauthTypeOK
  <2> QED
    BY <1>1, <1>2, <1>5, <2>1 DEF RInv, SuccessProven, Serving
<1> QED
  BY <1>3, <1>4, <1>5

LEMMA ServiceKeeps ==
  ASSUME RInv, ServiceStep
  PROVE  OneServed' /\ WorkerOfAttempt' /\ SuccessProven'
<1>1. CASE Accept
  <2>1. up' = <<>> /\ w' = "none" /\ s' = "Handshake"
    BY <1>1 DEF Accept, worker, RInv, WorkerOfAttempt
  <2>2. \A j \in Conns : Serving(j)' => j = Head(backlog)
    BY <1>1 DEF Accept, RInv, OneServed, Serving, ReauthTypeOK
  <2> QED
    BY <2>1, <2>2 DEF OneServed, WorkerOfAttempt, SuccessProven
<1>2. ASSUME NEW k \in Conns,
             Welcome(k) \/ BetweenAttempts(k) \/ DenyOutright(k)
      PROVE  OneServed' /\ WorkerOfAttempt' /\ SuccessProven'
  <2>1. Serving(k) /\ s \in {"Handshake", "Between"}
    BY <1>2 DEF Welcome, BetweenAttempts, DenyOutright, Exchange, Reads
  <2>2. CASE Ends(k)
    BY <2>1, <2>2, EndsKeeps
  <2>3. CASE ~Ends(k)
    <3>1. s' = "Between" /\ UNCHANGED <<link, worker>>
      BY <1>2, <2>3
         DEF Welcome, BetweenAttempts, DenyOutright, Exchange, Answer
    <3>2. up' = <<>> /\ w' = "none"
      BY <2>1, <3>1 DEF worker, RInv, WorkerOfAttempt
    <3> QED
      BY <3>1, <3>2, StaysWith
  <2> QED
    BY <2>2, <2>3
<1>3. ASSUME NEW k \in Conns,
             RefuseHandshake(k) \/ Disconnect(k) \/ PromptBreaks(k)
      PROVE  OneServed' /\ WorkerOfAttempt' /\ SuccessProven'
  BY <1>3, EndsKeeps
     DEF RefuseHandshake, Disconnect, PromptBreaks, GivesUp, Silent
<1>4. ASSUME NEW k \in Conns, Begin(k)
      PROVE  OneServed' /\ WorkerOfAttempt' /\ SuccessProven'
  BY <1>4, StaysWith DEF Begin
<1>5. ASSUME NEW k \in Conns, RelayPrompt(k) \/ RelayNotice(k)
      PROVE  OneServed' /\ WorkerOfAttempt' /\ SuccessProven'
  <2>1. Serving(k) /\ up # <<>> /\ s = "AuthWait" /\ UNCHANGED proven
    BY <1>5 DEF RelayPrompt, RelayNotice, Hears
  <2>2. CASE Ends(k)
    BY <2>1, <2>2, EndsKeeps
  <2>3. CASE ~Ends(k)
    <3>1. UNCHANGED link /\ up' = Tail(up) /\ s' \in {"AuthWait", "Reply"}
      BY <1>5, <2>1, <2>3 DEF RelayPrompt, RelayNotice, Answer
    <3> QED
      BY <2>1, <3>1, StaysWith
  <2> QED
    BY <2>2, <2>3
<1>6. ASSUME NEW k \in Conns, RelayReply(k) \/ RelayCancel(k)
      PROVE  OneServed' /\ WorkerOfAttempt' /\ SuccessProven'
  BY <1>6, StaysWith DEF RelayReply, RelayCancel
<1>7. ASSUME NEW k \in Conns, Verdict(k) \/ DenyVanished(k) \/ DenyReply(k)
      PROVE  OneServed' /\ WorkerOfAttempt' /\ SuccessProven'
  <2>1. Serving(k)
    BY <1>7 DEF Verdict, DenyVanished, DenyReply, Hears, WorkerVanished
  <2>2. CASE Ends(k)
    BY <2>1, <2>2, EndsKeeps
  <2>3. CASE ~Ends(k)
    <3>1. UNCHANGED link /\ up' = <<>> /\ w' = "none" /\ s' = "Between"
      BY <1>7, <2>3 DEF Verdict, DenyVanished, DenyReply, Answer, DropWorker
    <3> QED
      BY <3>1, StaysWith
  <2> QED
    BY <2>2, <2>3
<1> QED
  BY <1>1, <1>2, <1>3, <1>4, <1>5, <1>6, <1>7 DEF ServiceStep

LEMMA WorkerKeeps ==
  ASSUME RInv, WorkerStep
  PROVE  OneServed' /\ WorkerOfAttempt' /\ SuccessProven'
<1>0. UNCHANGED <<link, s>> /\ w # "none"
  BY DEF WorkerStep, BeginConversation, Ask, Notify, HearReply,
         EndConversation, wire
<1>1. s \in {"AuthWait", "Reply"}
  BY <1>0 DEF RInv, WorkerOfAttempt
<1>2. OneServed' /\ WorkerOfAttempt'
  BY <1>0, <1>1 DEF RInv, OneServed, WorkerOfAttempt, Serving
<1>3. ASSUME UNCHANGED <<up, proven>> PROVE SuccessProven'
  BY <1>0, <1>3 DEF RInv, SuccessProven, Serving
<1>4. ASSUME NEW e, up' = Append(up, e), UNCHANGED proven, e # "Success"
      PROVE  SuccessProven'
  BY <1>0, <1>4 DEF RInv, ReauthTypeOK, SuccessProven, Serving
<1>5. ASSUME NEW k \in Conns, EndConversation(k)
      PROVE  SuccessProven'
  <2>1. PICK e : /\ up' = Append(up, e)
                 /\ proven' \in {proven, proven \cup {k}}
                 /\ e = "Success" => k \in proven'
    <3>1. PICK accepted \in {FALSE, heard} :
            /\ up' = Append(up, IF fault # "none" THEN fault
                                ELSE IF accepted THEN "Success" ELSE "Failure")
            /\ proven' = IF fault = "none" /\ accepted THEN proven \cup {k}
                                                       ELSE proven
      BY <1>5 DEF EndConversation
    <3>2. fault \in Faults \cup {"none"}
      BY DEF RInv, ReauthTypeOK
    <3>3. CASE fault = "none" /\ accepted
      BY <3>1, <3>3
    <3>4. CASE ~(fault = "none" /\ accepted)
      <4>1. \E e : up' = Append(up, e) /\ e # "Success"
        BY <3>1, <3>2, <3>4 DEF Faults
      <4>2. proven' = proven
        BY <3>1, <3>4
      <4> QED
        BY <4>1, <4>2
    <3> QED
      BY <3>3, <3>4
  <2>2. Serving(k)
    BY <1>5 DEF EndConversation
  <2> QED
    BY <1>0, <2>1, <2>2 DEF RInv, ReauthTypeOK, OneServed, SuccessProven, Serving
<1> QED
  BY <1>2, <1>3, <1>4, <1>5
     DEF WorkerStep, BeginConversation, Ask, Notify, HearReply

LEMMA FaultyKeeps ==
  ASSUME RInv, Faulty
  PROVE  OneServed' /\ WorkerOfAttempt' /\ SuccessProven'
<1>1. CASE WorkerDies
  <2>1. s \in {"AuthWait", "Reply"} /\ UNCHANGED <<link, s, up, proven>>
    BY <1>1 DEF WorkerDies, WorkerUp, wire, RInv, WorkerOfAttempt
  <2> QED
    BY <2>1 DEF RInv, OneServed, WorkerOfAttempt, SuccessProven, Serving
<1>2. CASE ServiceDies
  <2>1. \A j \in Conns : ~Serving(j)'
    BY <1>2 DEF ServiceDies, Close, Live, Serving, RInv, ReauthTypeOK
  <2>2. up' = <<>> /\ w' = "none"
    BY <1>2 DEF ServiceDies, DropWorker
  <2> QED
    BY <2>1, <2>2 DEF OneServed, WorkerOfAttempt, SuccessProven
<1>3. CASE ServiceReturns
  <2>1. UNCHANGED <<link, up, w, proven>> /\ s = "Down" /\ s' = "Accept"
    BY <1>3 DEF ServiceReturns, wire, worker
  <2> QED
    BY <2>1 DEF RInv, OneServed, WorkerOfAttempt, SuccessProven, Serving
<1> QED
  BY <1>1, <1>2, <1>3 DEF Faulty

\* Any step of the service, its worker, a fault or a peer keeps it.
LEMMA MoveKeepsRInv == RInv /\ (AnyMove \/ UNCHANGED reauth) => RInv'
<1> SUFFICES ASSUME RInv, AnyMove \/ UNCHANGED reauth PROVE RInv'
  OBVIOUS
<1>1. CASE ServiceStep
  BY <1>1, ServiceTypes, ServiceKeeps DEF RInv
<1>2. CASE WorkerStep
  BY <1>2, WorkerTypes, WorkerKeeps DEF RInv
<1>3. CASE Faulty
  BY <1>3, FaultyTypes, FaultyKeeps DEF RInv
<1>4. ASSUME NEW k \in Conns, PeerMove(k) PROVE RInv'
  BY <1>4, PeerTypes, PeerKeeps DEF RInv
<1>5. CASE UNCHANGED reauth
  BY <1>5 DEF reauth, wire, worker, RInv, ReauthTypeOK, OneServed,
              WorkerOfAttempt, SuccessProven, Serving
<1> QED
  BY <1>1, <1>2, <1>3, <1>4, <1>5 DEF AnyMove

LEMMA NextIsMove == ReauthNext => AnyMove
<1>1. ASSUME NEW k \in Conns, Peer(k) PROVE PeerMove(k)
  <2>1. <<>> \in Seq(Request)
    OBVIOUS
  <2> QED
    BY <1>1, <2>1 DEF Peer, PeerConnects, PeerSends, PeerReceives,
                      PeerHangsUp, PeerMove
<1> QED
  BY <1>1 DEF ReauthNext, AnyMove

-----------------------------------------------------------------------------
\* Type correctness of the reauthentication service (reauth.rs) among
\* arbitrary peers.
THEOREM ReauthTypeCorrect == ReauthSpec => []ReauthTypeOK
<1>1. RInv /\ [ReauthNext]_reauth => RInv'
  BY MoveKeepsRInv, NextIsMove
<1>2. RInv => ReauthTypeOK
  BY DEF RInv
<1> QED
  BY <1>1, <1>2, InitRInv, PTL DEF ReauthSpec

-----------------------------------------------------------------------------
\* A response makes the queue of its own connection longer, and no other.
LEMMA Answered ==
  ASSUME ReauthTypeOK, NEW j \in Conns, NEW r, Answer(j, r),
         NEW k \in Conns, Len(outbox[k]') > Len(outbox[k])
  PROVE  j = k /\ outbox[k]'[Len(outbox[k]')] = r
BY DEF Answer, ReauthTypeOK

\* Whatever else happens, no response is written.
LEMMA NotAnswered ==
  ASSUME ReauthTypeOK, NEW k \in Conns,
         \/ UNCHANGED outbox
         \/ Accept \/ WorkerStep \/ Faulty
         \/ \E j \in Conns : PeerMove(j) \/ Ends(j)
  PROVE  ~(Len(outbox[k]') > Len(outbox[k]))
<1>1. CASE UNCHANGED outbox
  BY <1>1 DEF ReauthTypeOK
<1>2. CASE Accept \/ WorkerStep \/ Faulty \/ \E j \in Conns : Ends(j)
  <2>1. UNCHANGED outbox
    BY <1>2 DEF Accept, WorkerStep, Faulty, Ends, BeginConversation, Ask,
                Notify, HearReply, EndConversation, WorkerDies, ServiceDies,
                ServiceReturns, wire
  <2> QED
    BY <2>1, <1>1
<1>3. ASSUME NEW j \in Conns, PeerMove(j)
      PROVE  ~(Len(outbox[k]') > Len(outbox[k]))
  <2>1. \/ UNCHANGED outbox
        \/ outbox[j] # <<>> /\ outbox' = [outbox EXCEPT ![j] = Tail(@)]
        \/ outbox' = [outbox EXCEPT ![j] = <<>>]
    BY <1>3 DEF PeerMove, Connect, Send, Receive, HangUp
  <2>2. outbox \in [Conns -> Seq(Response)]
    BY DEF ReauthTypeOK
  <2>3. outbox[k] # <<>> => Len(Tail(outbox[k])) = Len(outbox[k]) - 1
    BY <2>2
  <2>4. Len(outbox[k]) \in Nat /\ Len(<<>>) = 0
    BY <2>2
  <2>5. \/ outbox'[k] = outbox[k]
        \/ outbox[k] # <<>> /\ outbox'[k] = Tail(outbox[k])
        \/ outbox'[k] = <<>>
    BY <2>1, <2>2
  <2>6. \/ Len(outbox[k]') = Len(outbox[k])
        \/ Len(outbox[k]') = Len(outbox[k]) - 1
        \/ Len(outbox[k]') = 0
    BY <2>3, <2>4, <2>5, Zenon
  <2> QED
    BY <2>4, <2>6
<1> QED
  BY <1>1, <1>2, <1>3

\* Only a verdict that PAM accepted is answered with Allow.
LEMMA AllowStep ==
  ASSUME RInv, AnyMove \/ UNCHANGED reauth, NEW k \in Conns,
         Len(outbox[k]') > Len(outbox[k]), outbox[k]'[Len(outbox[k]')] = "Allow"
  PROVE  Serving(k) /\ k \in proven /\ s' = "Between" /\ UNCHANGED proven
<1>1. ReauthTypeOK
  BY DEF RInv
<1>2. ~UNCHANGED outbox
  BY <1>1, NotAnswered
<1>3. ServiceStep /\ ~Accept /\ \A j \in Conns : ~Ends(j)
  BY <1>1, <1>2, NotAnswered DEF AnyMove, reauth, wire
<1>4. PICK j \in Conns :
        \/ Welcome(j) \/ BetweenAttempts(j) \/ DenyOutright(j) \/ Begin(j)
        \/ RelayPrompt(j) \/ RelayNotice(j) \/ RelayReply(j) \/ DenyReply(j)
        \/ RelayCancel(j) \/ Verdict(j) \/ DenyVanished(j)
  BY <1>3 DEF ServiceStep, RefuseHandshake, Disconnect, PromptBreaks, GivesUp
<1>5. \A r : Answer(j, r) => j = k /\ r = "Allow"
  BY <1>1, Answered
<1>6. \A types, r : Exchange(j, types, r) => r = "Allow"
  BY <1>3, <1>5 DEF Exchange
<1>7. Verdict(j)
  <2>1. ~Welcome(j) /\ ~DenyOutright(j)
    BY <1>6 DEF Welcome, DenyOutright
  <2>2. ~BetweenAttempts(j)
    BY <1>2, <1>6 DEF BetweenAttempts
  <2>3. ~Begin(j) /\ ~RelayReply(j) /\ ~RelayCancel(j)
    BY <1>2 DEF Begin, RelayReply, RelayCancel
  <2>4. ~RelayPrompt(j) /\ ~RelayNotice(j) /\ ~DenyReply(j) /\ ~DenyVanished(j)
    BY <1>2, <1>3, <1>5 DEF RelayPrompt, RelayNotice, DenyReply, DenyVanished
  <2> QED
    BY <1>4, <2>1, <2>2, <2>3, <2>4
<1>8. Answer(j, Outcome(Head(up))) /\ up # <<>> /\ Serving(j)
  BY <1>3, <1>7 DEF Verdict, Hears
<1>9. j = k /\ Head(up) = "Success"
  BY <1>5, <1>8 DEF Outcome
<1>10. 1 \in 1..Len(up) /\ up[1] = "Success"
  BY <1>1, <1>8, <1>9 DEF ReauthTypeOK
<1>11. s' = "Between" /\ UNCHANGED proven
  BY <1>3, <1>7 DEF Verdict
<1> QED
  BY <1>8, <1>9, <1>10, <1>11 DEF RInv, SuccessProven

\* The service fails closed (reauth.rs:82-94, 196-203, 274-278, 395-398): among
\* any peers, whatever they send and whoever dies, a connection is allowed only
\* when PAM has just accepted the secret of its own user.
THEOREM ReauthFailsClosed == ReauthSpec => AllowsOnlyProven
<1>1. RInv /\ [ReauthNext]_reauth => RInv'
  BY MoveKeepsRInv, NextIsMove
<1>2. RInv /\ [ReauthNext]_reauth
        => [\A k \in Conns :
              Len(outbox[k]') > Len(outbox[k])
                /\ outbox[k]'[Len(outbox[k]')] = "Allow"
                  => Serving(k) /\ k \in proven]_reauth
  BY AllowStep, NextIsMove
<1> QED
  BY <1>1, <1>2, InitRInv, PTL DEF ReauthSpec, AllowsOnlyProven

-----------------------------------------------------------------------------
(***************************************************************************)
(* The service and its worker keep step.  VerifierInStep sees who waits;   *)
(* Talk says as well which frames are under way, without which nothing is  *)
(* known of the worker once the service has read one of them.              *)
(***************************************************************************)
Infos(q) == \A i \in 1..Len(q) : q[i] = "Info"

InfosThen(q, ends) ==
  /\ q # <<>> /\ q[Len(q)] \in ends
  /\ \A i \in 1..(Len(q) - 1) : q[i] = "Info"

Concluding == {"Success", "Failure"} \cup Faults

\* What the service told the worker: to begin, or the answer to its prompt.
Told(types) == Len(down) = 1 /\ down[1].t \in types

\* The conversation goes on, the worker asks, or it has concluded.
TalkOn ==
  /\ Infos(up)
  /\ WorkerUp => \/ w = "pam" /\ down = <<>>
                 \/ w = "idle" /\ up = <<>> /\ Told({"Auth"})
                 \/ w = "ask" /\ up = <<>> /\ Told({"Reply", "Cancel"})
TalkAsks == InfosThen(up, {"Prompt"}) /\ (WorkerUp => w = "ask" /\ down = <<>>)
TalkEnds == InfosThen(up, Concluding) /\ (WorkerUp => w = "idle" /\ down = <<>>)

Talk ==
  /\ s \in {"AuthWait", "Reply"} => w # "none"
  /\ s = "AuthWait" => TalkOn \/ TalkAsks \/ TalkEnds
  /\ s = "Reply" => up = <<>> /\ (WorkerUp => w = "ask" /\ down = <<>>)

\* The worker writes after its notices.
LEMMA InfosMore ==
  ASSUME NEW q \in Seq(Event), Infos(q), NEW e \in Event
  PROVE  /\ e = "Info" => Infos(Append(q, e))
         /\ \A ends : e \in ends => InfosThen(Append(q, e), ends)
<1> DEFINE a == Append(q, e)
<1>1. /\ Len(q) \in Nat /\ Len(a) = Len(q) + 1 /\ a # <<>>
      /\ a[Len(q) + 1] = e /\ \A i \in 1..Len(q) : a[i] = q[i]
  OBVIOUS
<1> HIDE DEF a
<1>2. \A i \in 1..Len(a) : i \in 1..Len(q) \/ i = Len(q) + 1
  BY <1>1
<1>3. e = "Info" => Infos(a)
  BY <1>1, <1>2 DEF Infos
<1>4. 1..(Len(a) - 1) = 1..Len(q)
  BY <1>1
<1>5. \A ends : e \in ends => InfosThen(a, ends)
  BY <1>1, <1>4 DEF Infos, InfosThen
<1> QED
  BY <1>3, <1>5 DEF a

\* The service reads the first of what was written.
LEMMA InfosLess ==
  ASSUME NEW q \in Seq(Event), q # <<>>
  PROVE  /\ Infos(q) => Head(q) = "Info" /\ Infos(Tail(q))
         /\ \A ends :
              InfosThen(q, ends) =>
                \/ Head(q) \in ends /\ Tail(q) = <<>>
                \/ Head(q) = "Info" /\ InfosThen(Tail(q), ends)
<1> DEFINE t == Tail(q)
<1>1. /\ Len(q) \in Nat /\ Len(q) >= 1 /\ Head(q) = q[1]
      /\ t \in Seq(Event) /\ Len(t) = Len(q) - 1
      /\ \A i \in 1..Len(t) : t[i] = q[i + 1]
  OBVIOUS
<1>2. ASSUME Len(q) = 1 PROVE t = <<>>
  <2>1. t \in Seq(Event) /\ Len(t) = 0
    BY <1>1, <1>2
  <2> QED
    BY <2>1, EmptySeq
<1> HIDE DEF t
<1>3. Infos(q) => Head(q) = "Info" /\ Infos(t)
  BY <1>1 DEF Infos
<1>4. ASSUME NEW ends, InfosThen(q, ends), Len(q) # 1
      PROVE  Head(q) = "Info" /\ InfosThen(t, ends)
  <2>1. /\ q[Len(q)] \in ends /\ \A i \in 1..(Len(q) - 1) : q[i] = "Info"
        /\ Len(t) >= 1
    BY <1>1, <1>4 DEF InfosThen
  <2>2. t # <<>>
    BY <1>1, <2>1, EmptySeq
  <2>3. t[Len(t)] \in ends /\ Head(q) = "Info"
    BY <1>1, <2>1
  <2>4. \A i \in 1..(Len(t) - 1) : t[i] = "Info"
    <3>1. \A i \in 1..(Len(t) - 1) :
            i \in 1..Len(t) /\ i + 1 \in 1..(Len(q) - 1)
      BY <1>1
    <3> QED
      BY <1>1, <2>1, <3>1
  <2> QED
    BY <2>2, <2>3, <2>4 DEF InfosThen
<1>5. ASSUME NEW ends, InfosThen(q, ends), Len(q) = 1
      PROVE  Head(q) \in ends
  BY <1>1, <1>5 DEF InfosThen
<1> QED
  BY <1>2, <1>3, <1>4, <1>5 DEF t

\* A command to a worker that had none.
LEMMA ToldOne ==
  ASSUME NEW c \in Command, down = <<>>, down' = Append(down, c)
  PROVE  Told({c.t})'
BY DEF Told

LEMMA ToldTail ==
  ASSUME down \in Seq(Command), NEW types, Told(types)
  PROVE  Tail(down) = <<>> /\ Head(down) = down[1]
<1>1. down # <<>> /\ Len(down) = 1
  BY EmptySeq DEF Told
<1>2. /\ Len(Tail(down)) = 0 /\ Tail(down) \in Seq(Command)
      /\ Head(down) = down[1]
  BY <1>1, HeadTailProperties
<1> QED
  BY <1>2, EmptySeq

LEMMA TalkService ==
  ASSUME RInv, Talk, ServiceStep
  PROVE  Talk'
<1>0. up \in Seq(Event) /\ down \in Seq(Command)
  BY DEF RInv, ReauthTypeOK
<1>1. ASSUME s' \notin {"AuthWait", "Reply"} PROVE Talk'
  BY <1>1 DEF Talk
<1>2. ASSUME NEW k \in Conns, Begin(k) PROVE Talk'
  <2>1. up' = <<>> /\ w' = "idle" /\ Told({"Auth"})' /\ s' = "AuthWait"
    BY <1>2 DEF Begin, Told
  <2> QED
    BY <2>1 DEF Talk, TalkOn, Infos
<1>3. ASSUME NEW k \in Conns, RelayPrompt(k) PROVE Talk'
  <2>1. CASE Ends(k)
    BY <1>1, <2>1 DEF Ends
  <2>2. CASE s' = "Reply" /\ up' = Tail(up) /\ UNCHANGED <<down, w>>
    <3>1. s = "AuthWait" /\ up # <<>> /\ Head(up) = "Prompt"
      BY <1>3 DEF RelayPrompt, Hears
    <3>2. ~TalkOn /\ ~TalkEnds
      BY <1>0, <3>1, InfosLess DEF TalkOn, TalkEnds, Concluding, Faults
    <3>3. TalkAsks /\ Tail(up) = <<>>
      BY <1>0, <3>1, <3>2, InfosLess DEF Talk, TalkAsks
    <3>4. /\ up' = <<>> /\ s' = "Reply" /\ w' # "none"
          /\ WorkerUp' => w' = "ask" /\ down' = <<>>
      BY <2>2, <3>1, <3>3 DEF Talk, TalkAsks, WorkerUp
    <3> QED
      BY <3>4 DEF Talk
  <2> QED
    BY <1>3, <2>1, <2>2 DEF RelayPrompt
<1>4. ASSUME NEW k \in Conns, RelayNotice(k) PROVE Talk'
  <2>1. /\ s = "AuthWait" /\ up # <<>> /\ Head(up) = "Info"
        /\ up' = Tail(up) /\ UNCHANGED <<s, down, w>>
    BY <1>4 DEF RelayNotice, Hears
  <2>2. CASE TalkOn
    <3>1. Infos(up') /\ (WorkerUp => w = "pam" /\ down = <<>>)
      BY <1>0, <2>1, <2>2, InfosLess DEF TalkOn
    <3> QED
      BY <2>1, <3>1 DEF Talk, TalkOn, WorkerUp
  <2>3. CASE TalkAsks
    <3>1. InfosThen(up', {"Prompt"})
      BY <1>0, <2>1, <2>3, InfosLess DEF TalkAsks
    <3> QED
      BY <2>1, <2>3, <3>1 DEF Talk, TalkAsks, WorkerUp
  <2>4. CASE TalkEnds
    <3>1. InfosThen(up', Concluding)
      BY <1>0, <2>1, <2>4, InfosLess DEF TalkEnds, Concluding, Faults
    <3> QED
      BY <2>1, <2>4, <3>1 DEF Talk, TalkEnds, WorkerUp
  <2> QED
    BY <2>1, <2>2, <2>3, <2>4 DEF Talk
<1>5. ASSUME NEW k \in Conns, RelayReply(k) \/ RelayCancel(k) PROVE Talk'
  <2>1. PICK c \in Command : Tell(c) /\ c.t \in {"Reply", "Cancel"}
    <3>1. CASE RelayReply(k)
      <4>1. Head(inbox[k]) \in Request /\ Head(inbox[k]).t = "Reply"
        BY <3>1, ReadsTypes DEF RelayReply, RInv
      <4>2. Head(inbox[k]).secret \in Users
        BY <4>1 DEF Request
      <4> QED
        BY <3>1, <4>2 DEF RelayReply, Command
    <3>2. CASE RelayCancel(k)
      BY <3>2 DEF RelayCancel, Command
    <3> QED
      BY <1>5, <3>1, <3>2
  <2>2. s = "Reply" /\ s' = "AuthWait" /\ UNCHANGED <<up, w>>
    BY <1>5 DEF RelayReply, RelayCancel
  <2>3. up' = <<>> /\ (WorkerUp => w = "ask" /\ Told({"Reply", "Cancel"})')
    <3>1. up = <<>> /\ (WorkerUp => w = "ask" /\ down = <<>>)
      BY <2>2 DEF Talk
    <3>2. WorkerUp => Told({c.t})'
      BY <2>1, <3>1, ToldOne DEF Tell
    <3> QED
      BY <2>1, <2>2, <3>1, <3>2 DEF Told
  <2> QED
    BY <2>2, <2>3 DEF Talk, TalkOn, Infos, WorkerUp
<1>6. ASSUME NEW k \in Conns,
             Welcome(k) \/ RefuseHandshake(k) \/ Disconnect(k)
             \/ BetweenAttempts(k) \/ DenyOutright(k) \/ DenyReply(k)
             \/ PromptBreaks(k) \/ Verdict(k) \/ DenyVanished(k)
      PROVE  Talk'
  <2>1. s' \in {"Between", "Accept"}
    BY <1>6 DEF Welcome, RefuseHandshake, Disconnect, BetweenAttempts,
       DenyOutright, DenyReply, PromptBreaks, Verdict, DenyVanished, Exchange,
       GivesUp, Ends
  <2> QED
    BY <1>1, <2>1
<1>7. CASE Accept
  BY <1>1, <1>7 DEF Accept
<1> QED
  BY <1>2, <1>3, <1>4, <1>5, <1>6, <1>7 DEF ServiceStep

LEMMA TalkWorker ==
  ASSUME RInv, Talk, WorkerStep
  PROVE  Talk'
<1>0. /\ up \in Seq(Event) /\ down \in Seq(Command)
      /\ fault \in Faults \cup {"none"} /\ UNCHANGED s
  BY DEF RInv, ReauthTypeOK, WorkerStep, BeginConversation, Ask, Notify,
         HearReply, EndConversation, wire
<1>1. WorkerUp /\ s \in {"AuthWait", "Reply"}
  BY DEF WorkerUp, RInv, WorkerOfAttempt, WorkerStep, BeginConversation, Ask,
         Notify, HearReply, EndConversation
<1>2. CASE BeginConversation
  <2>1. s = "AuthWait" /\ TalkOn /\ up = <<>> /\ Told({"Auth"})
    BY <1>1, <1>2 DEF Talk, TalkOn, TalkAsks, TalkEnds, BeginConversation, Obeys
  <2>2. down' = <<>> /\ UNCHANGED up /\ w' = "pam"
    BY <1>0, <1>2, <2>1, ToldTail DEF BeginConversation, Obeys
  <2> QED
    BY <1>0, <2>1, <2>2 DEF Talk, TalkOn, Infos
<1>3. CASE Ask \/ Notify
  <2>1. s = "AuthWait" /\ w = "pam" /\ Infos(up) /\ down = <<>>
    BY <1>1, <1>3 DEF Talk, TalkOn, TalkAsks, TalkEnds, Ask, Notify
  <2>2. CASE Ask
    <3>1. InfosThen(up', {"Prompt"})
      BY <1>0, <2>1, <2>2, InfosMore DEF Ask, Event
    <3> QED
      BY <1>0, <2>1, <2>2, <3>1 DEF Ask, Talk, TalkAsks
  <2>3. CASE Notify
    <3>1. Infos(up')
      BY <1>0, <2>1, <2>3, InfosMore DEF Notify, Event
    <3> QED
      BY <1>0, <2>1, <2>3, <3>1 DEF Notify, Talk, TalkOn
  <2> QED
    BY <1>3, <2>2, <2>3
<1>4. ASSUME NEW k \in Conns, HearReply(k) PROVE Talk'
  <2>1. s = "AuthWait" /\ up = <<>> /\ Told({"Reply", "Cancel"})
    BY <1>1, <1>4 DEF Talk, TalkOn, TalkAsks, TalkEnds, HearReply, Obeys
  <2>2. down' = <<>> /\ UNCHANGED up /\ w' = "pam"
    BY <1>0, <1>4, <2>1, ToldTail DEF HearReply, Obeys
  <2> QED
    BY <1>0, <2>1, <2>2 DEF Talk, TalkOn, Infos
<1>5. ASSUME NEW k \in Conns, EndConversation(k) PROVE Talk'
  <2>1. s = "AuthWait" /\ w = "pam" /\ Infos(up) /\ down = <<>>
    BY <1>1, <1>5 DEF Talk, TalkOn, TalkAsks, TalkEnds, EndConversation
  <2>2. PICK e \in Concluding : up' = Append(up, e)
    BY <1>0, <1>5 DEF EndConversation, Concluding
  <2>3. InfosThen(up', Concluding)
    BY <1>0, <2>1, <2>2, InfosMore DEF Concluding, Event
  <2>4. w' = "idle" /\ UNCHANGED down
    BY <1>5 DEF EndConversation
  <2> QED
    BY <1>0, <2>1, <2>3, <2>4 DEF Talk, TalkEnds
<1> QED
  BY <1>2, <1>3, <1>4, <1>5 DEF WorkerStep

LEMMA TalkMove == RInv /\ Talk /\ (AnyMove \/ UNCHANGED reauth) => Talk'
<1> SUFFICES ASSUME RInv, Talk, AnyMove \/ UNCHANGED reauth PROVE Talk'
  OBVIOUS
<1>1. CASE WorkerDies
  BY <1>1 DEF WorkerDies, Talk, TalkOn, TalkAsks, TalkEnds, WorkerUp, Infos,
     InfosThen
<1>2. CASE ServiceDies \/ ServiceReturns
  BY <1>2 DEF ServiceDies, ServiceReturns, Talk
<1>3. CASE UNCHANGED <<s, worker>>
  BY <1>3 DEF worker, Talk, TalkOn, TalkAsks, TalkEnds, WorkerUp, Infos,
     InfosThen, Told
<1> QED
  BY <1>1, <1>2, <1>3, TalkService, TalkWorker
     DEF AnyMove, Faulty, PeerMove, reauth

LEMMA TalkInStep == RInv /\ Talk => VerifierInStep
<1> SUFFICES ASSUME RInv, Talk PROVE VerifierInStep
  OBVIOUS
<1>0. up \in Seq(Event) /\ down \in Seq(Command) /\ w \in {"none", "idle", "pam", "ask", "gone"}
  BY DEF RInv, ReauthTypeOK
<1>1. ASSUME s = "AuthWait", up = <<>>, down = <<>>
      PROVE  w \in {"pam", "gone"}
  BY <1>0, <1>1 DEF Talk, TalkOn, TalkAsks, TalkEnds, InfosThen, Told, WorkerUp
<1>2. ASSUME WorkerUp, NEW i \in 1..Len(down)
      PROVE  down[i].t \in IF w = "ask" THEN {"Reply", "Cancel"} ELSE {"Auth"}
  <2>1. down # <<>> /\ s \in {"AuthWait", "Reply"}
    BY <1>0, <1>2 DEF RInv, WorkerOfAttempt, WorkerUp
  <2>2. s = "AuthWait" /\ TalkOn
    BY <1>2, <2>1 DEF Talk, TalkAsks, TalkEnds
  <2>3. CASE w = "idle" /\ Told({"Auth"})
    BY <2>3 DEF Told
  <2>4. CASE w = "ask" /\ Told({"Reply", "Cancel"})
    BY <2>4 DEF Told
  <2> QED
    BY <1>2, <2>1, <2>2, <2>3, <2>4 DEF TalkOn
<1>3. ASSUME NEW i \in 1..(Len(up) - 1) PROVE up[i] = "Info"
  <2>1. s = "AuthWait"
    BY <1>0 DEF Talk, RInv, WorkerOfAttempt
  <2> QED
    BY <1>0, <2>1 DEF Talk, TalkOn, TalkAsks, TalkEnds, Infos, InfosThen
<1> QED
  BY <1>1, <1>2, <1>3 DEF VerifierInStep, Talk

\* The service and the worker of its attempt (reauth.rs:180-252, worker.rs)
\* never wait for each other, and neither reads a frame it has no use for,
\* among any peers, whatever they send, whoever dies and however many prompts
\* and notices a conversation has.
THEOREM ReauthInStep == ReauthSpec => []VerifierInStep
<1>1. ReauthInit => RInv /\ Talk
  BY InitRInv DEF ReauthInit, Talk
<1>2. RInv /\ Talk /\ [ReauthNext]_reauth => (RInv /\ Talk)'
  BY MoveKeepsRInv, TalkMove, NextIsMove
<1> QED
  BY <1>1, <1>2, TalkInStep, PTL DEF ReauthSpec

-----------------------------------------------------------------------------
(***************************************************************************)
(* The inductive invariant.  Stage: how far an attempt is, in the places   *)
(* of the two threads and in the channels between them.                    *)
(***************************************************************************)
Notes(q) == \A i \in DOMAIN q : q[i] = "Notice"

NotesThen(q, ends) ==
  /\ q # <<>> /\ q[Len(q)] \in ends
  /\ \A i \in DOMAIN q : i # Len(q) => q[i] = "Notice"

Verdicts == {"Succeeded", "Failed", "Error"}

Orders  == [t |-> "Authenticate"]
Says(u) == [t |-> "Reply", secret |-> u]

Attempt ==
  \/ /\ ~prompt /\ inbound = <<>> /\ th = "idle"
     /\ commands = <<>> \/ commands = <<Orders>>
  \/ ~prompt /\ inbound = <<>> /\ commands = <<>> /\ th \in {"hello", "begin"}
  \/ ~prompt /\ commands = <<>> /\ th = "recv" /\ Notes(inbound)
  \/ /\ ~prompt /\ commands = <<>> /\ th = "await"
     /\ NotesThen(inbound, {"Prompt"})
  \/ prompt /\ commands = <<>> /\ th = "await" /\ inbound = <<>>
  \/ /\ ~prompt /\ inbound = <<>> /\ th = "await"
     /\ \E u \in Users : commands = <<Says(u)>>
  \/ ~prompt /\ commands = <<>> /\ th = "idle" /\ NotesThen(inbound, Verdicts)

Stage ==
  /\ th = "idle" <=> lc = Nowhere
  /\ ~locked => phase = "Unlocking"
  /\ ~ready => /\ inbound = <<"Ready">> /\ commands = <<>> /\ th = "idle"
               /\ ~prompt /\ phase # "Unlocking"
  /\ ready /\ phase # "Authenticating" =>
       inbound = <<>> /\ commands = <<>> /\ th = "idle" /\ ~prompt
  /\ ready /\ phase = "Authenticating" => Attempt

(***************************************************************************)
(* Line: what can be on the locker's connection.  It asks for one attempt, *)
(* so an Allow that has not been read is that attempt's.                   *)
(***************************************************************************)
Clean(k) == \A i \in DOMAIN outbox[k] : outbox[k][i] # "Allow"

Early == Serving(lc) => s \in {"Handshake", "Between"}

Line ==
  lc # Nowhere =>
    \/ /\ th = "hello" /\ inbox[lc] = <<[t |-> "Hello"]>> /\ outbox[lc] = <<>>
       /\ Serving(lc) => s = "Handshake"
    \/ /\ th = "hello" /\ inbox[lc] = <<>> /\ Early
       /\ outbox[lc] = <<>> \/ outbox[lc] = <<"Welcome">>
    \/ th = "begin" /\ inbox[lc] = <<>> /\ outbox[lc] = <<>> /\ Early
    \/ /\ th = "recv" /\ inbox[lc] = <<[t |-> "Begin"]>> /\ outbox[lc] = <<>>
       /\ Early
    \/ /\ th \in {"recv", "await"}
       /\ \A i \in DOMAIN inbox[lc] : inbox[lc][i].t = "Reply"
       /\ Clean(lc) \/ (lc \in proven /\ Early)

\* A free slot holds nothing.
FreeSlot == \A k \in Conns : ~open[k] => outbox[k] = <<>>
FreeLink == \A k \in Conns : link[k] = "free" => ~open[k]

(***************************************************************************)
(* A success that the UI has heard of, or will, was proven.                *)
(***************************************************************************)
Provenance ==
  /\ ~locked => ~proof
  /\ locked /\ phase = "Unlocking" => proof
  /\ inbound # <<>> /\ inbound[Len(inbound)] = "Succeeded" => proof

LInv ==
  /\ RInv /\ LockTypeOK
  /\ Stage /\ Line /\ FreeSlot /\ FreeLink /\ Provenance

-----------------------------------------------------------------------------
\* The locker's own connection is one of its slots.
LEMMA OwnSlot == ASSUME LInv, th # "idle" PROVE lc \in Mine /\ lc \in Conns
BY LockAssumption DEF LInv, Stage, LockTypeOK

\* What a dial is.
LEMMA Dials ==
  ASSUME Dial
  PROVE  \/ /\ \E k \in Mine : /\ link[k] = "free" /\ lc' = k
                               /\ Connect(k, <<[t |-> "Hello"]>>)
            /\ th' = "hello" /\ UNCHANGED inbound
         \/ Emit("Error") /\ UNCHANGED <<wire, proven, th, lc>>
<1>1. CASE /\ FreeSlots # {}
           /\ ~(Emit("Error") /\ UNCHANGED <<wire, proven, th, lc>>)
  <2> DEFINE c == CHOOSE k \in FreeSlots : TRUE
  <2>1. c \in FreeSlots
    BY <1>1
  <2>2. Connect(c, <<[t |-> "Hello"]>>) /\ lc' = c
    BY <1>1 DEF Dial
  <2>3. th' = "hello" /\ UNCHANGED inbound
    BY <1>1 DEF Dial
  <2> QED
    BY <2>1, <2>2, <2>3 DEF FreeSlots
<1> QED
  BY <1>1 DEF Dial

\* To the service the locker is a peer among others.
LEMMA LockMoves == ASSUME LInv, Next PROVE AnyMove \/ UNCHANGED reauth
<1>1. CASE UiStep \/ UserStep
  BY <1>1 DEF UiStep, UserStep, TakeReady, TakePrompt, TakeNotice,
              TakeVerdict, ShellUnlocks, EditPassword, PressUnlock, SubmitPrompt
<1>2. CASE Dial
  <2>1. CASE UNCHANGED <<wire, proven>>
    BY <1>2, <2>1 DEF Dial, reauth
  <2>2. CASE ~UNCHANGED <<wire, proven>>
    <3>1. PICK k \in Mine : Connect(k, <<[t |-> "Hello"]>>)
      BY <1>2, <2>2, Dials
    <3>2. <<[t |-> "Hello"]>> \in Seq(Request)
      BY DEF Request
    <3> QED
      BY <1>2, <3>1, <3>2, LockAssumption DEF Dial, AnyMove, PeerMove
  <2> QED
    BY <2>1, <2>2
<1>3. CASE \/ Welcomed \/ BeginAttempt \/ PassPrompt \/ PassNotice
           \/ PassVerdict \/ PassReply \/ AttemptFails
  <2>1. lc \in Conns
    BY <1>3, OwnSlot DEF Welcomed, BeginAttempt, PassPrompt, PassNotice,
                         PassVerdict, PassReply, AttemptFails
  <2>2. UNCHANGED <<s, worker, proven>>
    BY <1>3 DEF Welcomed, BeginAttempt, PassPrompt, PassNotice, PassVerdict,
                PassReply, AttemptFails
  <2>3. CASE PassReply
    <3>1. commands # <<>> /\ Head(commands).t = "Reply"
      BY <2>3 DEF PassReply, Ordered
    <3>2. Head(commands) \in Commands
      BY <3>1 DEF LInv, LockTypeOK
    <3>3. Head(commands).secret \in Users
      BY <3>1, <3>2 DEF Commands
    <3> QED
      BY <2>1, <2>2, <2>3, <3>3 DEF PassReply, Request, AnyMove, PeerMove
  <2>4. CASE BeginAttempt
    BY <2>1, <2>2, <2>4 DEF BeginAttempt, Request, AnyMove, PeerMove
  <2>5. CASE Welcomed \/ PassPrompt \/ PassNotice
    BY <2>1, <2>2, <2>5
       DEF Welcomed, PassPrompt, PassNotice, Response, AnyMove, PeerMove
  <2>6. CASE PassVerdict \/ AttemptFails
    BY <2>1, <2>2, <2>6
       DEF PassVerdict, AttemptFails, Abandon, AnyMove, PeerMove
  <2> QED
    BY <1>3, <2>3, <2>4, <2>5, <2>6
<1>4. CASE LockerStarts
  <2>1. CASE lc = Nowhere
    BY <1>4, <2>1 DEF LockerStarts, reauth
  <2>2. CASE lc # Nowhere
    BY <1>4, <2>2, LockAssumption
       DEF LockerStarts, AnyMove, PeerMove, LInv, LockTypeOK
  <2> QED
    BY <2>1, <2>2
<1>5. CASE Elsewhere
  <2>1. ASSUME NEW k \in Conns, Peer(k) PROVE PeerMove(k)
    <3>1. <<>> \in Seq(Request)
      OBVIOUS
    <3> QED
      BY <2>1, <3>1 DEF Peer, PeerConnects, PeerSends, PeerReceives,
                        PeerHangsUp, PeerMove
  <2> QED
    BY <1>5, <2>1 DEF Elsewhere, AnyMove
<1> QED
  BY <1>1, <1>2, <1>3, <1>4, <1>5 DEF Next, ThreadStep

LEMMA RInvLock == ASSUME LInv, Next \/ UNCHANGED vars PROVE RInv'
BY LockMoves, MoveKeepsRInv DEF LInv, vars

-----------------------------------------------------------------------------
LEMMA Orderable == Orders \in Commands /\ \A u \in Users : Says(u) \in Commands
BY DEF Orders, Says, Commands

\* The locker's variables keep their types.
LEMMA LockTypes == ASSUME LInv, Next \/ UNCHANGED vars PROVE LockTypeOK'
<1>0. LockTypeOK
  BY DEF LInv
<1>1. CASE UiStep
  <2>1. inbound' \in Seq(Messages)
    <3>1. UNCHANGED inbound \/ (inbound # <<>> /\ inbound' = Tail(inbound))
      BY <1>1 DEF UiStep, TakeReady, TakePrompt, TakeNotice, TakeVerdict,
                  ShellUnlocks, Takes, links
    <3> QED
      BY <1>0, <3>1, Queues DEF LockTypeOK
  <2>2. commands' \in Seq(Commands)
    <3>1. CASE TakePrompt
      <4>1. \/ UNCHANGED commands
            \/ \E u \in Users : commands' = Append(commands, Says(u))
        BY <1>0, <3>1
           DEF TakePrompt, SendCommand, LockTypeOK, Texts, Says
      <4> QED
        BY <1>0, <4>1, Queues, Orderable DEF LockTypeOK
    <3> QED
      BY <1>0, <1>1, <3>1
         DEF UiStep, TakeReady, TakeNotice, TakeVerdict, ShellUnlocks, links,
             LockTypeOK
  <2>3. field' \in Texts
    BY <1>0, <1>1
       DEF UiStep, TakeReady, TakePrompt, TakeNotice, TakeVerdict,
           ShellUnlocks, LockTypeOK, Texts
  <2>4. /\ phase' \in {"Locked", "Authenticating", "Unlocking"}
        /\ ready' \in BOOLEAN /\ prompt' \in BOOLEAN /\ cue' \in BOOLEAN
        /\ locked' \in BOOLEAN /\ proof' \in BOOLEAN
        /\ UNCHANGED <<th, lc>>
    BY <1>0, <1>1
       DEF UiStep, TakeReady, TakePrompt, TakeNotice, TakeVerdict,
           ShellUnlocks, LockTypeOK
  <2> QED
    BY <1>0, <2>1, <2>2, <2>3, <2>4 DEF LockTypeOK
<1>2. CASE UserStep
  <2>1. commands' \in Seq(Commands)
    <3>1. \/ UNCHANGED commands
          \/ commands' = Append(commands, Orders)
          \/ \E u \in Users : commands' = Append(commands, Says(u))
      BY <1>2 DEF UserStep, EditPassword, PressUnlock, SubmitPrompt,
                  SendCommand, Orders, Says, links
    <3> QED
      BY <1>0, <3>1, Queues, Orderable DEF LockTypeOK
  <2> QED
    BY <1>0, <1>2, <2>1
       DEF UserStep, EditPassword, PressUnlock, SubmitPrompt, links, LockTypeOK
<1>3. CASE ThreadStep
  <2>1. commands' \in Seq(Commands)
    <3>1. UNCHANGED commands \/ (commands # <<>> /\ commands' = Tail(commands))
      BY <1>3 DEF ThreadStep, Dial, Welcomed, BeginAttempt, PassPrompt,
                  PassNotice, PassVerdict, PassReply, AttemptFails, Ordered,
                  TakeOrder, links
    <3> QED
      BY <1>0, <3>1, Queues DEF LockTypeOK
  <2>2. inbound' \in Seq(Messages)
    <3>1. UNCHANGED inbound \/ \E m \in Messages : Emit(m)
      BY <1>3 DEF ThreadStep, Dial, Welcomed, BeginAttempt, PassPrompt,
                  PassNotice, PassVerdict, PassReply, AttemptFails, PassedOn,
                  Messages, links
    <3> QED
      BY <1>0, <3>1, Queues DEF Emit, LockTypeOK
  <2>3. /\ th' \in {"idle", "hello", "begin", "recv", "await"}
        /\ lc' \in Mine \cup {Nowhere} /\ UNCHANGED ui /\ proof' \in BOOLEAN
    BY <1>0, <1>3, Dials
       DEF ThreadStep, Dial, Welcomed, BeginAttempt, PassPrompt, PassNotice,
           PassVerdict, PassReply, AttemptFails, Abandon, Returns, LockTypeOK
  <2> QED
    BY <1>0, <2>1, <2>2, <2>3 DEF ui, LockTypeOK
<1>4. CASE LockerStarts
  <2>1. commands' \in Seq(Commands) /\ inbound' \in Seq(Messages)
    BY <1>4 DEF LockerStarts, Messages
  <2> QED
    BY <1>4, <2>1 DEF LockerStarts, Returns, Texts, LockTypeOK
<1>5. CASE Elsewhere \/ UNCHANGED vars
  BY <1>0, <1>5 DEF Elsewhere, lock, ui, links, vars, LockTypeOK
<1> QED
  BY <1>1, <1>2, <1>3, <1>4, <1>5 DEF Next

-----------------------------------------------------------------------------
\* How a queue of notices grows, ends and shrinks.
LEMMA NoteQueue ==
  ASSUME NEW q \in Seq(Messages), NEW ends, "Notice" \notin ends
  PROVE  /\ Notes(<<>>)
         /\ Notes(q) => Notes(Append(q, "Notice"))
         /\ Notes(q) => \A e \in ends : NotesThen(Append(q, e), ends)
         /\ Notes(q) /\ q # <<>> => Head(q) = "Notice" /\ Notes(Tail(q))
         /\ NotesThen(q, ends) /\ Head(q) = "Notice" =>
              NotesThen(Tail(q), ends)
         /\ NotesThen(q, ends) /\ Head(q) # "Notice" =>
              Tail(q) = <<>> /\ Head(q) \in ends
<1>1. Notes(<<>>) /\ (Notes(q) => Notes(Append(q, "Notice")))
  BY DEF Notes
<1>2. Notes(q) => \A e \in ends : NotesThen(Append(q, e), ends)
  BY DEF Notes, NotesThen
<1>3. Notes(q) /\ q # <<>> => Head(q) = "Notice" /\ Notes(Tail(q))
  BY DEF Notes
<1>4. ASSUME NotesThen(q, ends), Head(q) = "Notice"
      PROVE  NotesThen(Tail(q), ends)
  <2>1. Len(q) \in Nat /\ Len(q) > 1
    BY <1>4 DEF NotesThen
  <2>2. Len(Tail(q)) = Len(q) - 1 /\ Tail(q) # <<>>
    BY <2>1
  <2>3. \A i \in 1..Len(Tail(q)) : Tail(q)[i] = q[i + 1] /\ i + 1 \in 1..Len(q)
    BY <2>1, <2>2
  <2> QED
    BY <1>4, <2>1, <2>2, <2>3 DEF NotesThen
<1>5. ASSUME NotesThen(q, ends), Head(q) # "Notice"
      PROVE  Tail(q) = <<>> /\ Head(q) \in ends
  <2>1. q # <<>> /\ q[Len(q)] \in ends
    BY <1>5 DEF NotesThen
  <2>2. 1 \in DOMAIN q /\ Head(q) = q[1]
    BY <2>1
  <2>3. Len(q) = 1
    BY <1>5, <2>2 DEF NotesThen
  <2>4. Len(Tail(q)) = 0 /\ Tail(q) \in Seq(Messages)
    BY <2>1, <2>3
  <2>5. Tail(q) = <<>>
    BY <2>4, EmptySeq
  <2> QED
    BY <2>1, <2>2, <2>3, <2>5
<1> QED
  BY <1>1, <1>2, <1>3, <1>4, <1>5

\* Whatever is under way but the first message belongs to an attempt.
LEMMA Busy ==
  ASSUME LInv, \/ th # "idle" \/ commands # <<>> \/ prompt
               \/ inbound # <<>> /\ Head(inbound) # "Ready"
  PROVE  ready /\ phase = "Authenticating" /\ Attempt /\ locked
<1>1. Head(<<"Ready">>) = "Ready"
  OBVIOUS
<1>2. ready
  BY <1>1 DEF LInv, Stage
<1>3. phase = "Authenticating"
  BY <1>2 DEF LInv, Stage
<1> QED
  BY <1>2, <1>3 DEF LInv, Stage, LockTypeOK

\* What the UI's next message says of the attempt.
LEMMA NextMessage ==
  ASSUME LInv, inbound # <<>>, Head(inbound) # "Ready"
  PROVE  /\ commands = <<>> /\ ~prompt
         /\ \/ th = "recv" /\ Head(inbound) = "Notice" /\ Notes(Tail(inbound))
            \/ /\ th = "await" /\ Head(inbound) = "Notice"
               /\ NotesThen(Tail(inbound), {"Prompt"})
            \/ th = "await" /\ Head(inbound) = "Prompt" /\ Tail(inbound) = <<>>
            \/ /\ th = "idle" /\ Head(inbound) = "Notice"
               /\ NotesThen(Tail(inbound), Verdicts)
            \/ /\ th = "idle" /\ Head(inbound) \in Verdicts
               /\ Tail(inbound) = <<>>
<1>1. Attempt
  BY Busy
<1>2. inbound \in Seq(Messages)
  BY DEF LInv, LockTypeOK
<1>3. "Notice" \notin {"Prompt"} /\ "Notice" \notin Verdicts
  BY DEF Verdicts
<1> QED
  BY <1>1, <1>2, <1>3, NoteQueue DEF Attempt

LEMMA FirstMessage ==
  ASSUME LInv, inbound # <<>>, Head(inbound) = "Ready"
  PROVE  ~ready
<1>1. inbound \in Seq(Messages)
  BY DEF LInv, LockTypeOK
<1>2. "Notice" \notin {"Prompt"} /\ "Notice" \notin Verdicts
  BY DEF Verdicts
<1>3. ~Notes(inbound) /\ ~NotesThen(inbound, {"Prompt"})
      /\ ~NotesThen(inbound, Verdicts)
  BY <1>1, <1>2, NoteQueue DEF Verdicts
<1> QED
  BY <1>3 DEF LInv, Stage, Attempt

\* The UI keeps the stage ...
LEMMA StageUi == ASSUME LInv, UiStep \/ UserStep PROVE Stage'
<1>0. Stage /\ UNCHANGED <<th, lc>>
  BY DEF LInv, UiStep, UserStep, TakeReady, TakePrompt, TakeNotice,
         TakeVerdict, ShellUnlocks, EditPassword, PressUnlock, SubmitPrompt
<1>1. CASE TakeReady
  <2>1. ~ready /\ inbound = <<"Ready">>
    BY <1>1, FirstMessage DEF TakeReady, Takes, LInv, Stage
  <2>2. inbound' = <<>>
    BY <1>1, <2>1 DEF TakeReady, Takes
  <2> QED
    BY <1>0, <1>1, <2>1, <2>2 DEF TakeReady, Stage, Attempt
<1>2. CASE TakePrompt
  <2>1. inbound # <<>> /\ Head(inbound) = "Prompt" /\ inbound' = Tail(inbound)
    BY <1>2 DEF TakePrompt, Takes
  <2>2. ready /\ phase = "Authenticating" /\ locked
    BY <2>1, Busy
  <2>3. /\ commands = <<>> /\ ~prompt /\ th = "await" /\ inbound' = <<>>
    BY <2>1, NextMessage DEF Verdicts
  <2>4. \/ prompt' /\ UNCHANGED commands
        \/ ~prompt' /\ \E u \in Users : commands' = <<Says(u)>>
    <3>1. CASE prompt' = TRUE /\ UNCHANGED commands
      BY <3>1
    <3>2. CASE /\ field # Empty /\ UNCHANGED prompt
               /\ SendCommand([t |-> "Reply", secret |-> field])
      <4>1. field \in Users
        BY <3>2 DEF LInv, LockTypeOK, Texts
      <4>2. commands' = <<Says(field)>>
        BY <2>2, <2>3, <3>2 DEF SendCommand, Says
      <4> QED
        BY <2>3, <3>2, <4>1, <4>2
    <3> QED
      BY <1>2, <3>1, <3>2 DEF TakePrompt
  <2>5. UNCHANGED <<phase, ready, locked>>
    BY <1>2 DEF TakePrompt
  <2> QED
    BY <1>0, <2>2, <2>3, <2>4, <2>5 DEF Stage, Attempt
<1>3. CASE TakeNotice
  <2>1. inbound # <<>> /\ Head(inbound) = "Notice" /\ inbound' = Tail(inbound)
    BY <1>3 DEF TakeNotice, Takes
  <2>2. ready /\ phase = "Authenticating" /\ locked
    BY <2>1, Busy
  <2>3. /\ commands = <<>> /\ ~prompt
        /\ \/ th = "recv" /\ Notes(inbound')
           \/ th = "await" /\ NotesThen(inbound', {"Prompt"})
           \/ th = "idle" /\ NotesThen(inbound', Verdicts)
    BY <2>1, NextMessage DEF Verdicts
  <2>4. UNCHANGED <<phase, ready, prompt, locked, commands>>
    BY <1>3 DEF TakeNotice
  <2> QED
    BY <1>0, <2>2, <2>3, <2>4 DEF Stage, Attempt
<1>4. CASE TakeVerdict
  <2>1. inbound # <<>> /\ Head(inbound) \in Verdicts /\ inbound' = Tail(inbound)
    BY <1>4 DEF TakeVerdict, Takes, Verdicts
  <2>2. ready /\ locked
    BY <2>1, Busy DEF Verdicts
  <2>3. commands = <<>> /\ th = "idle" /\ inbound' = <<>>
    BY <2>1, NextMessage DEF Verdicts
  <2>4. /\ phase' # "Authenticating" /\ ~prompt'
        /\ UNCHANGED <<ready, locked, commands>>
    BY <1>4 DEF TakeVerdict
  <2> QED
    BY <1>0, <2>2, <2>3, <2>4 DEF Stage
<1>5. CASE ShellUnlocks
  BY <1>0, <1>5 DEF ShellUnlocks, links, Stage, Attempt
<1>6. CASE EditPassword
  BY <1>0, <1>6 DEF EditPassword, links, Stage, Attempt
<1>7. CASE PressUnlock
  <2>1. /\ commands = <<>> /\ th = "idle" /\ ~prompt /\ UNCHANGED inbound
        /\ ready => inbound = <<>>
        /\ ~ready => inbound = <<"Ready">>
        /\ locked
    BY <1>0, <1>7 DEF PressUnlock, FormShown, Stage
  <2>2. commands' = IF ready THEN <<Orders>> ELSE <<>>
    BY <1>7, <2>1 DEF PressUnlock, SendCommand, Orders
  <2> QED
    BY <1>0, <1>7, <2>1, <2>2 DEF PressUnlock, Stage, Attempt
<1>8. CASE SubmitPrompt
  <2>1. /\ prompt /\ locked /\ ~prompt'
        /\ UNCHANGED <<phase, ready, locked, inbound>>
    BY <1>8 DEF SubmitPrompt
  <2>2. ready /\ phase = "Authenticating" /\ Attempt
    BY <2>1, Busy
  <2>3. commands = <<>> /\ th = "await" /\ inbound = <<>>
    BY <2>1, <2>2 DEF Attempt
  <2>4. \E u \in Users : commands' = <<Says(u)>>
    BY <1>8, <2>2, <2>3 DEF SubmitPrompt, SendCommand, Says
  <2> QED
    BY <1>0, <2>1, <2>2, <2>3, <2>4 DEF Stage, Attempt
<1> QED
  BY <1>1, <1>2, <1>3, <1>4, <1>5, <1>6, <1>7, <1>8 DEF UiStep, UserStep

\* ... and so does the worker thread, and everybody else.
LEMMA StageThread == ASSUME LInv, ThreadStep PROVE Stage'
<1>0. /\ Stage /\ UNCHANGED <<phase, ready, prompt, locked>>
      /\ inbound \in Seq(Messages) /\ commands \in Seq(Commands)
      /\ lc \in Mine \cup {Nowhere} /\ Nowhere \notin Mine
  BY LockAssumption
     DEF LInv, LockTypeOK, ThreadStep, Dial, Welcomed, BeginAttempt,
         PassPrompt, PassNotice, PassVerdict, PassReply, AttemptFails, ui
<1>1. th # "idle" \/ commands # <<>>
  BY DEF ThreadStep, Dial, Welcomed, BeginAttempt, PassPrompt, PassNotice,
         PassVerdict, PassReply, AttemptFails, Ordered
<1>2. ready /\ phase = "Authenticating" /\ Attempt /\ locked
  BY <1>1, Busy
<1>3. SUFFICES (th' = "idle" <=> lc' = Nowhere) /\ Attempt'
  BY <1>0, <1>2 DEF Stage
<1>4. "Notice" \notin {"Prompt"} /\ "Notice" \notin Verdicts
  BY DEF Verdicts
<1>5. /\ Head(<<Orders>>).t # "Reply"
      /\ \A u \in Users : Head(<<Says(u)>>).t = "Reply"
  BY DEF Orders, Says
<1>6. /\ Tail(<<Orders>>) = <<>> /\ \A u \in Users : Tail(<<Says(u)>>) = <<>>
  OBVIOUS
<1>7. CASE Dial
  <2>1. commands = <<Orders>> /\ inbound = <<>> /\ ~prompt /\ th = "idle"
    BY <1>2, <1>7 DEF Dial, Ordered, Attempt
  <2>2. commands' = <<>>
    BY <1>6, <1>7, <2>1 DEF Dial, TakeOrder
  <2>3. CASE th' = "hello" /\ lc' \in Mine /\ UNCHANGED inbound
    BY <1>0, <2>1, <2>2, <2>3 DEF Attempt
  <2>4. CASE Emit("Error") /\ UNCHANGED <<th, lc>>
    <3>1. NotesThen(inbound', Verdicts)
      BY <2>1, <2>4 DEF Emit, NotesThen, Verdicts
    <3> QED
      BY <1>0, <2>1, <2>2, <2>4, <3>1 DEF Attempt, Stage
  <2> QED
    BY <1>7, <2>3, <2>4, Dials
<1>8. CASE Welcomed \/ BeginAttempt
  BY <1>0, <1>2, <1>8, NoteQueue, <1>4
     DEF Welcomed, BeginAttempt, links, Attempt, Stage
<1>9. CASE PassPrompt
  <2>1. th = "recv" /\ ~prompt /\ commands = <<>> /\ Notes(inbound)
    BY <1>2, <1>9 DEF PassPrompt, Attempt
  <2>2. NotesThen(inbound', {"Prompt"})
    BY <1>0, <1>4, <1>9, <2>1, NoteQueue DEF PassPrompt, Emit
  <2> QED
    BY <1>0, <1>9, <2>1, <2>2 DEF PassPrompt, Attempt, Stage
<1>10. CASE PassNotice
  <2>1. th = "recv" /\ ~prompt /\ commands = <<>> /\ Notes(inbound)
    BY <1>2, <1>10 DEF PassNotice, Attempt
  <2>2. Notes(inbound')
    BY <1>0, <1>4, <1>10, <2>1, NoteQueue DEF PassNotice, Emit
  <2> QED
    BY <1>0, <1>10, <2>1, <2>2 DEF PassNotice, Attempt, Stage
<1>11. CASE PassVerdict
  <2>1. th = "recv" /\ ~prompt /\ commands = <<>> /\ Notes(inbound)
    BY <1>2, <1>11 DEF PassVerdict, Attempt
  <2>2. NotesThen(inbound', Verdicts)
    <3>1. PassedOn(Head(outbox[lc])) \in Verdicts
      BY DEF PassedOn, Verdicts
    <3> QED
      BY <1>0, <1>4, <1>11, <2>1, <3>1, NoteQueue DEF PassVerdict, Emit
  <2> QED
    BY <1>0, <1>11, <2>1, <2>2 DEF PassVerdict, Abandon, Returns, Attempt
<1>12. CASE PassReply
  <2>1. th = "await" /\ commands # <<>>
    BY <1>12 DEF PassReply, Ordered
  <2>2. ~prompt /\ inbound = <<>> /\ \E u \in Users : commands = <<Says(u)>>
    BY <1>2, <2>1 DEF Attempt
  <2>3. commands' = <<>> /\ Notes(inbound')
    BY <1>6, <1>12, <2>2 DEF PassReply, TakeOrder, Notes
  <2> QED
    BY <1>0, <1>12, <2>1, <2>2, <2>3 DEF PassReply, Attempt, Stage
<1>13. CASE AttemptFails
  <2>1. \/ th \in {"hello", "begin", "recv"} /\ UNCHANGED commands
        \/ th = "await" /\ commands # <<>> /\ commands' = Tail(commands)
    BY <1>13 DEF AttemptFails, Ordered, TakeOrder
  <2>2. ~prompt /\ commands' = <<>> /\ Notes(inbound)
    BY <1>2, <1>6, <2>1 DEF Attempt, Notes
  <2>3. NotesThen(inbound', Verdicts)
    BY <1>0, <1>4, <1>13, <2>2, NoteQueue DEF AttemptFails, Emit, Verdicts
  <2> QED
    BY <1>0, <1>13, <2>2, <2>3 DEF AttemptFails, Abandon, Returns, Attempt
<1> QED
  BY <1>7, <1>8, <1>9, <1>10, <1>11, <1>12, <1>13 DEF ThreadStep

LEMMA StageNext == ASSUME LInv, Next \/ UNCHANGED vars PROVE Stage'
<1>1. CASE LockerStarts
  BY <1>1 DEF LockerStarts, Returns, Stage
<1>2. CASE Elsewhere \/ UNCHANGED vars
  BY <1>2 DEF Elsewhere, lock, ui, links, vars, LInv, Stage, Attempt
<1> QED
  BY <1>1, <1>2, StageUi, StageThread DEF Next

-----------------------------------------------------------------------------
\* The UI and its worker thread agree on the conversation: a reply never
\* answers another attempt's prompt and no conversation is dropped without a
\* word (door-lock/src/app.rs:986-996).
LEMMA StageInStep == ASSUME LInv PROVE LockInStep
<1>0. /\ inbound \in Seq(Messages) /\ commands \in Seq(Commands)
      /\ prompt \in BOOLEAN
  BY DEF LInv, LockTypeOK
<1>1. CASE ~ready \/ phase # "Authenticating"
  <2>1. Replies = {} /\ Asking = {} /\ ~prompt /\ th = "idle"
    BY <1>1 DEF LInv, Stage, Replies, Asking
  <2> QED
    BY <2>1, FS_EmptySet DEF LockInStep
<1>2. CASE Attempt
  <2>1. Notes(inbound) \/ NotesThen(inbound, Verdicts) => Asking = {}
    BY <1>0 DEF Notes, NotesThen, Verdicts, Asking
  <2>2. NotesThen(inbound, {"Prompt"}) => Asking = {Len(inbound)}
    BY <1>0 DEF NotesThen, Asking
  <2>3. inbound = <<>> => Asking = {}
    BY DEF Asking
  <2>4. commands = <<>> \/ commands = <<Orders>> => Replies = {}
    BY DEF Replies, Orders
  <2>5. (\E u \in Users : commands = <<Says(u)>>) => Replies = {1}
    BY DEF Replies, Says
  <2>6. Cardinality({}) = 0 /\ \A n : Cardinality({n}) = 1
    BY FS_EmptySet, FS_Singleton
  <2>7. \/ th # "await" /\ Replies = {} /\ Asking = {} /\ ~prompt
        \/ th = "await" /\ Replies = {} /\ (\E n : Asking = {n}) /\ ~prompt
        \/ th = "await" /\ Replies = {} /\ Asking = {} /\ prompt
        \/ th = "await" /\ Replies = {1} /\ Asking = {} /\ ~prompt
    BY <1>2, <2>1, <2>2, <2>3, <2>4, <2>5 DEF Attempt
  <2>8. th # "idle" => \A i \in DOMAIN commands : i \in Replies
    BY <1>2, <2>5 DEF Attempt
  <2>9. \/ /\ th # "await" /\ Cardinality(Replies) = 0
           /\ Cardinality(Asking) = 0 /\ ~prompt
        \/ /\ th = "await" /\ Cardinality(Replies) = 0
           /\ Cardinality(Asking) = 1 /\ ~prompt
        \/ /\ th = "await" /\ Cardinality(Replies) = 0
           /\ Cardinality(Asking) = 0 /\ prompt
        \/ /\ th = "await" /\ Cardinality(Replies) = 1
           /\ Cardinality(Asking) = 0 /\ ~prompt
    BY <2>6, <2>7, Zenon
  <2> QED
    BY <2>8, <2>9 DEF LockInStep
<1> QED
  BY <1>1, <1>2 DEF LInv, Stage

-----------------------------------------------------------------------------
\* What a step of the service does to the connection it serves, and that it
\* leaves the others alone.
ServesAt(k) ==
  \/ Welcome(k) \/ RefuseHandshake(k) \/ Disconnect(k)
  \/ BetweenAttempts(k) \/ Begin(k) \/ DenyOutright(k)
  \/ RelayPrompt(k) \/ RelayNotice(k) \/ RelayReply(k) \/ DenyReply(k)
  \/ RelayCancel(k) \/ PromptBreaks(k) \/ Verdict(k) \/ DenyVanished(k)

LEMMA ServiceEffect ==
  ASSUME ReauthTypeOK, NEW k \in Conns, ServesAt(k)
  PROVE  /\ Serving(k) /\ UNCHANGED open
         /\ proven' \in {proven, proven \ {k}}
         /\ \A j \in Conns : j # k =>
              /\ inbox'[j] = inbox[j] /\ outbox'[j] = outbox[j]
              /\ link'[j] = link[j]
         /\ \/ Ends(k)
            \/ /\ UNCHANGED link
               /\ \/ UNCHANGED outbox
                  \/ /\ open[k]
                     /\ \E r : outbox' = [outbox EXCEPT ![k] = Append(@, r)]
<1>1. /\ Serving(k) /\ UNCHANGED open
      /\ proven' \in {proven, proven \ {k}}
  BY DEF ServesAt, Welcome, RefuseHandshake, Disconnect, BetweenAttempts, Begin,
         DenyOutright, RelayPrompt, RelayNotice, RelayReply, DenyReply,
         RelayCancel, PromptBreaks, Verdict, DenyVanished, Exchange, GivesUp,
         Reads, Silent, Hears, WorkerVanished, Answer, Ends
<1>2. CASE Ends(k)
  <2>1. \A j \in Conns : j # k =>
          /\ inbox'[j] = inbox[j] /\ outbox'[j] = outbox[j]
          /\ link'[j] = link[j]
    BY <1>2 DEF Ends, Close
  <2> QED
    BY <1>1, <1>2, <2>1
<1>3. CASE ~Ends(k)
  <2>1. /\ UNCHANGED inbox \/ inbox' = [inbox EXCEPT ![k] = Tail(@)]
        /\ UNCHANGED link
    BY <1>3
       DEF ServesAt, Welcome, RefuseHandshake, Disconnect, BetweenAttempts,
           Begin, DenyOutright, RelayPrompt, RelayNotice, RelayReply, DenyReply,
           RelayCancel, PromptBreaks, Verdict, DenyVanished, Exchange, GivesUp,
           Reads, Answer
  <2>2. \/ UNCHANGED outbox
        \/ \E r : Answer(k, r)
    BY <1>3
       DEF ServesAt, Welcome, RefuseHandshake, Disconnect, BetweenAttempts,
           Begin, DenyOutright, RelayPrompt, RelayNotice, RelayReply, DenyReply,
           RelayCancel, PromptBreaks, Verdict, DenyVanished, Exchange, GivesUp
  <2> QED
    BY <1>1, <2>1, <2>2 DEF Answer, ReauthTypeOK
<1> QED
  BY <1>2, <1>3

\* A slot that is free, and a peer's end that is closed, hold nothing.
LEMMA FreeMove ==
  ASSUME ReauthTypeOK, FreeSlot, FreeLink, AnyMove \/ UNCHANGED reauth
  PROVE  FreeSlot' /\ FreeLink'
<1>1. CASE UNCHANGED <<link, open, outbox>>
  BY <1>1 DEF FreeSlot, FreeLink
<1>2. CASE WorkerStep \/ WorkerDies \/ ServiceReturns \/ UNCHANGED reauth
  BY <1>1, <1>2
     DEF WorkerStep, BeginConversation, Ask, Notify, HearReply, EndConversation,
         WorkerDies, ServiceReturns, reauth, wire
<1>3. ASSUME NEW ks \in SUBSET Conns, Close(ks), UNCHANGED <<open, outbox>>
      PROVE  FreeSlot' /\ FreeLink'
  BY <1>3 DEF Close, FreeSlot, FreeLink
<1>4. CASE ServiceDies
  <2>1. {k \in Conns : Live(k)} \in SUBSET Conns
    OBVIOUS
  <2> QED
    BY <1>3, <1>4, <2>1 DEF ServiceDies
<1>5. CASE Accept
  BY <1>5 DEF Accept, FreeSlot, FreeLink, ReauthTypeOK
<1>6. ASSUME NEW k \in Conns, ServesAt(k) PROVE FreeSlot' /\ FreeLink'
  <2>1. CASE Ends(k)
    <3>1. {k} \in SUBSET Conns
      BY <1>6
    <3> QED
      BY <1>3, <2>1, <3>1 DEF Ends
  <2>2. CASE ~Ends(k)
    BY <1>6, <2>2, ServiceEffect DEF FreeSlot, FreeLink, ReauthTypeOK
  <2> QED
    BY <2>1, <2>2
<1>7. ASSUME NEW k \in Conns, PeerMove(k) PROVE FreeSlot' /\ FreeLink'
  <2>1. CASE \E frames \in Seq(Request) : Connect(k, frames)
    BY <2>1 DEF Connect, FreeSlot, FreeLink, ReauthTypeOK
  <2>2. CASE \E r \in Request : Send(k, r)
    BY <2>2 DEF Send, FreeSlot, FreeLink
  <2>3. CASE \E r \in Response : Receive(k, r)
    BY <2>3 DEF Receive, FreeSlot, FreeLink, ReauthTypeOK
  <2>4. CASE HangUp(k)
    BY <2>4 DEF HangUp, FreeSlot, FreeLink, ReauthTypeOK
  <2> QED
    BY <1>7, <2>1, <2>2, <2>3, <2>4 DEF PeerMove
<1> QED
  BY <1>2, <1>4, <1>5, <1>6, <1>7 DEF AnyMove, ServiceStep, Faulty, ServesAt

-----------------------------------------------------------------------------
\* A queue without an Allow, one with replies only.
LEMMA CleanQueue ==
  ASSUME NEW q \in Seq(Response), \A i \in DOMAIN q : q[i] # "Allow"
  PROVE  /\ \A r : r # "Allow" =>
              \A i \in DOMAIN Append(q, r) : Append(q, r)[i] # "Allow"
         /\ q # <<>> => \A i \in DOMAIN Tail(q) : Tail(q)[i] # "Allow"
OBVIOUS

LEMMA ReplyQueue ==
  ASSUME NEW q \in Seq(Request), \A i \in DOMAIN q : q[i].t = "Reply"
  PROVE  /\ \A r : r.t = "Reply" =>
              \A i \in DOMAIN Append(q, r) : Append(q, r)[i].t = "Reply"
         /\ q # <<>> => /\ Head(q).t = "Reply"
                        /\ \A i \in DOMAIN Tail(q) : Tail(q)[i].t = "Reply"
OBVIOUS

\* One frame.
LEMMA OneFrame ==
  ASSUME NEW e
  PROVE  /\ <<e>> # <<>> /\ Head(<<e>>) = e /\ Tail(<<e>>) = <<>>
         /\ Append(<<>>, e) = <<e>>
         /\ \A i \in DOMAIN <<e>> : <<e>>[i] = e
         /\ DOMAIN <<>> = {}
OBVIOUS

\* The end of the locker's connection clears it.
LEMMA LineEnds ==
  ASSUME LInv, lc # Nowhere, inbox'[lc] = <<>>, outbox'[lc] = outbox[lc],
         ~Serving(lc)', lc \in proven => lc \in proven', UNCHANGED <<th, lc>>
  PROVE  Line'
<1>1. Line /\ DOMAIN <<>> = {}
  BY OneFrame DEF LInv
<1>2. CASE outbox[lc] = <<>> /\ th \in {"recv", "await"}
  BY <1>1, <1>2 DEF Line, Clean, Early
<1> QED
  BY <1>1, <1>2 DEF Line, Clean, Early

\* Nobody touches it.
LEMMA LineRests ==
  ASSUME LInv, lc # Nowhere, inbox'[lc] = inbox[lc], outbox'[lc] = outbox[lc],
         Serving(lc)' => Serving(lc) /\ s' = s,
         lc \in proven => lc \in proven', UNCHANGED <<th, lc>>
  PROVE  Line'
BY DEF LInv, Line, Clean, Early

\* A step of the service at the locker's connection.
LEMMA LineServed ==
  ASSUME LInv, lc \in Conns, lc # Nowhere, ServesAt(lc), UNCHANGED <<th, lc>>
  PROVE  Line'
<1>0. /\ Line /\ ReauthTypeOK /\ Serving(lc) /\ inbox[lc] \in Seq(Request)
      /\ outbox[lc] \in Seq(Response)
      /\ outbox \in [Conns -> Seq(Response)]
      /\ inbox \in [Conns -> Seq(Request)]
  BY ServiceEffect DEF LInv, RInv, ReauthTypeOK
<1>1. CASE Ends(lc)
  <2>1. inbox'[lc] = <<>> /\ outbox'[lc] = outbox[lc] /\ ~Serving(lc)'
    BY <1>1, LockAssumption DEF Ends, Close, Serving
  <2>2. CASE lc \in proven => lc \in proven'
    BY <2>1, <2>2, LineEnds
  <2>3. CASE ~(lc \in proven => lc \in proven')
    <3>1. DenyOutright(lc)
      <4>1. s' = "Accept" /\ ~UNCHANGED proven
        BY <1>1, <2>3 DEF Ends
      <4> QED
        BY <4>1
           DEF ServesAt, Welcome, RefuseHandshake, Disconnect, BetweenAttempts,
               Begin, RelayPrompt, RelayNotice, RelayReply, DenyReply,
               RelayCancel, PromptBreaks, Verdict, DenyVanished
    <3>2. inbox[lc] # <<>> /\ Head(inbox[lc]).t = "Begin"
      BY <3>1 DEF DenyOutright, Exchange
    <3>3. th = "recv" /\ outbox[lc] = <<>>
      BY <1>0, <3>2, OneFrame, ReplyQueue DEF Line
    <3> QED
      BY <2>1, <3>3, OneFrame DEF Line, Clean
  <2> QED
    BY <2>2, <2>3
<1>2. CASE ~Ends(lc) /\ s = "Handshake"
  <2>1. Reads(lc, {"Hello"}) /\ Answer(lc, "Welcome") /\ s' = "Between"
    BY <1>0, <1>2
       DEF ServesAt, Welcome, RefuseHandshake, Disconnect, BetweenAttempts,
           Begin, DenyOutright, RelayPrompt, RelayNotice, RelayReply, DenyReply,
           RelayCancel, PromptBreaks, Verdict, DenyVanished, Exchange, GivesUp,
           Hears, WorkerVanished
  <2>2. inbox[lc] # <<>> /\ Head(inbox[lc]).t = "Hello"
    BY <2>1 DEF Reads
  <2>3. /\ inbox'[lc] = Tail(inbox[lc])
        /\ outbox'[lc] = Append(outbox[lc], "Welcome")
    BY <1>0, <2>1 DEF Reads, Answer
  <2>4. th = "hello" /\ inbox[lc] = <<[t |-> "Hello"]>> /\ outbox[lc] = <<>>
    BY <1>0, <2>2, OneFrame, ReplyQueue DEF Line
  <2> QED
    BY <2>1, <2>3, <2>4, OneFrame DEF Line, Early
<1>3. CASE ~Ends(lc) /\ s = "Between" /\ (Begin(lc) \/ DenyOutright(lc))
  <2>1. inbox[lc] # <<>> /\ Head(inbox[lc]).t = "Begin"
    BY <1>3 DEF Begin, DenyOutright, Exchange, Reads
  <2>2. inbox[lc] = <<[t |-> "Begin"]>> /\ outbox[lc] = <<>> /\ th = "recv"
    BY <1>0, <2>1, OneFrame, ReplyQueue DEF Line
  <2>3. inbox'[lc] = <<>>
    BY <1>0, <1>3, <2>2, OneFrame DEF Begin, DenyOutright, Exchange, Reads
  <2>4. outbox'[lc] = <<>> \/ outbox'[lc] = <<"Deny">>
    BY <1>0, <1>3, <2>2, OneFrame DEF Begin, DenyOutright, Exchange, Answer
  <2>5. Clean(lc)'
    BY <2>4, OneFrame DEF Clean
  <2> QED
    BY <2>2, <2>3, <2>5, OneFrame DEF Line
<1>4. CASE ~Ends(lc) /\ s = "Between" /\ BetweenAttempts(lc)
  <2>1. inbox[lc] # <<>> /\ Head(inbox[lc]).t \in {"Hello", "Reply", "Cancel"}
    BY <1>4 DEF BetweenAttempts, Exchange, Reads
  <2>2. /\ th \in {"recv", "await"} /\ Head(inbox[lc]).t = "Reply"
        /\ \A i \in DOMAIN inbox[lc] : inbox[lc][i].t = "Reply"
        /\ Clean(lc) \/ lc \in proven
    BY <1>0, <1>4, <2>1, OneFrame, ReplyQueue DEF Line
  <2>3. /\ Reads(lc, {"Reply"}) /\ Answer(lc, "Stray") /\ s' = "Between"
        /\ UNCHANGED proven
    BY <1>4, <2>2 DEF BetweenAttempts, Exchange, Reads
  <2>4. /\ inbox'[lc] = Tail(inbox[lc])
        /\ outbox'[lc] = Append(outbox[lc], "Stray")
    BY <1>0, <2>3 DEF Reads, Answer
  <2>5. \A i \in DOMAIN inbox'[lc] : inbox'[lc][i].t = "Reply"
    BY <1>0, <2>1, <2>2, <2>4, ReplyQueue
  <2>6. Clean(lc) => Clean(lc)'
    BY <1>0, <2>4, CleanQueue DEF Clean
  <2> QED
    BY <2>2, <2>3, <2>5, <2>6 DEF Line, Early
<1>5. CASE ~Ends(lc) /\ s \in {"AuthWait", "Reply"}
  <2>1. /\ th \in {"recv", "await"} /\ Clean(lc)
        /\ \A i \in DOMAIN inbox[lc] : inbox[lc][i].t = "Reply"
    BY <1>0, <1>5 DEF Line, Early
  <2>2. \/ UNCHANGED inbox
        \/ inbox[lc] # <<>> /\ inbox' = [inbox EXCEPT ![lc] = Tail(@)]
    BY <1>5
       DEF ServesAt, Welcome, RefuseHandshake, Disconnect, BetweenAttempts,
           Begin, DenyOutright, RelayPrompt, RelayNotice, RelayReply, DenyReply,
           RelayCancel, PromptBreaks, Verdict, DenyVanished, Exchange, GivesUp,
           Reads
  <2>3. inbox'[lc] = inbox[lc]
          \/ (inbox[lc] # <<>> /\ inbox'[lc] = Tail(inbox[lc]))
    BY <1>0, <2>2
  <2>4. \A i \in DOMAIN inbox'[lc] : inbox'[lc][i].t = "Reply"
    BY <1>0, <2>1, <2>3, ReplyQueue
  <2>5. CASE \E r : r # "Allow" /\ (Answer(lc, r) \/ UNCHANGED outbox)
    <3>1. \/ outbox'[lc] = outbox[lc]
          \/ \E r : r # "Allow" /\ outbox'[lc] = Append(outbox[lc], r)
      BY <1>0, <2>5 DEF Answer
    <3>2. Clean(lc)'
      BY <1>0, <2>1, <3>1, CleanQueue DEF Clean
    <3> QED
      BY <2>1, <2>4, <3>2 DEF Line
  <2>6. CASE Answer(lc, "Allow")
    <3>1. outbox'[lc] = Append(outbox[lc], "Allow")
      BY <1>0, <2>6 DEF Answer
    <3>2. /\ Len(outbox[lc]') > Len(outbox[lc])
          /\ outbox[lc]'[Len(outbox[lc]')] = "Allow"
      BY <1>0, <3>1
    <3>3. lc \in proven /\ s' = "Between" /\ UNCHANGED proven
      BY <3>2, AllowStep DEF LInv, AnyMove, ServiceStep, ServesAt
    <3> QED
      BY <2>1, <2>4, <3>3 DEF Line, Early
  <2>7. UNCHANGED outbox \/ \E r : Answer(lc, r)
    BY <1>5
       DEF ServesAt, Welcome, RefuseHandshake, Disconnect, BetweenAttempts,
           Begin, DenyOutright, RelayPrompt, RelayNotice, RelayReply, DenyReply,
           RelayCancel, PromptBreaks, Verdict, DenyVanished, Exchange, GivesUp
  <2> QED
    BY <2>5, <2>6, <2>7
<1> QED
  BY <1>1, <1>2, <1>3, <1>4, <1>5
     DEF ServesAt, Welcome, RefuseHandshake, Disconnect, BetweenAttempts, Begin,
         DenyOutright, RelayPrompt, RelayNotice, RelayReply, DenyReply,
         RelayCancel, PromptBreaks, Verdict, DenyVanished, Hears,
         WorkerVanished, GivesUp

\* No step of the service, its worker or another program disturbs the line.
LEMMA LineElsewhere ==
  ASSUME LInv, lc # Nowhere, Elsewhere
  PROVE  Line'
<1>0. /\ ReauthTypeOK /\ OneServed /\ UNCHANGED <<th, lc>>
      /\ lc \in Mine /\ lc \in Conns
  BY LockAssumption
     DEF LInv, RInv, LockTypeOK, Elsewhere, lock
<1>1. CASE Accept
  <2>1. /\ UNCHANGED <<inbox, outbox, proven>> /\ s' = "Handshake"
        /\ s = "Accept"
    BY <1>1 DEF Accept
  <2>2. ~Serving(lc)
    BY <1>0, <2>1 DEF OneServed
  <2> QED
    BY <1>0, <2>1, <2>2 DEF LInv, Line, Clean, Early
<1>2. ASSUME NEW k \in Conns, ServesAt(k) PROVE Line'
  <2>1. CASE k = lc
    BY <1>0, <1>2, <2>1, LineServed
  <2>2. CASE k # lc
    <3>1. /\ inbox'[lc] = inbox[lc] /\ outbox'[lc] = outbox[lc]
          /\ link'[lc] = link[lc] /\ Serving(k)
          /\ proven' \in {proven, proven \ {k}}
      BY <1>0, <1>2, <2>2, ServiceEffect
    <3>2. ~Serving(lc)
      BY <1>0, <1>2, <2>2, <3>1 DEF OneServed
    <3>3. ~Serving(lc)' /\ (lc \in proven => lc \in proven')
      BY <1>0, <2>2, <3>1, <3>2 DEF Serving
    <3> QED
      BY <1>0, <3>1, <3>3, LineRests
  <2> QED
    BY <2>1, <2>2
<1>3. CASE WorkerStep
  <2>1. UNCHANGED <<wire, s>> /\ proven \subseteq proven'
    BY <1>3 DEF WorkerStep, BeginConversation, Ask, Notify, HearReply,
                EndConversation
  <2> QED
    BY <1>0, <2>1, LineRests DEF wire, Serving
<1>4. CASE WorkerDies
  <2>1. UNCHANGED <<wire, s, proven>>
    BY <1>4 DEF WorkerDies
  <2> QED
    BY <1>0, <2>1, LineRests DEF wire, Serving
<1>5. CASE ServiceReturns
  <2>1. UNCHANGED <<wire, proven>> /\ s = "Down"
    BY <1>5 DEF ServiceReturns
  <2>2. ~Serving(lc)
    BY <1>0, <2>1 DEF OneServed
  <2> QED
    BY <1>0, <2>1, <2>2, LineRests DEF wire, Serving
<1>6. CASE ServiceDies
  <2>1. /\ UNCHANGED <<outbox, proven>>
        /\ Close({k \in Conns : Live(k)})
    BY <1>6 DEF ServiceDies
  <2>2. /\ inbox'[lc] = <<>> \/ inbox'[lc] = inbox[lc]
        /\ ~Serving(lc)'
    BY <1>0, <2>1 DEF Close, Live, Serving
  <2> QED
    BY <1>0, <2>1, <2>2, LineRests, LineEnds
<1>7. ASSUME NEW k \in Conns \ Mine, Peer(k) PROVE Line'
  <2>1. k # lc /\ UNCHANGED s
    BY <1>0, <1>7
       DEF Peer, PeerConnects, PeerSends, PeerReceives, PeerHangsUp
  <2>2. /\ inbox'[lc] = inbox[lc] /\ outbox'[lc] = outbox[lc]
        /\ link'[lc] = link[lc]
        /\ lc \in proven => lc \in proven'
    BY <1>0, <1>7, <2>1
       DEF Peer, PeerConnects, PeerSends, PeerReceives, PeerHangsUp, Connect,
           Send, Receive, HangUp, ReauthTypeOK
  <2> QED
    BY <1>0, <2>1, <2>2, LineRests DEF Serving
<1> QED
  BY <1>1, <1>2, <1>3, <1>4, <1>5, <1>6, <1>7
     DEF Elsewhere, ServiceStep, Faulty, ServesAt

\* The UI stays away from the line ...
LEMMA LineUi == ASSUME LInv, UiStep \/ UserStep \/ UNCHANGED vars PROVE Line'
<1>1. UNCHANGED <<inbox, outbox, link, s, proven, th, lc>>
  BY DEF UiStep, UserStep, TakeReady, TakePrompt, TakeNotice, TakeVerdict,
         ShellUnlocks, EditPassword, PressUnlock, SubmitPrompt, reauth, wire,
         vars, lock
<1> QED
  BY <1>1 DEF LInv, Line, Clean, Early, Serving

\* ... and the worker thread moves along it.
LEMMA LineThread == ASSUME LInv, ThreadStep PROVE Line'
<1>0. /\ Line /\ ReauthTypeOK
      /\ outbox \in [Conns -> Seq(Response)]
      /\ inbox \in [Conns -> Seq(Request)]
      /\ UNCHANGED <<s, proven>> \/ Dial
  BY DEF LInv, RInv, ReauthTypeOK, ThreadStep, Welcomed, BeginAttempt,
         PassPrompt, PassNotice, PassVerdict, PassReply, AttemptFails
<1>1. CASE Dial
  <2>1. CASE UNCHANGED lc
    <3>1. lc = Nowhere
      BY <1>1 DEF Dial, LInv, Stage
    <3> QED
      BY <2>1, <3>1 DEF Line
  <2>2. CASE ~UNCHANGED lc
    <3>1. PICK k \in Mine : /\ link[k] = "free" /\ lc' = k /\ th' = "hello"
                            /\ Connect(k, <<[t |-> "Hello"]>>)
      BY <1>1, <2>2, Dials
    <3>2. k \in Conns /\ outbox[k] = <<>>
      BY <3>1, LockAssumption DEF LInv, FreeSlot, FreeLink
    <3>3. /\ inbox'[k] = <<[t |-> "Hello"]>> /\ outbox'[k] = <<>>
          /\ link'[k] = "queued"
      BY <1>0, <3>1, <3>2 DEF Connect, ReauthTypeOK
    <3> QED
      BY <3>1, <3>3 DEF Line, Serving
  <2> QED
    BY <2>1, <2>2
<1>2. CASE \/ Welcomed \/ BeginAttempt \/ PassPrompt \/ PassNotice
           \/ PassReply
  <2>0. /\ lc \in Conns /\ lc # Nowhere /\ UNCHANGED <<s, proven, link, lc>>
    BY <1>2, OwnSlot, LockAssumption
       DEF Welcomed, BeginAttempt, PassPrompt, PassNotice, PassReply, Receive,
           Send
  <2>1. CASE Welcomed
    <3>1. /\ th = "hello" /\ outbox[lc] # <<>> /\ th' = "begin"
          /\ UNCHANGED inbox /\ outbox' = [outbox EXCEPT ![lc] = Tail(@)]
      BY <2>1 DEF Welcomed, Receive
    <3>2. inbox[lc] = <<>> /\ outbox[lc] = <<"Welcome">> /\ Early
      BY <1>0, <2>0, <3>1 DEF Line
    <3>3. outbox'[lc] = <<>>
      BY <1>0, <2>0, <3>1, <3>2, OneFrame
    <3> QED
      BY <2>0, <3>1, <3>2, <3>3 DEF Line, Early, Serving
  <2>2. CASE BeginAttempt
    <3>1. /\ th = "begin" /\ th' = "recv" /\ UNCHANGED outbox
          /\ inbox' = [inbox EXCEPT ![lc] = Append(@, [t |-> "Begin"])]
      BY <2>2 DEF BeginAttempt, Send
    <3>2. inbox[lc] = <<>> /\ outbox[lc] = <<>> /\ Early
      BY <1>0, <2>0, <3>1 DEF Line
    <3>3. inbox'[lc] = <<[t |-> "Begin"]>>
      BY <1>0, <2>0, <3>1, <3>2, OneFrame
    <3> QED
      BY <2>0, <3>1, <3>2, <3>3 DEF Line, Early, Serving
  <2>3. CASE PassPrompt \/ PassNotice
    <3>1. /\ th = "recv" /\ outbox[lc] # <<>> /\ th' \in {"recv", "await"}
          /\ UNCHANGED inbox /\ outbox' = [outbox EXCEPT ![lc] = Tail(@)]
      BY <2>3 DEF PassPrompt, PassNotice, Receive
    <3>2. /\ \A i \in DOMAIN inbox[lc] : inbox[lc][i].t = "Reply"
          /\ Clean(lc) \/ (lc \in proven /\ Early)
      BY <1>0, <2>0, <3>1 DEF Line
    <3>3. outbox'[lc] = Tail(outbox[lc])
      BY <1>0, <2>0, <3>1
    <3>4. Clean(lc) => Clean(lc)'
      BY <1>0, <2>0, <3>1, <3>3, CleanQueue DEF Clean
    <3> QED
      BY <2>0, <3>1, <3>2, <3>4 DEF Line, Early, Serving
  <2>4. CASE PassReply
    <3>1. th = "await" /\ th' = "recv" /\ UNCHANGED outbox
      BY <2>4 DEF PassReply, Send
    <3>2. PICK r : /\ r.t = "Reply"
                   /\ inbox' = [inbox EXCEPT ![lc] = Append(@, r)]
      BY <2>4 DEF PassReply, Send
    <3>3. /\ \A i \in DOMAIN inbox[lc] : inbox[lc][i].t = "Reply"
          /\ Clean(lc) \/ (lc \in proven /\ Early)
      BY <1>0, <2>0, <3>1 DEF Line
    <3>4. inbox'[lc] = Append(inbox[lc], r)
      BY <1>0, <2>0, <3>2
    <3>5. \A i \in DOMAIN inbox'[lc] : inbox'[lc][i].t = "Reply"
      BY <1>0, <2>0, <3>2, <3>3, <3>4, ReplyQueue
    <3> QED
      BY <2>0, <3>1, <3>3, <3>5 DEF Line, Early, Serving, Clean
  <2> QED
    BY <1>2, <2>1, <2>2, <2>3, <2>4
<1>3. CASE PassVerdict \/ AttemptFails
  BY <1>3 DEF PassVerdict, AttemptFails, Abandon, Returns, Line
<1> QED
  BY <1>1, <1>2, <1>3 DEF ThreadStep

LEMMA LineNext == ASSUME LInv, Next \/ UNCHANGED vars PROVE Line'
<1>1. CASE LockerStarts
  BY <1>1 DEF LockerStarts, Returns, Line
<1>2. CASE Elsewhere
  <2>1. CASE lc = Nowhere
    BY <1>2, <2>1 DEF Elsewhere, lock, Line
  <2> QED
    BY <1>2, <2>1, LineElsewhere
<1> QED
  BY <1>1, <1>2, LineUi, LineThread DEF Next

-----------------------------------------------------------------------------
\* The end of a queue.
LEMMA QueueEnd ==
  ASSUME NEW S, NEW q \in Seq(S)
  PROVE  /\ \A e : LET a == Append(q, e) IN a[Len(a)] = e
         /\ q # <<>> /\ Tail(q) # <<>> => Tail(q)[Len(Tail(q))] = q[Len(q)]
<1>1. \A e : LET a == Append(q, e) IN a[Len(a)] = e
  OBVIOUS
<1>2. ASSUME q # <<>>, Tail(q) # <<>>
      PROVE  Tail(q)[Len(Tail(q))] = q[Len(q)]
  <2>1. Len(q) \in Nat /\ Len(Tail(q)) = Len(q) - 1 /\ Len(q) > 1
    <3>1. Tail(q) \in Seq(S) /\ Len(Tail(q)) = Len(q) - 1 /\ Len(q) \in Nat
      BY <1>2
    <3>2. Len(Tail(q)) # 0
      BY <1>2, <3>1, EmptySeq
    <3> QED
      BY <3>1, <3>2
  <2> QED
    BY <2>1
<1> QED
  BY <1>1, <1>2

\* What the locker is told of an attempt is what PAM said.
LEMMA ProvenanceNext ==
  ASSUME LInv, Next \/ UNCHANGED vars
  PROVE  Provenance'
<1>0. Provenance /\ Stage /\ inbound \in Seq(Messages) /\ locked \in BOOLEAN
  BY DEF LInv, LockTypeOK
<1>1. CASE TakeReady \/ TakePrompt \/ TakeNotice
  <2>1. /\ inbound # <<>> /\ inbound' = Tail(inbound) /\ locked
        /\ UNCHANGED <<locked, phase, proof>>
    BY <1>1 DEF TakeReady, TakePrompt, TakeNotice, Takes
  <2> QED
    BY <1>0, <2>1, QueueEnd DEF Provenance
<1>2. CASE TakeVerdict
  <2>1. /\ inbound # <<>> /\ Head(inbound) \in Verdicts /\ locked
        /\ inbound' = Tail(inbound) /\ UNCHANGED <<locked, proof>>
        /\ phase' = "Unlocking" => Head(inbound) = "Succeeded"
    BY <1>2 DEF TakeVerdict, Takes, Verdicts
  <2>2. inbound' = <<>>
    BY <2>1, NextMessage DEF Verdicts
  <2>3. Len(inbound) = 1
    <3>1. Len(Tail(inbound)) = Len(inbound) - 1 /\ Len(inbound) \in Nat
      BY <1>0, <2>1
    <3> QED
      BY <2>1, <2>2, <3>1
  <2>4. inbound[Len(inbound)] = Head(inbound)
    BY <1>0, <2>1, <2>3
  <2> QED
    BY <1>0, <2>1, <2>2, <2>4 DEF Provenance
<1>3. CASE ShellUnlocks
  <2>1. inbound = <<>>
    BY <1>0, <1>3 DEF ShellUnlocks, Stage
  <2> QED
    BY <1>3, <2>1 DEF ShellUnlocks, links, Provenance
<1>4. CASE UserStep
  <2>1. locked /\ UNCHANGED <<inbound, locked, proof>>
        /\ phase' \in {phase, "Authenticating"}
    BY <1>4 DEF UserStep, EditPassword, PressUnlock, SubmitPrompt, FormShown,
                links
  <2> QED
    BY <1>0, <2>1 DEF Provenance
<1>5. CASE PassVerdict
  <2>1. /\ th = "recv" /\ outbox[lc] # <<>> /\ UNCHANGED <<locked, phase>>
        /\ Emit(PassedOn(Head(outbox[lc])))
        /\ proof' = (PassedOn(Head(outbox[lc])) = "Succeeded" /\ lc \in proven)
    BY <1>5 DEF PassVerdict, ui
  <2>2. ready /\ phase = "Authenticating" /\ locked
    BY <2>1, Busy
  <2>3. inbound'[Len(inbound')] = PassedOn(Head(outbox[lc]))
    BY <1>0, <2>1, QueueEnd DEF Emit
  <2>4. ASSUME PassedOn(Head(outbox[lc])) = "Succeeded" PROVE lc \in proven
    <3>1. Head(outbox[lc]) = "Allow"
      BY <2>4 DEF PassedOn
    <3>2. lc \in Conns /\ lc # Nowhere
      BY <2>1, OwnSlot, LockAssumption
    <3>3. outbox[lc] \in Seq(Response)
      BY <3>2 DEF LInv, RInv, ReauthTypeOK
    <3>4. 1 \in DOMAIN outbox[lc] /\ outbox[lc][1] = "Allow"
      BY <2>1, <3>1, <3>3
    <3>5. ~Clean(lc)
      BY <3>4 DEF Clean
    <3> QED
      BY <2>1, <3>2, <3>5 DEF LInv, Line
  <2> QED
    BY <2>1, <2>2, <2>3, <2>4 DEF Provenance
<1>6. CASE ThreadStep /\ ~PassVerdict
  <2>1. /\ UNCHANGED <<locked, phase, proof>>
        /\ UNCHANGED inbound
             \/ (\E m : m # "Succeeded" /\ inbound' = Append(inbound, m))
    BY <1>6 DEF ThreadStep, Dial, Welcomed, BeginAttempt, PassPrompt,
                PassNotice, PassReply, AttemptFails, Emit, ui, links
  <2> QED
    BY <1>0, <2>1, QueueEnd DEF Provenance
<1>7. CASE LockerStarts
  BY <1>7 DEF LockerStarts, Provenance
<1>8. CASE Elsewhere \/ UNCHANGED vars
  BY <1>0, <1>8 DEF Elsewhere, vars, lock, ui, links, Provenance
<1> QED
  BY <1>1, <1>2, <1>3, <1>4, <1>5, <1>6, <1>7, <1>8 DEF Next, UiStep

LEMMA InitLInv == Init => LInv
<1> SUFFICES ASSUME Init PROVE LInv
  OBVIOUS
<1>1. RInv
  BY InitRInv DEF Init
<1>2. LockTypeOK
  <2>1. commands \in Seq(Commands) /\ inbound \in Seq(Messages)
    BY DEF Init, Messages
  <2> QED
    BY <2>1 DEF Init, LockTypeOK, Texts
<1>3. Stage /\ Line
  BY DEF Init, Stage, Line
<1>4. FreeSlot /\ FreeLink
  BY DEF Init, ReauthInit, FreeSlot, FreeLink
<1>5. Provenance
  <2>1. <<"Ready">>[Len(<<"Ready">>)] = "Ready"
    OBVIOUS
  <2> QED
    BY <2>1 DEF Init, Provenance
<1> QED
  BY <1>1, <1>2, <1>3, <1>4, <1>5 DEF LInv

LEMMA LInvNext == LInv /\ [Next]_vars => LInv'
<1> SUFFICES ASSUME LInv, Next \/ UNCHANGED vars PROVE LInv'
  OBVIOUS
<1>1. FreeSlot' /\ FreeLink'
  BY LockMoves, FreeMove DEF LInv, RInv, vars
<1> QED
  BY <1>1, RInvLock, LockTypes, StageNext, LineNext, ProvenanceNext DEF LInv

\* Type correctness of door-lock (app.rs, client.rs) and of the service it
\* talks to.
THEOREM LockTypeCorrect == Spec => []TypeOK
<1>1. LInv => TypeOK
  BY DEF LInv, RInv, TypeOK
<1> QED
  BY <1>1, InitLInv, LInvNext, PTL DEF Spec

\* The UI and the worker thread of door-lock agree on the conversation at any
\* moment (app.rs:973-1065): each prompt is answered once and by its own reply,
\* whoever dies and whatever the user presses.
THEOREM LockStaysInStep == Spec => []LockInStep
BY StageInStep, InitLInv, LInvNext, PTL DEF Spec

\* With a lock screen among its peers too, the service allows only what PAM has
\* just accepted (reauth.rs:395-398).
THEOREM LockFailsClosed == Spec => AllowsOnlyProven
<1>1. LInv /\ [Next]_vars
        => [\A k \in Conns :
              Len(outbox[k]') > Len(outbox[k])
                /\ outbox[k]'[Len(outbox[k]')] = "Allow"
                  => Serving(k) /\ k \in proven]_reauth
  <2> SUFFICES ASSUME LInv, Next \/ UNCHANGED vars, NEW k \in Conns,
                      Len(outbox[k]') > Len(outbox[k]),
                      outbox[k]'[Len(outbox[k]')] = "Allow"
               PROVE  Serving(k) /\ k \in proven
    OBVIOUS
  <2> QED
    BY LockMoves, AllowStep DEF LInv, vars
<1> QED
  BY <1>1, InitLInv, LInvNext, PTL DEF Spec, AllowsOnlyProven

\* With a lock screen among its peers too, the service and its worker keep step.
THEOREM LockVerifierInStep == Spec => []VerifierInStep
<1>1. Init => Talk
  BY DEF Init, ReauthInit, Talk
<1>2. LInv /\ Talk /\ [Next]_vars => Talk'
  BY LockMoves, TalkMove DEF LInv, vars, reauth
<1>3. LInv /\ Talk => VerifierInStep
  BY TalkInStep DEF LInv
<1> QED
  BY <1>1, <1>2, <1>3, InitLInv, LInvNext, PTL DEF Spec

-----------------------------------------------------------------------------
\* A proof under way to the lock, at the locker's connection or beyond it.
GateProof == proof \/ (lc # Nowhere /\ lc \in proven)

LEMMA GateInit == Init => Gate!Init
BY DEF Init, ReauthInit, Gate!Init

\* Every step of the lock screen and its service is one of the gate's.
LEMMA GateStep == LInv /\ [Next]_vars => [Gate!Next]_(Gate!vars)
<1> SUFFICES ASSUME LInv, Next \/ UNCHANGED vars
             PROVE  \/ locked /\ GateProof' = TRUE /\ UNCHANGED locked
                    \/ GateProof' = FALSE /\ UNCHANGED locked
                    \/ /\ locked /\ GateProof
                       /\ locked' = FALSE /\ GateProof' = FALSE
                    \/ ~locked /\ locked' = TRUE /\ UNCHANGED GateProof
                    \/ UNCHANGED <<locked, GateProof>>
  BY DEF Gate!Next, Gate!Prove, Gate!Forget, Gate!Open, Gate!Lock, Gate!vars,
         GateProof
<1>0. /\ locked \in BOOLEAN /\ proof \in BOOLEAN
      /\ locked' \in BOOLEAN /\ proof' \in BOOLEAN
      /\ GateProof \in BOOLEAN /\ GateProof' \in BOOLEAN
  BY LockTypes DEF LInv, LockTypeOK, GateProof
<1>1. CASE ShellUnlocks
  <2>1. proof /\ th = "idle"
    BY <1>1 DEF ShellUnlocks, LInv, Provenance, Stage
  <2>2. lc = Nowhere /\ UNCHANGED lc
    BY <1>1, <2>1 DEF ShellUnlocks, LInv, Stage
  <2> QED
    BY <1>1, <2>1, <2>2 DEF ShellUnlocks, GateProof
<1>2. CASE LockerStarts
  <2>1. GateProof' = FALSE /\ locked' = TRUE
    BY <1>2 DEF LockerStarts, Returns, GateProof
  <2>2. ~locked => ~GateProof
    BY DEF LInv, Provenance, Stage, GateProof
  <2> QED
    BY <1>0, <2>1, <2>2
<1>3. CASE ~ShellUnlocks /\ ~LockerStarts
  <2>1. UNCHANGED locked
    BY <1>3 DEF Next, UiStep, UserStep, TakeReady, TakePrompt, TakeNotice,
                TakeVerdict, EditPassword, PressUnlock, SubmitPrompt,
                ThreadStep, Dial, Welcomed, BeginAttempt, PassPrompt,
                PassNotice, PassVerdict, PassReply, AttemptFails, Elsewhere,
                lock, ui, vars
  <2>2. CASE locked
    BY <1>0, <2>1, <2>2
  <2>3. CASE ~locked
    <3>1. th = "idle" /\ lc = Nowhere /\ commands = <<>> /\ ~proof
      BY <2>3 DEF LInv, Stage, Provenance
    <3>2. ~ThreadStep
      BY <3>1 DEF ThreadStep, Dial, Welcomed, BeginAttempt, PassPrompt,
                  PassNotice, PassVerdict, PassReply, AttemptFails, Ordered
    <3>3. UNCHANGED <<lc, proof>>
      BY <1>3, <3>2 DEF Next, UiStep, UserStep, TakeReady, TakePrompt,
                        TakeNotice, TakeVerdict, EditPassword, PressUnlock,
                        SubmitPrompt, Elsewhere, lock, vars
    <3> QED
      BY <2>1, <3>1, <3>3 DEF GateProof
  <2> QED
    BY <1>0, <2>2, <2>3
<1> QED
  BY <1>1, <1>2, <1>3

\* The lock opens as LockGate says: on a success of PAM for the locked user's
\* own secret, one opening a success, and on nothing else - no denial, error,
\* lost connection, death of the daemon or other program's attempt.
THEOREM ImplementsLockGate == Spec => OpensProperly
BY GateInit, GateStep, InitLInv, LInvNext, PTL DEF Spec, OpensProperly, Gate!Spec
=============================================================================
