--------------------------- MODULE GreeterUIProofs ---------------------------
(***************************************************************************)
(* Proofs about GreeterUI, for every bound and every capacity: the types,  *)
(* that the greeter's worker thread and the daemon keep step, prompts and  *)
(* replies included, and that a session is only asked for after a success. *)
(***************************************************************************)
EXTENDS GreeterUI, SequenceTheorems, TLAPS

-----------------------------------------------------------------------------
(* Sequences.                                                              *)

LEMMA Shortened ==
  ASSUME NEW S, NEW s \in Seq(S), s # <<>>
  PROVE  Tail(s) \in Seq(S) /\ Head(s) \in S /\ Len(Tail(s)) = Len(s) - 1
BY HeadTailProperties

LEMMA Lengthened ==
  ASSUME NEW S, NEW s \in Seq(S), NEW e \in S
  PROVE  /\ Append(s, e) \in Seq(S) /\ Len(Append(s, e)) = Len(s) + 1
         /\ Append(s, e) # <<>>
BY AppendProperties, EmptySeq

LEMMA Single ==
  ASSUME NEW S, NEW s \in Seq(S)
  PROVE  /\ Len(s) = 1 => Tail(s) = <<>> /\ s = <<Head(s)>>
         /\ Len(s) = 0 <=> s = <<>>
<1>1. Len(s) = 0 <=> s = <<>>
  BY EmptySeq
<1>2. ASSUME Len(s) = 1 PROVE Tail(s) = <<>> /\ s = <<Head(s)>>
  <2>1. s # <<>>
    BY <1>1, <1>2
  <2>2. Tail(s) \in Seq(S) /\ Len(Tail(s)) = 0
    BY <1>2, <2>1, Shortened
  <2>3. Tail(s) = <<>>
    BY <2>2, EmptySeq
  <2> QED
    BY <1>2, <2>1, <2>3
<1> QED
  BY <1>1, <1>2

\* What AtWork and Answered say of the responses.
Final(q) == q # <<>> /\ \A i \in DOMAIN q : q[i] = "Notice" <=> i # Len(q)
Noticed(q) == \E i \in DOMAIN q : q[i] = "Notice"

Has(q, x) == \E i \in DOMAIN q : q[i] = x

LEMMA HasLess ==
  ASSUME NEW S, NEW q \in Seq(S), q # <<>>, NEW x
  PROVE  /\ Head(q) = x => Has(q, x)
         /\ Has(Tail(q), x) => Has(q, x)
<1>1. /\ Len(q) \in Nat /\ Len(q) >= 1 /\ DOMAIN q = 1..Len(q)
      /\ Head(q) = q[1] /\ DOMAIN Tail(q) = 1..(Len(q) - 1)
      /\ \A i \in 1..(Len(q) - 1) : Tail(q)[i] = q[i + 1]
  BY HeadTailProperties, EmptySeq
<1>2. \A i \in 1..(Len(q) - 1) : i + 1 \in 1..Len(q)
  BY <1>1
<1> QED
  BY <1>1, <1>2 DEF Has

LEMMA HasMore ==
  ASSUME NEW S, NEW q \in Seq(S), NEW r \in S, NEW x, Has(Append(q, r), x)
  PROVE  Has(q, x) \/ r = x
<1>1. /\ Len(q) \in Nat /\ DOMAIN q = 1..Len(q)
      /\ DOMAIN Append(q, r) = 1..(Len(q) + 1)
      /\ Append(q, r)[Len(q) + 1] = r
      /\ \A i \in 1..Len(q) : Append(q, r)[i] = q[i]
  BY AppendProperties
<1>2. \A i \in 1..(Len(q) + 1) : i \in 1..Len(q) \/ i = Len(q) + 1
  BY <1>1
<1> QED
  BY <1>1, <1>2 DEF Has

LEMMA NoneYet == Notices(<<>>) /\ ~Noticed(<<>>)
BY DEF Notices, Noticed

LEMMA NoticeMore ==
  ASSUME NEW q \in Seq(Responses), Notices(q)
  PROVE  Notices(Append(q, "Notice"))
BY AppendProperties DEF Notices, Responses

LEMMA Finished ==
  ASSUME NEW q \in Seq(Responses), NEW r \in Responses, Notices(q), r # "Notice"
  PROVE  Final(Append(q, r)) /\ (q = <<>> => ~Noticed(Append(q, r)))
<1> DEFINE s == Append(q, r)
<1>1. /\ s # <<>> /\ Len(s) = Len(q) + 1 /\ DOMAIN s = 1..Len(s)
      /\ DOMAIN q = 1..Len(q) /\ Len(q) \in Nat
      /\ s[Len(q) + 1] = r /\ \A i \in 1..Len(q) : s[i] = q[i]
  BY AppendProperties
<1>2. Final(s)
  BY <1>1 DEF Final, Notices
<1>3. q = <<>> => ~Noticed(s)
  <2>1. q = <<>> => Len(q) = 0
    BY EmptySeq
  <2> QED
    BY <1>1, <2>1 DEF Noticed
<1> QED
  BY <1>2, <1>3

LEMMA HeardNotice ==
  ASSUME NEW q \in Seq(Responses), q # <<>>, Head(q) = "Notice"
  PROVE  /\ Notices(q) => Notices(Tail(q))
         /\ Final(q) => Final(Tail(q))
<1>1. /\ Len(q) \in Nat /\ Len(q) >= 1 /\ DOMAIN q = 1..Len(q)
      /\ q[1] = "Notice" /\ Tail(q) \in Seq(Responses)
      /\ Len(Tail(q)) = Len(q) - 1 /\ DOMAIN Tail(q) = 1..(Len(q) - 1)
      /\ \A i \in 1..(Len(q) - 1) : Tail(q)[i] = q[i + 1]
  BY HeadTailProperties, EmptySeq
<1>2. Notices(q) => Notices(Tail(q))
  BY <1>1 DEF Notices
<1>3. ASSUME Final(q) PROVE Final(Tail(q))
  <2>1. Len(q) # 1
    BY <1>1, <1>3 DEF Final
  <2>2. Tail(q) # <<>>
    BY <1>1, <2>1, EmptySeq
  <2> QED
    BY <1>1, <1>3, <2>1, <2>2 DEF Final
<1> QED
  BY <1>2, <1>3

LEMMA HeardLast ==
  ASSUME NEW q \in Seq(Responses), q # <<>>, Head(q) # "Notice"
  PROVE  ~Notices(q) /\ (Final(q) => Tail(q) = <<>>)
<1>1. /\ Len(q) \in Nat /\ Len(q) >= 1 /\ DOMAIN q = 1..Len(q)
      /\ q[1] # "Notice" /\ Tail(q) \in Seq(Responses)
      /\ Len(Tail(q)) = Len(q) - 1
  BY HeadTailProperties, EmptySeq
<1>2. ~Notices(q)
  BY <1>1 DEF Notices
<1>3. Final(q) => Len(q) = 1
  BY <1>1 DEF Final
<1>4. Len(q) = 1 => Tail(q) = <<>>
  BY Single
<1> QED
  BY <1>2, <1>3, <1>4

\* Where a message one-way is at the head, one is on the socket.
LEMMA HeadNoticed ==
  ASSUME NEW q \in Seq(Responses), q # <<>>
  PROVE  Head(q) = "Notice" => Noticed(q)
<1>1. Len(q) \in Nat /\ Len(q) >= 1 /\ DOMAIN q = 1..Len(q) /\ Head(q) = q[1]
  BY HeadTailProperties, EmptySeq
<1> QED
  BY <1>1 DEF Noticed

-----------------------------------------------------------------------------
(* Types.                                                                  *)

UiTypes ==
  /\ phase \in {"Connecting", "Ready", "Authenticating", "Started"}
  /\ ready \in BOOLEAN /\ selected \in BOOLEAN /\ typed \in BOOLEAN
  /\ prompt \in BOOLEAN /\ cue \in BOOLEAN
InboundTypes == inbound \in Seq(Messages) /\ Len(inbound) <= Capacity
ThreadTypes ==
  /\ th \in Waiting \cup {"connect", "idle", "await", "returned"}
  /\ rq \in Seq(Requests) /\ rs \in Seq(Responses)
DaemonTypes ==
  /\ dm \in {"away", "handshake", "idle", "auth", "prompt", "owns", "over"}
  /\ managed \in BOOLEAN /\ user \in BOOLEAN /\ fault \in BOOLEAN

LEMMA TypeParts ==
  TypeOK <=> /\ up \in BOOLEAN /\ handed \in BOOLEAN
             /\ UiTypes /\ commands \in Seq(Commands) /\ InboundTypes
             /\ ThreadTypes /\ DaemonTypes
BY DEF TypeOK, UiTypes, InboundTypes, ThreadTypes, DaemonTypes

LEMMA TypeInit == Init => TypeOK
<1> SUFFICES ASSUME Init PROVE TypeOK
  OBVIOUS
<1>1. /\ commands \in Seq(Commands)
      /\ rq \in Seq(Requests) /\ rs \in Seq(Responses)
  BY EmptySeq DEF Init
<1>2. InboundTypes
  BY EmptySeq, GreeterAssumption DEF Init, InboundTypes
<1>3. UiTypes /\ ThreadTypes /\ DaemonTypes /\ up \in BOOLEAN
      /\ handed \in BOOLEAN
  BY <1>1, Zenon DEF Init, UiTypes, ThreadTypes, DaemonTypes, Waiting
<1> QED
  BY <1>1, <1>2, <1>3, TypeParts

LEMMA SendsTypes ==
  ASSUME commands \in Seq(Commands), UiTypes, NEW c \in Commands,
         NEW p \in {"Connecting", "Ready", "Authenticating", "Started"},
         Sends(c, p)
  PROVE  /\ commands' \in Seq(Commands)
         /\ phase' \in {"Connecting", "Ready", "Authenticating", "Started"}
<1>1. Append(commands, c) \in Seq(Commands)
  BY Lengthened
<1> QED
  BY <1>1 DEF Sends

LEMMA TakesTypes ==
  ASSUME InboundTypes, NEW m \in Messages, Takes(m)
  PROVE  InboundTypes'
<1>1. inbound \in Seq(Messages) /\ inbound # <<>> /\ inbound' = Tail(inbound)
  BY DEF Takes, InboundTypes
<1>2. Tail(inbound) \in Seq(Messages) /\ Len(Tail(inbound)) = Len(inbound) - 1
  BY <1>1, Shortened
<1>3. Len(inbound) \in Nat
  BY <1>1, LenProperties
<1> QED
  BY <1>1, <1>2, <1>3, GreeterAssumption DEF InboundTypes

LEMMA EmitTypes ==
  ASSUME InboundTypes, NEW m \in Messages, Emit(m)
  PROVE  InboundTypes'
<1>1. /\ Append(inbound, m) \in Seq(Messages)
      /\ Len(Append(inbound, m)) = Len(inbound) + 1
  BY Lengthened DEF InboundTypes
<1>2. Len(inbound) \in Nat
  BY LenProperties DEF InboundTypes
<1> QED
  BY <1>1, <1>2, GreeterAssumption DEF InboundTypes, Emit

\* What only the UI thread and the user do.
LEMMA UiTyped ==
  ASSUME TypeOK, UiStep \/ UserStep
  PROVE  /\ TypeOK'
         /\ UNCHANGED <<th, rq, rs, dm, managed, user, fault>>
<1>1. /\ up \in BOOLEAN /\ handed \in BOOLEAN /\ UiTypes
      /\ commands \in Seq(Commands) /\ InboundTypes
      /\ ThreadTypes /\ DaemonTypes
  BY TypeParts
<1>2. /\ UNCHANGED <<handed, th, rq, rs, dm, managed, user, fault>>
      /\ up' \in BOOLEAN
  BY <1>1 DEF UiStep, UserStep, Locally, socket, daemon, TakeWorkerReady,
     TakeSessions, TakePrompt, TakeNotice, TakeSuccess, TakeFailure, TakeFatal,
     TakeStarted, EditPassword, PressLogin, SubmitPrompt, PressPower
<1>3. UiTypes' /\ commands' \in Seq(Commands)
  <2>1. CASE TakeWorkerReady
    BY <1>1, <2>1 DEF TakeWorkerReady, UiTypes
  <2>2. CASE TakeSessions
    BY <1>1, <2>2 DEF TakeSessions, UiTypes
  <2>3. CASE TakePrompt
    <3>1. Sends("Reply", phase) =>
            commands' \in Seq(Commands)
            /\ phase' \in {"Connecting", "Ready", "Authenticating", "Started"}
      BY <1>1, SendsTypes DEF UiTypes, Commands
    <3> QED
      BY <1>1, <2>3, <3>1 DEF TakePrompt, UiTypes
  <2>4. CASE TakeNotice
    BY <1>1, <2>4 DEF TakeNotice, UiTypes
  <2>5. CASE TakeSuccess
    <3>1. Sends("Start", phase) =>
            commands' \in Seq(Commands)
            /\ phase' \in {"Connecting", "Ready", "Authenticating", "Started"}
      BY <1>1, SendsTypes DEF UiTypes, Commands
    <3> QED
      BY <1>1, <2>5, <3>1 DEF TakeSuccess, UiTypes
  <2>6. CASE TakeFailure
    BY <1>1, <2>6 DEF TakeFailure, UiTypes
  <2>7. CASE TakeFatal
    BY <1>1, <2>7 DEF TakeFatal, UiTypes
  <2>8. CASE TakeStarted
    BY <1>1, <2>8 DEF TakeStarted, UiTypes
  <2>9. CASE EditPassword
    BY <1>1, <2>9 DEF EditPassword, UiTypes, links
  <2>10. CASE PressLogin
    <3>1. commands' \in Seq(Commands)
          /\ phase' \in {"Connecting", "Ready", "Authenticating", "Started"}
      BY <1>1, <2>10, SendsTypes DEF PressLogin, Commands
    <3> QED
      BY <1>1, <2>10, <3>1 DEF PressLogin, UiTypes
  <2>11. CASE SubmitPrompt
    <3>1. commands' \in Seq(Commands)
          /\ phase' \in {"Connecting", "Ready", "Authenticating", "Started"}
      BY <1>1, <2>11, SendsTypes DEF SubmitPrompt, Commands, UiTypes
    <3> QED
      BY <1>1, <2>11, <3>1 DEF SubmitPrompt, UiTypes
  <2>12. CASE PressPower
    <3>1. commands' \in Seq(Commands)
          /\ phase' \in {"Connecting", "Ready", "Authenticating", "Started"}
      BY <1>1, <2>12, SendsTypes DEF PressPower, Commands, UiTypes
    <3> QED
      BY <1>1, <2>12, <3>1 DEF PressPower, UiTypes
  <2> QED
    BY <2>1, <2>2, <2>3, <2>4, <2>5, <2>6, <2>7, <2>8, <2>9, <2>10, <2>11,
       <2>12 DEF UiStep, UserStep
<1>4. InboundTypes'
  <2>1. CASE UserStep
    <3>1. UNCHANGED inbound
      BY <2>1 DEF UserStep, EditPassword, PressLogin, SubmitPrompt, PressPower,
         links
    <3> QED
      BY <1>1, <3>1 DEF InboundTypes
  <2>2. CASE UiStep
    <3>1. \E m \in Messages : Takes(m)
      BY <2>2 DEF UiStep, TakeWorkerReady, TakeSessions, TakePrompt, TakeNotice,
         TakeSuccess, TakeFailure, TakeFatal, TakeStarted, Messages, Verdicts
    <3> QED
      BY <1>1, <3>1, TakesTypes
  <2> QED
    BY <2>1, <2>2
<1>5. ThreadTypes' /\ DaemonTypes'
  BY <1>1, <1>2 DEF ThreadTypes, DaemonTypes
<1>6. (TypeOK)' <=> /\ up' \in BOOLEAN /\ handed' \in BOOLEAN
             /\ UiTypes' /\ commands' \in Seq(Commands) /\ InboundTypes'
             /\ ThreadTypes' /\ DaemonTypes'
  BY DEF TypeOK, UiTypes, InboundTypes, ThreadTypes, DaemonTypes
<1> QED
  BY <1>1, <1>2, <1>3, <1>4, <1>5, <1>6

LEMMA OrderedTypes ==
  ASSUME commands \in Seq(Commands), NEW c \in Commands, Ordered(c)
  PROVE  commands' \in Seq(Commands)
BY Shortened DEF Ordered

\* What a step of the thread does to the channels and the socket.
LEMMA ThreadMoves ==
  ASSUME ThreadStep
  PROVE  /\ up /\ UNCHANGED <<up, ui, handed, managed, user, fault>>
         /\ dm' = dm \/ (dm = "away" /\ dm' = "handshake")
         /\ UNCHANGED commands \/ \E c \in Commands : Ordered(c)
         /\ UNCHANGED inbound \/ \E m \in Messages : Emit(m)
         /\ th' \in Waiting \cup {"idle", "await", "returned"}
         /\ \/ UNCHANGED rq
            \/ rq' = <<"Hello">>
            \/ \E r \in Requests : rq' = Append(rq, r)
         /\ UNCHANGED rs \/ (rs # <<>> /\ rs' = Tail(rs))
<1> USE DEF InThread, Waiting
<1>1. CASE Dial
  BY <1>1 DEF Dial, socket, Messages, Verdicts
<1>2. CASE ShakeHands
  BY <1>2 DEF ShakeHands, daemon, HearsBut, Hears, DaemonGone, socket, Messages,
     Verdicts, Requests
<1>3. CASE ReadSessions
  BY <1>3 DEF ReadSessions, daemon, HearsBut, Hears, DaemonGone, socket,
     Messages, Verdicts
<1>4. CASE Obey
  BY <1>4 DEF Obey, daemon, Asks, socket, Messages, Verdicts, Commands, Requests
<1>5. CASE DropStrayReply
  BY <1>5 DEF DropStrayReply, daemon, socket, Commands
<1>6. CASE HearStart
  BY <1>6 DEF HearStart, daemon, HearsBut, Hears, DaemonGone, socket, Messages,
     Verdicts
<1>7. CASE HearPower
  BY <1>7 DEF HearPower, daemon, HearsBut, Hears, DaemonGone, socket, Messages,
     Verdicts
<1>8. CASE PassPrompt
  BY <1>8 DEF PassPrompt, daemon, Hears, Messages
<1>9. CASE PassNotice
  BY <1>9 DEF PassNotice, daemon, Hears, Messages
<1>10. CASE PassVerdict
  BY <1>10 DEF PassVerdict, daemon, HearsBut, Hears, DaemonGone, socket,
     Messages, Verdicts
<1>11. CASE PassReply
  BY <1>11 DEF PassReply, daemon, Asks, socket, Messages, Verdicts, Commands,
     Requests
<1>12. CASE DropConversation
  BY <1>12 DEF DropConversation, daemon, socket
<1> QED
  BY <1>1, <1>2, <1>3, <1>4, <1>5, <1>6, <1>7, <1>8, <1>9, <1>10, <1>11, <1>12
     DEF ThreadStep

LEMMA ThreadTyped ==
  ASSUME TypeOK, ThreadStep \/ HandOver
  PROVE  TypeOK'
<1>1. /\ up \in BOOLEAN /\ handed \in BOOLEAN /\ UiTypes
      /\ commands \in Seq(Commands) /\ InboundTypes
      /\ ThreadTypes /\ DaemonTypes
  BY TypeParts
<1>2. CASE HandOver
  <2>1. /\ UNCHANGED <<up, ui, commands, th, rq, rs, dm, managed, user, fault>>
        /\ handed' \in BOOLEAN /\ Emit("WorkerReady")
    BY <1>2 DEF HandOver, socket, daemon
  <2>2. InboundTypes'
    BY <1>1, <2>1, EmitTypes DEF Messages
  <2>3. UiTypes' /\ ThreadTypes' /\ DaemonTypes'
    BY <1>1, <2>1 DEF UiTypes, ThreadTypes, DaemonTypes, ui
  <2> QED
    BY <1>1, <2>1, <2>2, <2>3, Zenon
       DEF TypeOK, UiTypes, InboundTypes, ThreadTypes, DaemonTypes
<1>3. CASE ThreadStep
  <2>1. UNCHANGED <<up, ui, handed>> /\ UiTypes' /\ DaemonTypes'
    BY <1>1, <1>3, ThreadMoves DEF UiTypes, DaemonTypes, ui
  <2>2. commands' \in Seq(Commands)
    BY <1>1, <1>3, ThreadMoves, OrderedTypes
  <2>3. InboundTypes'
    <3>1. CASE UNCHANGED inbound
      BY <1>1, <3>1 DEF InboundTypes
    <3>2. CASE \E m \in Messages : Emit(m)
      BY <1>1, <3>2, EmitTypes
    <3> QED
      BY <1>3, <3>1, <3>2, ThreadMoves
  <2>4. ThreadTypes'
    <3>1. rq \in Seq(Requests) /\ rs \in Seq(Responses)
      BY <1>1 DEF ThreadTypes
    <3>2. <<"Hello">> \in Seq(Requests)
      BY DEF Requests
    <3>3. rq' \in Seq(Requests)
      BY <1>3, <3>1, <3>2, ThreadMoves, Lengthened
    <3>4. rs' \in Seq(Responses)
      BY <1>3, <3>1, ThreadMoves, Shortened
    <3>5. th' \in Waiting \cup {"connect", "idle", "await", "returned"}
      BY <1>3, ThreadMoves
    <3> QED
      BY <3>3, <3>4, <3>5 DEF ThreadTypes, Waiting
  <2> QED
    BY <1>1, <2>1, <2>2, <2>3, <2>4, Zenon
       DEF TypeOK, UiTypes, InboundTypes, ThreadTypes, DaemonTypes
<1> QED
  BY <1>2, <1>3

\* What a step of the daemon, or of PAM in it, does to the socket.
LEMMA DaemonMoves ==
  ASSUME TypeOK, DaemonStep \/ PamStep \/ Ends
  PROVE  /\ UNCHANGED <<ui, links, handed, th, managed>>
         /\ up' \in BOOLEAN
         /\ dm' \in {"away", "handshake", "idle", "auth", "prompt", "owns",
                     "over"}
         /\ user' \in BOOLEAN /\ fault' \in BOOLEAN
         /\ UNCHANGED rq \/ (rq # <<>> /\ rq' = Tail(rq))
         /\ UNCHANGED rs \/ \E r \in Responses : rs' = Append(rs, r)
<1> USE DEF InDaemon, Responses
<1>0. /\ up \in BOOLEAN /\ user \in BOOLEAN /\ fault \in BOOLEAN
      /\ dm \in {"away", "handshake", "idle", "auth", "prompt", "owns", "over"}
  BY DEF TypeOK
<1>1. CASE Handshake
  BY <1>0, <1>1 DEF Handshake, Reads, Answers, socket
<1>2. CASE Dispatch
  BY <1>0, <1>2 DEF Dispatch, Reads, Answers
<1>3. CASE BeginAuth
  BY <1>0, <1>3 DEF BeginAuth, Reads
<1>4. CASE ReadReply
  BY <1>0, <1>4 DEF ReadReply, Reads
<1>5. CASE StartSession
  BY <1>0, <1>5 DEF StartSession, Reads, Answers
<1>6. CASE AskUser
  BY <1>0, <1>6 DEF AskUser, Answers
<1>7. CASE Notify
  BY <1>0, <1>7 DEF Notify, Answers
<1>8. CASE Concludes
  BY <1>0, <1>8 DEF Concludes, Answers
<1>9. CASE Ends
  BY <1>0, <1>9 DEF Ends, socket
<1> QED
  BY <1>1, <1>2, <1>3, <1>4, <1>5, <1>6, <1>7, <1>8, <1>9
     DEF DaemonStep, PamStep

LEMMA DaemonTyped ==
  ASSUME TypeOK, DaemonStep \/ PamStep \/ Ends
  PROVE  TypeOK'
<1>1. /\ up \in BOOLEAN /\ handed \in BOOLEAN /\ UiTypes
      /\ commands \in Seq(Commands) /\ InboundTypes
      /\ ThreadTypes /\ DaemonTypes
  BY TypeParts
<1>2. /\ up' \in BOOLEAN /\ UNCHANGED <<handed, commands, inbound>>
      /\ UiTypes' /\ InboundTypes' /\ DaemonTypes'
  BY <1>1, DaemonMoves DEF UiTypes, InboundTypes, DaemonTypes, ui, links
<1>3. ThreadTypes'
  <2>1. rq \in Seq(Requests) /\ rs \in Seq(Responses)
    BY <1>1 DEF ThreadTypes
  <2>2. rq' \in Seq(Requests)
    BY <2>1, DaemonMoves, Shortened
  <2>3. rs' \in Seq(Responses)
    BY <2>1, DaemonMoves, Lengthened
  <2> QED
    BY <1>1, <2>2, <2>3, DaemonMoves DEF ThreadTypes, Waiting
<1> QED
  BY <1>1, <1>2, <1>3, Zenon
     DEF TypeOK, UiTypes, InboundTypes, ThreadTypes, DaemonTypes

\* No step takes a variable out of its type.
LEMMA TypeNext == TypeOK /\ [Next]_vars => TypeOK'
<1> SUFFICES ASSUME TypeOK, [Next]_vars PROVE TypeOK'
  OBVIOUS
<1>1. CASE UNCHANGED vars
  <2>1. /\ UNCHANGED <<up, handed, commands, inbound, phase, ready, selected>>
        /\ UNCHANGED <<typed, prompt, cue, th, rq, rs, dm, managed, user>>
        /\ UNCHANGED fault
    BY <1>1 DEF vars, ui, links, socket, daemon
  <2> QED
    BY <2>1 DEF TypeOK, Waiting
<1>2. CASE Next
  BY <1>2, UiTyped, ThreadTyped, DaemonTyped DEF Next
<1> QED
  BY <1>1, <1>2

\* The variables of the greeter, of the socket and of the daemon's loop keep
\* their types, and no message is written past the channel's capacity.
THEOREM GreeterTypeCorrect == Spec => []TypeOK
<1>1. TypeOK /\ [Next]_vars => TypeOK'
  BY TypeNext
<1> QED
  BY <1>1, TypeInit, PTL DEF Spec

-----------------------------------------------------------------------------
(* The seam.                                                               *)

Live == dm \notin {"away", "owns", "over"}

\* Before the connection is made nothing is on it, and once it is the thread
\* has asked for it.
Undialled ==
  /\ dm = "away" => rq = <<>> /\ rs = <<>> /\ th \in {"connect", "returned"}
  /\ th = "connect" => dm = "away"

\* While it lasts, one response is owed to a thread that waits, and none to
\* one that does not.
Owed ==
  Live => /\ th \in Waiting => (Unread \/ AtWork \/ Answered)
          /\ th \notin Waiting => (rq = <<>> /\ rs = <<>> /\ dm # "auth")

\* A conversation that was cancelled has nothing on the socket, and one that
\* was not is what the thread reads.  Nothing but a conversation leads to a
\* reply, to an attempt, or to a message one-way.
Talking ==
  /\ Live /\ dm = "auth" => IF fault THEN rs = <<>> ELSE th = "recv"
  /\ Live /\ rq \in {<<"AuthReply">>, <<"BeginAuth">>} => th = "recv"
  /\ Live /\ Noticed(rs) => th = "recv"

Seam == Undialled /\ Owed /\ Talking

LEMMA SeamInit == Init => Seam
BY NoneYet DEF Init, Seam, Undialled, Owed, Talking, Live

\* A step that leaves the socket, the thread and the loop alone.
LEMMA SeamStill ==
  ASSUME Seam, UNCHANGED <<th, rq, rs, dm, fault>>
  PROVE  Seam'
BY DEF Seam, Undialled, Owed, Talking, Live, Unread, AtWork, Answered, Notices,
   Noticed, Waiting

\* A connection that is over binds nobody.
LEMMA SeamOver ==
  ASSUME Seam, dm' \in {"owns", "over"}, th' # "connect"
  PROVE  Seam'
BY DEF Seam, Undialled, Owed, Talking, Live

\* The thread, waiting, hears a response on a live connection.
LEMMA Hearing ==
  ASSUME TypeOK, Seam, Live, th \in Waiting, rs # <<>>
  PROVE  /\ rq = <<>>
         /\ Head(rs) # "Notice" => Tail(rs) = <<>> /\ dm # "auth"
         /\ Head(rs) = "Notice" => th = "recv"
<1>1. rs \in Seq(Responses)
  BY DEF TypeOK
<1>2. /\ AtWork \/ Answered
      /\ Noticed(rs) => th = "recv"
  BY DEF Seam, Owed, Talking, Unread
<1>3. Answered => Final(rs)
  BY DEF Answered, Final
<1> QED
  BY <1>1, <1>2, <1>3, HeardLast, HeadNoticed DEF AtWork, Answered

\* It reads the last of them, ...
LEMMA HeardOut ==
  ASSUME TypeOK, Seam, Live, th \in Waiting, rs # <<>>, Head(rs) # "Notice",
         rs' = Tail(rs), UNCHANGED <<rq, dm, fault>>,
         th' \in {"idle", "await", "returned"}
  PROVE  Seam'
<1>1. rq = <<>> /\ rs' = <<>> /\ dm # "auth"
  BY Hearing
<1>2. Undialled'
  BY <1>1 DEF Seam, Undialled, Live
<1>3. Owed'
  BY <1>1 DEF Owed, Live, Waiting
<1>4. Talking'
  BY <1>1, NoneYet DEF Talking, Live
<1> QED
  BY <1>2, <1>3, <1>4 DEF Seam

\* ... or asks for one, when none is owed to it.
LEMMA AskedOne ==
  ASSUME TypeOK, Seam, Live, th \notin Waiting, NEW r \in Requests,
         rq' = Append(rq, r), UNCHANGED <<rs, dm, fault>>, th' \in Waiting,
         r \in {"AuthReply", "BeginAuth"} => th' = "recv"
  PROVE  Seam'
<1>1. rq = <<>> /\ rs = <<>> /\ dm # "auth"
  BY DEF Seam, Owed
<1>2. rq' = <<r>>
  BY <1>1
<1>3. Undialled'
  BY <1>1 DEF Seam, Undialled, Live, Waiting
<1>4. Owed'
  BY <1>1, <1>2 DEF Owed, Live, Unread
<1>5. Talking'
  BY <1>1, <1>2, NoneYet DEF Talking, Live
<1> QED
  BY <1>3, <1>4, <1>5 DEF Seam

\* It waits for the user, or for nobody.
LEMMA Resting ==
  ASSUME Seam, th \notin Waiting, th' \in {"idle", "await", "returned"},
         dm # "away", UNCHANGED <<rq, rs, dm, fault>>
  PROVE  Seam'
<1>1. th' \notin Waiting
  BY DEF Waiting
<1>2. Undialled'
  BY DEF Seam, Undialled
<1>3. Owed'
  BY <1>1 DEF Seam, Owed, Live
<1>4. Talking'
  <2>1. Live => rq = <<>> /\ rs = <<>> /\ dm # "auth"
    BY DEF Seam, Owed
  <2> QED
    BY <2>1, NoneYet DEF Talking, Live
<1> QED
  BY <1>2, <1>3, <1>4 DEF Seam

LEMMA SeamDial ==
  ASSUME TypeOK, Seam, Dial
  PROVE  Seam'
<1>1. dm = "away" /\ rq = <<>> /\ rs = <<>>
  BY DEF Dial, Seam, Undialled
<1>2. CASE dm' = "handshake"
  <2>1. rq' = <<"Hello">> /\ th' = "hello" /\ rs' = <<>>
    BY <1>1, <1>2 DEF Dial
  <2>2. Undialled' /\ Owed'
    BY <1>2, <2>1 DEF Undialled, Owed, Live, Unread, Waiting
  <2>3. Talking'
    BY <1>2, <2>1, NoneYet DEF Talking, Live
  <2> QED
    BY <2>2, <2>3 DEF Seam
<1>3. CASE dm' = dm
  <2>1. th' = "returned" /\ rq' = <<>> /\ rs' = <<>>
    BY <1>1, <1>3 DEF Dial, socket
  <2> QED
    BY <1>1, <1>3, <2>1 DEF Seam, Undialled, Owed, Talking, Live
<1> QED
  BY <1>1, <1>2, <1>3 DEF Dial

LEMMA SeamShakeHands ==
  ASSUME TypeOK, Seam, Live, ShakeHands
  PROVE  Seam'
<1>1. th = "hello" /\ th \in Waiting /\ UNCHANGED <<dm, fault>>
  BY DEF ShakeHands, InThread, daemon, Waiting
<1>2. rs # <<>> => rq = <<>> /\ Head(rs) # "Notice"
  BY <1>1, Hearing
<1>3. CASE th' = "list"
  <2>1. rs # <<>> /\ rs' = Tail(rs) /\ rq' = Append(rq, "ListSessions")
    BY <1>1, <1>3 DEF ShakeHands
  <2>2. rq = <<>> /\ rs' = <<>> /\ dm # "auth"
    BY <1>1, <1>2, <2>1, Hearing
  <2>3. rq' = <<"ListSessions">>
    BY <2>1, <2>2
  <2>4. Undialled' /\ Owed'
    BY <1>1, <1>3, <2>2, <2>3
       DEF Undialled, Owed, Live, Unread, Waiting
  <2>5. Talking'
    BY <1>1, <2>2, <2>3, NoneYet DEF Talking, Live
  <2> QED
    BY <2>4, <2>5 DEF Seam
<1>4. CASE th' # "list"
  <2>1. /\ rs # <<>> /\ rs' = Tail(rs) /\ UNCHANGED rq
        /\ th' \in {"idle", "returned"}
    BY <1>4 DEF ShakeHands, HearsBut, Hears, DaemonGone, Live
  <2> QED
    BY <1>1, <1>2, <2>1, HeardOut
<1> QED
  BY <1>3, <1>4

LEMMA SeamObey ==
  ASSUME TypeOK, Seam, Live, Obey
  PROVE  Seam'
<1>1. th = "idle" /\ th \notin Waiting /\ UNCHANGED <<dm, fault>> /\ dm # "over"
  BY DEF Obey, InThread, daemon, Waiting, Live
<1>2. \E r \in Requests : /\ rq' = Append(rq, r) /\ UNCHANGED rs
                          /\ th' \in Waiting
                          /\ r \in {"AuthReply", "BeginAuth"} => th' = "recv"
  BY <1>1 DEF Obey, Asks, Requests, Waiting
<1> QED
  BY <1>1, <1>2, AskedOne

\* The reads that end where the thread rests.
LEMMA SeamHears ==
  ASSUME TypeOK, Seam, Live,
         ReadSessions \/ HearStart \/ HearPower \/ PassPrompt \/ PassVerdict
  PROVE  Seam'
<1>1. th \in Waiting /\ UNCHANGED <<dm, fault>> /\ th' \in {"idle", "await"}
  BY DEF ReadSessions, HearStart, HearPower, PassPrompt, PassVerdict, InThread,
     daemon, Waiting
<1>2. /\ rs # <<>> /\ rs' = Tail(rs) /\ UNCHANGED rq
      /\ th = "recv" => Head(rs) # "Notice"
  <2>1. CASE ReadSessions
    BY <2>1 DEF ReadSessions, Hears, HearsBut, DaemonGone, Live
  <2>2. CASE HearStart
    BY <2>2 DEF HearStart, Hears, HearsBut, DaemonGone, Live
  <2>3. CASE HearPower
    BY <2>3 DEF HearPower, Hears, HearsBut, DaemonGone, Live
  <2>4. CASE PassPrompt
    BY <2>4 DEF PassPrompt, Hears
  <2>5. CASE PassVerdict
    BY <2>5 DEF PassVerdict, Hears, HearsBut, DaemonGone, Live, Steps
  <2> QED
    BY <2>1, <2>2, <2>3, <2>4, <2>5
<1>3. Head(rs) # "Notice"
  BY <1>1, <1>2, Hearing
<1> QED
  BY <1>1, <1>2, <1>3, HeardOut

LEMMA SeamPassNotice ==
  ASSUME TypeOK, Seam, Live, PassNotice
  PROVE  Seam'
<1>1. /\ th = "recv" /\ th \in Waiting /\ th' = "recv"
      /\ UNCHANGED <<dm, fault>>
      /\ rs # <<>> /\ Head(rs) = "Notice" /\ rs' = Tail(rs) /\ UNCHANGED rq
  BY DEF PassNotice, InThread, daemon, Waiting, Hears
<1>2. rq = <<>> /\ rs \in Seq(Responses)
  BY <1>1, Hearing DEF TypeOK
<1>3. AtWork \/ Answered
  BY <1>1 DEF Seam, Owed, Unread
<1>4. AtWork => AtWork'
  BY <1>1, <1>2, HeardNotice DEF AtWork
<1>5. Answered => Answered'
  BY <1>1, <1>2, HeardNotice DEF Answered, Final
<1>6. Owed' /\ Undialled'
  BY <1>1, <1>3, <1>4, <1>5 DEF Owed, Undialled, Live, Waiting
<1>7. Talking'
  BY <1>1 DEF Talking, Live, Seam
<1> QED
  BY <1>6, <1>7 DEF Seam

LEMMA SeamThread ==
  ASSUME TypeOK, Seam, ThreadStep
  PROVE  Seam'
<1>1. CASE dm = "away"
  <2>1. th \in {"connect", "returned"}
    BY <1>1 DEF Seam, Undialled
  <2>2. Dial
    BY <2>1 DEF ThreadStep, ShakeHands, ReadSessions, Obey, DropStrayReply,
       HearStart, HearPower, PassPrompt, PassNotice, PassVerdict, PassReply,
       DropConversation
  <2> QED
    BY <2>2, SeamDial
<1>2. CASE dm \in {"owns", "over"}
  BY <1>2, ThreadMoves, SeamOver DEF Waiting
<1>3. CASE Live
  <2>1. ~Dial
    BY <1>3 DEF Dial, Seam, Undialled, Live
  <2>2. CASE DropStrayReply
    BY <2>2, SeamStill DEF DropStrayReply, InThread, socket, daemon
  <2>3. CASE PassReply
    <3>1. /\ th = "await" /\ th \notin Waiting /\ UNCHANGED <<dm, fault>>
          /\ rq' = Append(rq, "AuthReply") /\ UNCHANGED rs /\ th' = "recv"
      BY <1>3, <2>3 DEF PassReply, InThread, daemon, Waiting, Asks, Live
    <3>2. "AuthReply" \in Requests /\ th' \in Waiting
      BY <3>1 DEF Requests, Waiting
    <3> QED
      BY <1>3, <3>1, <3>2, AskedOne
  <2>4. CASE DropConversation
    <3>1. /\ th \notin Waiting /\ th' = "idle"
          /\ UNCHANGED <<rq, rs, dm, fault>>
      BY <2>4 DEF DropConversation, InThread, daemon, socket, Waiting
    <3> QED
      BY <1>3, <3>1, Resting DEF Live
  <2> QED
    BY <1>3, <2>1, <2>2, <2>3, <2>4, SeamShakeHands, SeamObey, SeamHears,
       SeamPassNotice DEF ThreadStep
<1> QED
  BY <1>1, <1>2, <1>3 DEF Live

\* The daemon reads the one request of a thread that waits.
LEMMA Reading ==
  ASSUME TypeOK, Seam, Live, rq # <<>>
  PROVE  /\ th \in Waiting /\ rs = <<>> /\ Tail(rq) = <<>>
         /\ rq = <<Head(rq)>> /\ dm # "auth"
<1>1. rq \in Seq(Requests)
  BY DEF TypeOK
<1>2. th \in Waiting /\ Unread
  BY DEF Seam, Owed, AtWork, Answered
<1> QED
  BY <1>1, <1>2, Single DEF Unread

\* It answers, when nothing but messages one-way is on the socket.
LEMMA AnsweredNow ==
  ASSUME TypeOK, Seam, Live, th \in Waiting, Notices(rs), NEW r \in Responses,
         r # "Notice", rs' = Append(rs, r), rq' = <<>>, UNCHANGED th,
         dm' \in {"idle", "prompt"}
  PROVE  Seam'
<1>1. rs \in Seq(Responses)
  BY DEF TypeOK
<1>2. Final(rs') /\ (rs = <<>> => ~Noticed(rs'))
  BY <1>1, Finished
<1>3. rs # <<>> => th = "recv"
  <2>1. rs # <<>> => Noticed(rs)
    BY <1>1, HeadNoticed, HeardLast
  <2> QED
    BY <2>1 DEF Seam, Talking
<1>4. Undialled' /\ Owed'
  BY <1>2 DEF Undialled, Owed, Live, Waiting, Answered, Final
<1>5. Talking'
  BY <1>2, <1>3 DEF Talking, Live
<1> QED
  BY <1>4, <1>5 DEF Seam

LEMMA SeamDaemon ==
  ASSUME TypeOK, Seam, DaemonStep \/ PamStep \/ Ends
  PROVE  Seam'
<1>1. UNCHANGED th /\ dm # "away"
  BY DEF DaemonStep, PamStep, Handshake, Dispatch, BeginAuth, ReadReply,
     StartSession, AskUser, Notify, Concludes, Ends, InDaemon
<1>2. th # "connect"
  BY <1>1 DEF Seam, Undialled
<1>3. CASE dm' \in {"owns", "over"}
  BY <1>1, <1>2, <1>3, SeamOver
<1>4. CASE Handshake /\ dm' # "over"
  <2>1. /\ Live /\ rq # <<>> /\ rq' = Tail(rq) /\ dm' = "idle"
        /\ rs' = Append(rs, "Welcome")
    BY <1>4 DEF Handshake, Reads, Answers, Live
  <2>2. th \in Waiting /\ rs = <<>> /\ rq' = <<>>
    BY <2>1, Reading
  <2>3. "Welcome" \in Responses /\ Notices(rs)
    BY <2>2, NoneYet DEF Responses
  <2> QED
    BY <1>1, <2>1, <2>2, <2>3, AnsweredNow
<1>5. CASE Dispatch
  <2>1. /\ Live /\ rq # <<>> /\ rq' = Tail(rq) /\ dm' = "idle"
        /\ \E r \in {"Sessions", "NoSessions", "Error"} : rs' = Append(rs, r)
    BY <1>5 DEF Dispatch, Reads, Answers, Live
  <2>2. th \in Waiting /\ rs = <<>> /\ rq' = <<>>
    BY <2>1, Reading
  <2>3. Notices(rs) /\ {"Sessions", "NoSessions", "Error"} \subseteq Responses
    BY <2>2, NoneYet DEF Responses
  <2>4. \E r \in Responses : r # "Notice" /\ rs' = Append(rs, r)
    BY <2>1, <2>3
  <2> QED
    BY <1>1, <2>1, <2>2, <2>3, <2>4, AnsweredNow
<1>6. CASE BeginAuth \/ ReadReply
  <2>1. /\ Live /\ rq # <<>> /\ rq' = Tail(rq) /\ dm' = "auth" /\ UNCHANGED rs
        /\ ~fault' => Head(rq) \in {"AuthReply", "BeginAuth"}
        /\ fault' \in BOOLEAN
    BY <1>6 DEF BeginAuth, ReadReply, Reads, Live
  <2>2. th \in Waiting /\ rs' = <<>> /\ rq' = <<>> /\ rq = <<Head(rq)>>
    BY <2>1, Reading
  <2>3. ~fault' => th = "recv"
    <3>1. ASSUME Head(rq) \in {"AuthReply", "BeginAuth"}
          PROVE  rq \in {<<"AuthReply">>, <<"BeginAuth">>}
      BY <2>2, <3>1
    <3> QED
      BY <2>1, <3>1 DEF Seam, Talking
  <2>4. Undialled' /\ Owed'
    BY <1>1, <1>2, <2>1, <2>2, NoneYet
       DEF Undialled, Owed, Live, Waiting, AtWork
  <2>5. Talking'
    BY <1>1, <2>1, <2>2, <2>3, NoneYet DEF Talking, Live
  <2> QED
    BY <2>4, <2>5 DEF Seam
<1>7. CASE PamStep
  <2>1. Live /\ dm = "auth"
    BY <1>7 DEF PamStep, AskUser, Notify, Concludes, Live
  <2>2. th \in Waiting /\ rq = <<>> /\ Notices(rs)
    BY <2>1 DEF Seam, Owed, Unread, AtWork, Answered
  <2>3. IF fault THEN rs = <<>> ELSE th = "recv"
    BY <2>1 DEF Seam, Talking
  <2>4. CASE AskUser
    <3>1. /\ rs' = Append(rs, "Question") /\ dm' = "prompt" /\ rq' = <<>>
          /\ "Question" \in Responses
      BY <2>2, <2>4 DEF AskUser, Answers, Responses
    <3> QED
      BY <1>1, <2>1, <2>2, <3>1, AnsweredNow
  <2>5. CASE Concludes
    <3>1. /\ rq' = <<>> /\ dm' = "idle"
          /\ \E r \in {"AuthSuccess", "AuthFailure"} : rs' = Append(rs, r)
      BY <2>2, <2>5 DEF Concludes, Answers
    <3>2. {"AuthSuccess", "AuthFailure"} \subseteq Responses
      BY DEF Responses
    <3>3. \E r \in Responses : r # "Notice" /\ rs' = Append(rs, r)
      BY <3>1, <3>2
    <3> QED
      BY <1>1, <2>1, <2>2, <3>1, <3>3, AnsweredNow
  <2>6. CASE Notify
    <3>1. /\ rs' = Append(rs, "Notice") /\ rq' = <<>> /\ dm' = "auth"
          /\ th' = "recv" /\ ~fault'
      BY <1>1, <2>2, <2>3, <2>6 DEF Notify, Answers
    <3>2. Notices(rs')
      BY <2>2, <3>1, NoticeMore DEF TypeOK
    <3>3. Undialled' /\ Owed'
      BY <3>1, <3>2 DEF Undialled, Owed, Live, Waiting, AtWork
    <3>4. Talking'
      BY <3>1 DEF Talking
    <3> QED
      BY <3>3, <3>4 DEF Seam
  <2> QED
    BY <1>7, <2>4, <2>5, <2>6 DEF PamStep
<1> QED
  BY <1>3, <1>4, <1>5, <1>6, <1>7 DEF DaemonStep, StartSession, Ends

\* Every step keeps the seam.
LEMMA SeamNext == TypeOK /\ Seam /\ [Next]_vars => Seam'
<1> SUFFICES ASSUME TypeOK, Seam, [Next]_vars PROVE Seam'
  OBVIOUS
<1>1. CASE UNCHANGED vars
  BY <1>1, SeamStill DEF vars, socket, daemon
<1>2. CASE UiStep \/ UserStep
  BY <1>2, UiTyped, SeamStill
<1>3. CASE HandOver
  BY <1>3, SeamStill DEF HandOver, socket, daemon
<1> QED
  BY <1>1, <1>2, <1>3, SeamThread, SeamDaemon DEF Next

-----------------------------------------------------------------------------
(* Prompts.                                                                *)

\* The daemon waits in the prompt whose question the thread has yet to read,
\* whose answer it waits for, or whose answer it has sent.
Asked(q) == Has(q, "Question")

LEMMA NothingAsked == ~Asked(<<>>)
BY DEF Asked, Has

Prompted ==
  Live /\ (th = "await" \/ rq = <<"AuthReply">> \/ Asked(rs)) => dm = "prompt"

\* Of the thread's steps one waits for the user, and it has read a question;
\* one sends a reply, and it has waited for it.
LEMMA PromptedThread ==
  ASSUME TypeOK, Seam, Prompted, ThreadStep
  PROVE  Prompted'
<1>0. rs \in Seq(Responses)
  BY DEF TypeOK
<1>1. CASE Dial
  BY <1>1, NothingAsked DEF Dial, Seam, Undialled, Prompted, Live, socket
<1>2. CASE DropStrayReply \/ DropConversation
  BY <1>2 DEF DropStrayReply, DropConversation, InThread, socket, daemon,
     Prompted, Live
<1>3. CASE Obey
  <2>1. th = "idle" /\ UNCHANGED <<dm, rs>> /\ th' # "await"
        /\ \/ \E r \in {"BeginAuth", "Start", "Power"} : rq' = Append(rq, r)
           \/ dm = "over"
    BY <1>3 DEF Obey, InThread, daemon, Asks, socket
  <2>2. Live => rq = <<>>
    BY <2>1 DEF Seam, Owed, Waiting
  <2>3. Live => rq' # <<"AuthReply">>
    BY <2>1, <2>2 DEF Live
  <2> QED
    BY <2>1, <2>3 DEF Prompted, Live
<1>4. CASE PassReply
  <2>1. th = "await" /\ UNCHANGED <<dm, rs>>
    BY <1>4 DEF PassReply, InThread, daemon, Asks, socket
  <2> QED
    BY <2>1 DEF Prompted, Live
<1>5. CASE ShakeHands
  <2>1. /\ UNCHANGED dm /\ th' # "await"
        /\ dm # "over" => rs # <<>> /\ rs' = Tail(rs)
        /\ rq' = rq \/ rq' = Append(rq, "ListSessions")
    BY <1>5 DEF ShakeHands, InThread, daemon, Hears, HearsBut, DaemonGone,
       socket
  <2>2. Live /\ rs # <<>> => rq = <<>>
    BY <1>5, Hearing DEF ShakeHands, Waiting
  <2>3. Live => rq' # <<"AuthReply">> \/ rq' = rq
    BY <2>1, <2>2 DEF Live
  <2> QED
    BY <1>0, <2>1, <2>3, HasLess DEF Asked, Prompted, Live
<1>6. CASE ReadSessions \/ HearStart \/ HearPower \/ PassNotice \/ PassVerdict
  <2>1. UNCHANGED <<dm, rq>> /\ th' # "await"
    BY <1>6 DEF ReadSessions, HearStart, HearPower, PassNotice, PassVerdict,
       InThread, daemon, Hears, HearsBut, DaemonGone, socket
  <2>2. dm # "over" => rs # <<>> /\ rs' = Tail(rs)
    BY <1>6 DEF ReadSessions, HearStart, HearPower, PassNotice, PassVerdict,
       Hears, HearsBut, DaemonGone
  <2> QED
    BY <1>0, <2>1, <2>2, HasLess DEF Asked, Prompted, Live
<1>7. CASE PassPrompt
  <2>1. UNCHANGED <<dm, rq>> /\ rs # <<>> /\ Head(rs) = "Question"
    BY <1>7 DEF PassPrompt, InThread, daemon, Hears
  <2> QED
    BY <1>0, <2>1, HasLess DEF Asked, Prompted, Live
<1> QED
  BY <1>1, <1>2, <1>3, <1>4, <1>5, <1>6, <1>7 DEF ThreadStep

\* The daemon leaves a prompt only for the request that is in it, which a
\* thread sends that waits for its response and not for the user.
LEMMA PromptedDaemon ==
  ASSUME TypeOK, Seam, Prompted, DaemonStep \/ PamStep \/ Ends
  PROVE  Prompted'
<1>0. rs \in Seq(Responses) /\ UNCHANGED th
  BY DEF TypeOK, DaemonStep, PamStep, Handshake, Dispatch, BeginAuth, ReadReply,
     StartSession, AskUser, Notify, Concludes, Ends, InDaemon
<1>1. CASE dm' \in {"owns", "over", "prompt"}
  BY <1>1 DEF Prompted, Live
<1>2. CASE (Handshake \/ Dispatch) /\ dm' # "over"
  <2>1. /\ Live /\ dm # "prompt" /\ rq # <<>> /\ rq' = Tail(rq)
        /\ \E r \in {"Welcome", "Sessions", "NoSessions", "Error"} :
             rs' = Append(rs, r)
    BY <1>2 DEF Handshake, Dispatch, Reads, Answers, Live
  <2>2. rq' = <<>> /\ th # "await"
    BY <2>1, Reading DEF Waiting
  <2>3. Asked(rs') => Asked(rs)
    BY <1>0, <2>1, HasMore DEF Asked, Responses
  <2> QED
    BY <1>0, <2>1, <2>2, <2>3 DEF Prompted
<1>3. CASE BeginAuth \/ ReadReply
  <2>1. Live /\ rq # <<>> /\ rq' = Tail(rq) /\ UNCHANGED rs
    BY <1>3 DEF BeginAuth, ReadReply, Reads, Live
  <2>2. th # "await" /\ rs = <<>> /\ rq' = <<>>
    BY <2>1, Reading DEF Waiting
  <2> QED
    BY <1>0, <2>1, <2>2, NothingAsked DEF Prompted
<1>4. CASE Notify \/ Concludes
  <2>1. /\ Live /\ dm = "auth" /\ UNCHANGED rq
        /\ \E r \in {"Notice", "AuthSuccess", "AuthFailure"} :
             rs' = Append(rs, r)
    BY <1>4 DEF Notify, Concludes, Answers, Live
  <2>2. Asked(rs') => Asked(rs)
    BY <1>0, <2>1, HasMore DEF Asked, Responses
  <2> QED
    BY <1>0, <2>1, <2>2 DEF Prompted
<1> QED
  BY <1>1, <1>2, <1>3, <1>4
     DEF DaemonStep, PamStep, StartSession, AskUser, Ends

LEMMA PromptedNext == TypeOK /\ Seam /\ Prompted /\ [Next]_vars => Prompted'
<1> SUFFICES ASSUME TypeOK, Seam, Prompted, [Next]_vars PROVE Prompted'
  OBVIOUS
<1>1. CASE UNCHANGED <<th, socket, dm>>
  BY <1>1 DEF Prompted, Live, socket
<1>2. UiStep \/ UserStep \/ HandOver \/ UNCHANGED vars
        => UNCHANGED <<th, socket, dm>>
  BY UiTyped DEF HandOver, vars, daemon, socket
<1> QED
  BY <1>1, <1>2, PromptedThread, PromptedDaemon DEF Next

LEMMA SeamSays == Seam /\ Prompted => SeamInStep
BY DEF Seam, Owed, Prompted, Live, SeamInStep

\* For every number of queued commands, of one-way messages and of messages
\* to the UI: while the connection lasts, a thread that waits is owed exactly
\* one response and one that does not is owed none, so a read never takes the
\* answer to another call, whatever conversation was dropped before it; and a
\* reply meets a daemon that waits for it.
THEOREM SeamStaysInStep == Spec => []SeamInStep
<1>1. Init => TypeOK /\ Seam /\ Prompted
  BY TypeInit, SeamInit DEF Init, Prompted, Live
<1>2. /\ TypeOK /\ Seam /\ Prompted /\ [Next]_vars
      => TypeOK' /\ Seam' /\ Prompted'
  BY TypeNext, SeamNext, PromptedNext
<1> QED
  BY <1>1, <1>2, SeamSays, PTL DEF Spec

-----------------------------------------------------------------------------
(* The order to start a session.                                           *)

\* A success, or the order that follows it, is under way only for a user.
Bound ==
  (\/ Has(rs, "AuthSuccess") \/ Has(inbound, "AuthSucceeded")
   \/ Has(commands, "Start") \/ Has(rq, "Start"))
    => user

LEMMA NothingThere == \A x : ~Has(<<>>, x)
BY DEF Has

\* The UI orders a session when it takes a success.
LEMMA BoundUi ==
  ASSUME TypeOK, Bound, UiStep \/ UserStep
  PROVE  Bound'
<1>0. inbound \in Seq(Messages) /\ commands \in Seq(Commands)
  BY DEF TypeOK
<1>1. UNCHANGED <<rq, rs, user>>
  BY UiTyped
<1>2. Has(inbound', "AuthSucceeded") => Has(inbound, "AuthSucceeded")
  <2>1. inbound' = inbound \/ (inbound # <<>> /\ inbound' = Tail(inbound))
    BY DEF UiStep, UserStep, Takes, TakeWorkerReady, TakeSessions, TakePrompt,
       TakeNotice, TakeSuccess, TakeFailure, TakeFatal, TakeStarted,
       EditPassword, PressLogin, SubmitPrompt, PressPower, links
  <2> QED
    BY <1>0, <2>1, HasLess
<1>3. CASE TakeSuccess
  <2>1. Has(inbound, "AuthSucceeded")
    BY <1>0, <1>3, HasLess DEF TakeSuccess, Takes
  <2> QED
    BY <1>1, <2>1 DEF Bound
<1>4. CASE ~TakeSuccess
  <2>1. \/ commands' = commands
        \/ \E c \in Commands \ {"Start"} : commands' = Append(commands, c)
    BY <1>4 DEF UiStep, UserStep, Sends, TakeWorkerReady, TakeSessions,
       TakePrompt, TakeNotice, TakeFailure, TakeFatal, TakeStarted,
       EditPassword, PressLogin, SubmitPrompt, PressPower, links, Commands
  <2>2. Has(commands', "Start") => Has(commands, "Start")
    BY <1>0, <2>1, HasMore
  <2> QED
    BY <1>1, <1>2, <2>2 DEF Bound
<1> QED
  BY <1>3, <1>4

\* The thread passes on the success it hears, and the order it is given.
LEMMA BoundThread ==
  ASSUME TypeOK, Bound, ThreadStep \/ HandOver
  PROVE  Bound'
<1>0. /\ inbound \in Seq(Messages) /\ commands \in Seq(Commands)
      /\ rq \in Seq(Requests) /\ rs \in Seq(Responses)
  BY DEF TypeOK
<1>1. UNCHANGED user
  BY DEF ThreadStep, HandOver, Dial, ShakeHands, ReadSessions, Obey,
     DropStrayReply, HearStart, HearPower, PassPrompt, PassNotice, PassVerdict,
     PassReply, DropConversation, InThread, daemon
<1>2. Has(rs', "AuthSuccess") => Has(rs, "AuthSuccess")
  <2>1. rs' = rs \/ (rs # <<>> /\ rs' = Tail(rs))
    BY DEF ThreadStep, HandOver, Dial, ShakeHands, ReadSessions, Obey,
       DropStrayReply, HearStart, HearPower, PassPrompt, PassNotice,
       PassVerdict, PassReply, DropConversation, Asks, Hears, HearsBut,
       DaemonGone, socket
  <2> QED
    BY <1>0, <2>1, HasLess
<1>3. Has(commands', "Start") => Has(commands, "Start")
  <2>1. commands' = commands \/ (commands # <<>> /\ commands' = Tail(commands))
    BY DEF ThreadStep, HandOver, Dial, ShakeHands, ReadSessions, Obey,
       DropStrayReply, HearStart, HearPower, PassPrompt, PassNotice,
       PassVerdict, PassReply, DropConversation, Ordered
  <2> QED
    BY <1>0, <2>1, HasLess
<1>4. Has(inbound', "AuthSucceeded")
        => Has(inbound, "AuthSucceeded") \/ Has(rs, "AuthSuccess")
  <2>1. CASE PassVerdict
    <3>1. \/ rs # <<>> /\ Head(rs) = "AuthSuccess"
          \/ \E m \in {"AuthFailed", "Fatal"} : inbound' = Append(inbound, m)
      BY <2>1 DEF PassVerdict, Emit, Hears
    <3>2. {"AuthFailed", "Fatal"} \subseteq Messages
      BY DEF Messages, Verdicts
    <3>3. \A m \in {"AuthFailed", "Fatal"} :
            inbound' = Append(inbound, m) /\ Has(inbound', "AuthSucceeded")
              => Has(inbound, "AuthSucceeded")
      BY <1>0, <3>2, HasMore
    <3> QED
      BY <1>0, <3>1, <3>3, HasLess
  <2>2. CASE ~PassVerdict
    <3>1. \/ inbound' = inbound
          \/ \E m \in Messages \ {"AuthSucceeded"} :
               inbound' = Append(inbound, m)
      BY <2>2 DEF ThreadStep, HandOver, Dial, ShakeHands, ReadSessions, Obey,
         DropStrayReply, HearStart, HearPower, PassPrompt, PassNotice,
         PassReply, DropConversation, Emit, Messages, Verdicts
    <3> QED
      BY <1>0, <3>1, HasMore
  <2> QED
    BY <2>1, <2>2
<1>5. Has(rq', "Start") => Has(rq, "Start") \/ Has(commands, "Start")
  <2>1. CASE Obey
    <3>1. \/ commands # <<>> /\ Head(commands) = "Start"
          \/ rq' = rq
          \/ \E r \in {"BeginAuth", "Power"} : rq' = Append(rq, r)
      BY <2>1 DEF Obey, Ordered, Asks, socket
    <3>2. {"BeginAuth", "Power"} \subseteq Requests
      BY DEF Requests
    <3>3. \A r \in {"BeginAuth", "Power"} :
            rq' = Append(rq, r) /\ Has(rq', "Start") => Has(rq, "Start")
      BY <1>0, <3>2, HasMore
    <3> QED
      BY <1>0, <3>1, <3>3, HasLess
  <2>2. CASE Dial
    <3>1. rq' = rq \/ rq' = <<"Hello">>
      BY <2>2 DEF Dial, socket
    <3>2. ~Has(<<"Hello">>, "Start")
      BY DEF Has
    <3> QED
      BY <3>1, <3>2
  <2>3. CASE ~(Obey \/ Dial)
    <3>1. \/ rq' = rq
          \/ \E r \in {"ListSessions", "AuthReply"} : rq' = Append(rq, r)
      BY <2>3 DEF ThreadStep, HandOver, ShakeHands, ReadSessions,
         DropStrayReply, HearStart, HearPower, PassPrompt, PassNotice,
         PassVerdict, PassReply, DropConversation, Asks, Hears, HearsBut,
         DaemonGone, socket
    <3>2. {"ListSessions", "AuthReply"} \subseteq Requests
      BY DEF Requests
    <3>3. \A r \in {"ListSessions", "AuthReply"} :
            rq' = Append(rq, r) /\ Has(rq', "Start") => Has(rq, "Start")
      BY <1>0, <3>2, HasMore
    <3> QED
      BY <3>1, <3>3
  <2> QED
    BY <2>1, <2>2, <2>3
<1> QED
  BY <1>1, <1>2, <1>3, <1>4, <1>5 DEF Bound

\* The daemon answers with a success when it has bound the user, and never
\* unbinds one.
LEMMA BoundDaemon ==
  ASSUME TypeOK, Bound, DaemonStep \/ PamStep \/ Ends
  PROVE  Bound'
<1>0. rq \in Seq(Requests) /\ rs \in Seq(Responses)
  BY DEF TypeOK
<1>1. UNCHANGED <<commands, inbound>> /\ (user => user')
  BY DEF DaemonStep, PamStep, Handshake, Dispatch, BeginAuth, ReadReply,
     StartSession, AskUser, Notify, Concludes, Ends, InDaemon, links
<1>2. Has(rq', "Start") => Has(rq, "Start")
  <2>1. rq' = rq \/ (rq # <<>> /\ rq' = Tail(rq))
    BY DEF DaemonStep, PamStep, Handshake, Dispatch, BeginAuth, ReadReply,
       StartSession, AskUser, Notify, Concludes, Ends, Reads, socket
  <2> QED
    BY <1>0, <2>1, HasLess
<1>3. Has(rs', "AuthSuccess") => Has(rs, "AuthSuccess") \/ user'
  <2>1. \/ user' \/ rs' = rs
        \/ \E r \in Responses \ {"AuthSuccess"} : rs' = Append(rs, r)
    BY DEF DaemonStep, PamStep, Handshake, Dispatch, BeginAuth, ReadReply,
       StartSession, AskUser, Notify, Concludes, Ends, Answers, Responses,
       socket
  <2> QED
    BY <1>0, <2>1, HasMore
<1> QED
  BY <1>1, <1>2, <1>3 DEF Bound

LEMMA BoundNext == TypeOK /\ Bound /\ [Next]_vars => Bound'
<1>1. UNCHANGED vars => (Bound => Bound')
  BY DEF vars, Bound, links, socket, daemon
<1> QED
  BY <1>1, BoundUi, BoundThread, BoundDaemon DEF Next

\* Whatever is queued, dropped and answered late: a request to start a session
\* reaches the daemon only after PAM accepted a user on its connection, so
\* door-greeter never runs into the session gate (ipc.rs:1096-1106).
THEOREM StartsAreBound == Spec => []StartsBound
<1>1. Init => TypeOK /\ Bound
  BY TypeInit, NothingThere DEF Init, Bound
<1>2. TypeOK /\ Bound /\ [Next]_vars => TypeOK' /\ Bound'
  BY TypeNext, BoundNext
<1>3. Bound => StartsBound
  BY DEF Bound, StartsBound, Has
<1> QED
  BY <1>1, <1>2, <1>3, PTL DEF Spec
=============================================================================
