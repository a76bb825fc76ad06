---------------------------- MODULE SpawnerProofs ----------------------------
(***************************************************************************)
(* Proofs about Spawner, for every number of requests: the types, and that *)
(* a request is answered with a worker no other request was answered with, *)
(* its own as long as no read was cut short; and that the daemon does not  *)
(* wait for an answer that nobody is about to give.                        *)
(***************************************************************************)
EXTENDS Spawner, SequenceTheorems, TLAPS

-----------------------------------------------------------------------------
(* Sequences.                                                              *)

LEMMA Rest ==
  ASSUME NEW S, NEW s \in Seq(S), s # <<>>
  PROVE  /\ Tail(s) \in Seq(S) /\ Head(s) \in S /\ Head(s) = s[1]
         /\ Len(s) \in Nat /\ Len(s) >= 1 /\ Len(Tail(s)) = Len(s) - 1
         /\ \A i \in 1..(Len(s) - 1) : Tail(s)[i] = s[i + 1]
         /\ Len(s) = 1 => Tail(s) = <<>>
<1>1. /\ Tail(s) \in Seq(S) /\ Head(s) \in S /\ Head(s) = s[1]
      /\ Len(s) \in Nat /\ Len(s) >= 1 /\ Len(Tail(s)) = Len(s) - 1
      /\ \A i \in 1..(Len(s) - 1) : Tail(s)[i] = s[i + 1]
  BY HeadTailProperties, EmptySeq
<1>2. ASSUME Len(s) = 1 PROVE Tail(s) = <<>>
  <2>1. Tail(s) \in Seq(S) /\ Len(Tail(s)) = 0
    BY <1>1, <1>2
  <2> QED
    BY <2>1, EmptySeq
<1> QED
  BY <1>1, <1>2

LEMMA More ==
  ASSUME NEW S, NEW s \in Seq(S), NEW e \in S
  PROVE  /\ Append(s, e) \in Seq(S)
         /\ Len(s) \in Nat /\ Len(Append(s, e)) = Len(s) + 1
         /\ \A i \in 1..Len(s) : Append(s, e)[i] = s[i]
         /\ Append(s, e)[Len(s) + 1] = e
BY AppendProperties, LenProperties

LEMMA Short ==
  ASSUME NEW x, NEW y
  PROVE  /\ Tail(<<x>>) = <<>> /\ Head(<<x>>) = x /\ <<x>> # <<>>
         /\ Append(<<x>>, y) = <<x, y>>
<1>1. <<x>> \in Seq({x}) /\ Len(<<x>>) = 1 /\ <<x>> # <<>> /\ Head(<<x>>) = x
  OBVIOUS
<1>2. Tail(<<x>>) = <<>>
  BY <1>1, Rest
<1>3. Append(<<x>>, y) = <<x, y>>
  <2> DEFINE s == Append(<<x>>, y)
  <2> DEFINE t == <<x, y>>
  <2>1. s \in Seq({x, y}) /\ Len(s) = 2 /\ s[1] = x /\ s[2] = y
    <3>1. <<x>> \in Seq({x, y})
      OBVIOUS
    <3> QED
      BY <1>1, <3>1, AppendProperties
  <2>2. t \in Seq({x, y}) /\ Len(t) = 2 /\ t[1] = x /\ t[2] = y
    OBVIOUS
  <2> HIDE DEF s, t
  <2>3. Len(s) = Len(t) /\ \A i \in 1..Len(s) : s[i] = t[i]
    BY <2>1, <2>2
  <2>4. s = t
    BY <2>1, <2>2, <2>3, SeqEqual
  <2> QED
    BY <2>4 DEF s, t
<1> QED
  BY <1>1, <1>2, <1>3

-----------------------------------------------------------------------------
(* The invariant.                                                          *)

\* The requests the spawner has taken.
Taken == Len(asked) - Len(rq)

\* Requests are taken in the order of their numbers, and only a spawner of
\* reauthentications, which makes workers only, has reads cut short.
Numbered ==
  /\ role = "login" => slips = 0
  /\ role = "reauth" => \A i \in 1..Len(asked) : asked[i] = "worker"
  /\ Len(rq) <= Len(asked) /\ \A i \in 1..Len(rq) : rq[i] = Taken + i
  /\ sp \in Serving => due \in Requests /\ due = Taken
  /\ dm \in Waiting => Len(asked) >= 1

\* A descriptor on the stream or delivered is that of a request that was
\* taken, and of one before the request that is being served.
Before(w) == w <= Taken /\ (sp \in Serving => w < Taken)
FdsBefore == \A i \in 1..Len(rs) : rs[i].k = "fd" => Before(rs[i].w)
GotBefore ==
  \A r \in Requests : got[r] # 0 =>
    r <= Len(asked) /\ got[r] <= r /\ Before(got[r])

\* It is in one place.
FdsApart ==
  \A i, j \in 1..Len(rs) :
    rs[i].k = "fd" /\ rs[j].k = "fd" /\ rs[i].w = rs[j].w => i = j
GotApart == \A q, r \in Requests : got[q] = got[r] /\ got[q] # 0 => q = r
FdsNotGot ==
  \A r \in Requests : \A i \in 1..Len(rs) :
    rs[i].k = "fd" /\ got[r] # 0 => rs[i].w # got[r]

Spare == FdsBefore /\ GotBefore /\ FdsApart /\ GotApart /\ FdsNotGot

Started(n) == [k |-> "started", w |-> n]
Fd(n)      == [k |-> "fd", w |-> n]
Error(n)   == [k |-> "error", w |-> n]

\* As long as no read was cut short the stream holds what is left of one
\* answer, the one the daemon waits for.
Fresh ==
  \/ rs = <<>> /\ Len(rq) = 1 /\ sp \notin Serving
  \/ rs = <<>> /\ rq = <<>> /\ sp \in {"spawn", "header", "gone"}
  \/ rs = <<Started(Current)>> /\ rq = <<>> /\ sp \in {"pass", "gone"}
  \/ /\ rs \in {<<Started(Current), Fd(Current)>>, <<Error(Current)>>}
     /\ rq = <<>> /\ sp \notin Serving
Halved ==
  /\ rq = <<>>
  /\ \/ rs = <<>> /\ sp \in {"pass", "gone"}
     \/ rs = <<Fd(Current)>> /\ sp \notin Serving
Clear == rs = <<>> /\ (sp # "gone" => rq = <<>> /\ sp \notin Serving)

InTurn ==
  slips = 0 => /\ dm = "idle" => Clear
               /\ dm = "tag" => Fresh
               /\ dm = "fd" => Halved
               /\ \A r \in Requests : got[r] \in {0, r}

Inv == TypeOK /\ Numbered /\ Spare /\ InTurn

LEMMA InvInit == Init => Inv
<1> SUFFICES ASSUME Init PROVE Inv
  OBVIOUS
<1>1. /\ asked = <<>> /\ rq = <<>> /\ rs = <<>> /\ Len(<<>>) = 0
      /\ asked \in Seq(Kinds) /\ rq \in Seq(Requests) /\ rs \in Seq(Items)
  BY EmptySeq DEF Init
<1>2. TypeOK
  BY <1>1, SpawnerAssumption DEF Init, TypeOK, Waiting, Serving
<1>3. Numbered
  BY <1>1 DEF Init, Numbered, Taken, Serving, Waiting
<1>4. Spare
  BY <1>1 DEF Init, Spare, FdsBefore, GotBefore, FdsApart, GotApart, FdsNotGot
<1>5. InTurn
  BY <1>1 DEF Init, InTurn, Clear, Serving
<1> QED
  BY <1>2, <1>3, <1>4, <1>5 DEF Inv

LEMMA InvPaired == Inv => AnswersPaired
<1> SUFFICES ASSUME Inv, NEW r \in 1..Len(asked), got[r] # 0
             PROVE  /\ got[r] <= r /\ asked[got[r]] = asked[r]
                    /\ slips = 0 => got[r] = r
                    /\ \A q \in 1..Len(asked) : got[q] = got[r] => q = r
  BY DEF AnswersPaired
<1>1. /\ 1..Len(asked) \subseteq Requests /\ Len(asked) \in Nat
      /\ got[r] \in Requests
  BY SpawnerAssumption DEF Inv, TypeOK, Requests, Workers
<1>2. got[r] <= r
  BY <1>1 DEF Inv, Spare, GotBefore
<1>3. slips = 0 => got[r] = r
  BY <1>1 DEF Inv, InTurn
<1>4. \A q \in 1..Len(asked) : got[q] = got[r] => q = r
  BY <1>1 DEF Inv, Spare, GotApart
<1>5. asked[got[r]] = asked[r]
  <2>1. CASE slips = 0
    BY <1>3, <2>1
  <2>2. CASE role = "reauth"
    BY <1>1, <1>2, <2>2, SpawnerAssumption DEF Inv, Numbered, Requests
  <2> QED
    BY <2>1, <2>2 DEF Inv, Numbered, TypeOK
<1> QED
  BY <1>2, <1>3, <1>4, <1>5

-----------------------------------------------------------------------------
(* Types.                                                                  *)

LEMMA LensNatural ==
  ASSUME TypeOK
  PROVE  Len(asked) \in Nat /\ Len(rq) \in Nat /\ Len(rs) \in Nat
         /\ (Len(rq) = 0 <=> rq = <<>>) /\ (Len(rs) = 0 <=> rs = <<>>)
BY LenProperties, EmptySeq DEF TypeOK

LEMMA ItemTypes ==
  ASSUME due \in Requests
  PROVE  {Started(due), Fd(due), Error(due)} \subseteq Items
BY DEF Items, Workers, Started, Fd, Error

\* The number of the new request is one.
LEMMA RequestTypes ==
  ASSUME TypeOK, NEW kind \in Kinds, Request(kind)
  PROVE  /\ asked' \in Seq(Kinds) /\ Len(asked') = Len(asked) + 1
         /\ Len(asked') <= MaxRequests /\ Len(asked) + 1 \in Requests
         /\ rq' \in Seq(Requests)
<1>1. asked \in Seq(Kinds) /\ rq \in Seq(Requests)
  BY DEF TypeOK
<1>2. /\ asked' \in Seq(Kinds) /\ Len(asked') = Len(asked) + 1
      /\ Len(asked) \in Nat /\ Len(asked) < MaxRequests
  BY <1>1, More DEF Request
<1>3. Len(asked) + 1 \in Requests
  BY <1>2, SpawnerAssumption DEF Requests
<1>4. rq' \in Seq(Requests)
  BY <1>1, <1>3, More DEF Request
<1> QED
  BY <1>2, <1>3, <1>4, SpawnerAssumption

\* What each step of Next does to the stream.
LEMMA StreamTypes ==
  ASSUME TypeOK, Numbered, Next
  PROVE  /\ asked' \in Seq(Kinds) /\ Len(asked') <= MaxRequests
         /\ rq' \in Seq(Requests) /\ rs' \in Seq(Items)
<1>1. /\ asked \in Seq(Kinds) /\ rq \in Seq(Requests) /\ rs \in Seq(Items)
      /\ Len(asked) <= MaxRequests
  BY DEF TypeOK
<1>2. CASE \E kind \in Kinds : Request(kind)
  BY <1>1, <1>2, RequestTypes DEF Request
<1>3. CASE Reads
  <2>1. /\ UNCHANGED <<asked, rq>>
        /\ UNCHANGED rs \/ (rs # <<>> /\ rs' = Tail(rs))
    BY <1>3 DEF Reads, ReadTag, RecvFd, ReadEnd, stream
  <2> QED
    BY <1>1, <2>1, Rest
<1>4. CASE TakeRequest
  <2>1. UNCHANGED <<asked, rs>> /\ rq # <<>> /\ rq' = Tail(rq)
    BY <1>4 DEF TakeRequest, daemon
  <2> QED
    BY <1>1, <2>1, Rest
<1>5. CASE SpawnFails \/ WriteHeader \/ SendFd
  <2>1. /\ UNCHANGED <<asked, rq>> /\ due \in Requests
        /\ \E e \in {Started(due), Fd(due), Error(due)} : rs' = Append(rs, e)
    BY <1>5 DEF SpawnFails, WriteHeader, SendFd, daemon, Started, Fd, Error,
       Numbered, Serving
  <2> QED
    BY <1>1, <2>1, ItemTypes, More
<1>6. CASE UNCHANGED <<asked, rq, rs>>
  BY <1>1, <1>6
<1> QED
  BY <1>2, <1>3, <1>4, <1>5, <1>6
     DEF Next, Serves, RecvInterrupted, DaemonGone, Sweep, Wait, SpawnChild,
         SpawnerReturns, SpawnerDies, WorkerEnds, InitReaps, daemon, stream

LEMMA DaemonTypes ==
  ASSUME TypeOK, Numbered, Next
  PROVE  /\ role' \in {"login", "reauth"}
         /\ dm' \in {"idle", "gone"} \cup Waiting
         /\ slips' \in Nat
         /\ got' \in [Requests -> Workers \cup {0}]
<1>1. /\ role \in {"login", "reauth"} /\ dm \in {"idle", "gone"} \cup Waiting
      /\ slips \in Nat /\ got \in [Requests -> Workers \cup {0}]
      /\ rs \in Seq(Items)
  BY DEF TypeOK
<1>2. CASE RecvFd
  <2>0. rs # <<>> => Head(rs) \in Items
    BY <1>1, Rest
  <2>1. rs # <<>> => Head(rs).w \in Workers
    BY <2>0 DEF Items
  <2>2. UNCHANGED got \/ (Head(rs).w \in Workers
                          /\ got' = [got EXCEPT ![Current] = Head(rs).w])
    BY <1>2, <2>1 DEF RecvFd
  <2> QED
    BY <1>1, <1>2, <2>2 DEF RecvFd, Waiting
<1>3. CASE RecvInterrupted
  BY <1>1, <1>3 DEF RecvInterrupted, Waiting
<1>4. CASE ReadTag \/ ReadEnd \/ DaemonGone
  BY <1>1, <1>4 DEF ReadTag, ReadEnd, DaemonGone, Waiting
<1>5. CASE \E kind \in Kinds : Request(kind)
  BY <1>1, <1>5 DEF Request, Waiting
<1>6. CASE UNCHANGED daemon
  BY <1>1, <1>6 DEF daemon
<1> QED
  BY <1>2, <1>3, <1>4, <1>5, <1>6
     DEF Next, Reads, Serves, Sweep, Wait, TakeRequest, SpawnFails, SpawnChild,
         WriteHeader, SendFd, SpawnerReturns, SpawnerDies, WorkerEnds, InitReaps

LEMMA SpawnerTypes ==
  ASSUME TypeOK, Numbered, Next
  PROVE  /\ sp' \in {"sweep", "wait", "poll", "gone"} \cup Serving
         /\ due' \in Requests \cup {0}
         /\ kid' \in [Workers -> {"none", "live", "zombie", "reaped"}]
<1>1. /\ sp \in {"sweep", "wait", "poll", "gone"} \cup Serving
      /\ due \in Requests \cup {0} /\ rq \in Seq(Requests)
      /\ kid \in [Workers -> {"none", "live", "zombie", "reaped"}]
  BY DEF TypeOK
<1>2. Swept \in [Workers -> {"none", "live", "zombie", "reaped"}]
  BY <1>1 DEF Swept
<1>3. CASE Sweep
  BY <1>1, <1>2, <1>3 DEF Sweep, Serving
<1>4. CASE InitReaps
  BY <1>1, <1>2, <1>4 DEF InitReaps
<1>5. CASE SpawnChild
  BY <1>1, <1>5 DEF SpawnChild, Serving
<1>6. CASE \E w \in Workers : WorkerEnds(w)
  BY <1>1, <1>6 DEF WorkerEnds, Serving
<1>7. CASE TakeRequest
  BY <1>1, <1>7, Rest DEF TakeRequest, Serving
<1>8. CASE UNCHANGED <<due, kid>> /\ (UNCHANGED sp \/ sp' \in {"poll", "sweep",
                                                    "pass", "gone"})
  BY <1>1, <1>8 DEF Serving
<1> QED
  BY <1>3, <1>4, <1>5, <1>6, <1>7, <1>8
     DEF Next, Reads, Serves, Request, ReadTag, RecvFd, ReadEnd,
         RecvInterrupted, DaemonGone, Wait, SpawnFails, WriteHeader, SendFd,
         SpawnerReturns, SpawnerDies

LEMMA TypeNext == Inv /\ [Next]_vars => TypeOK'
<1> SUFFICES ASSUME Inv, [Next]_vars PROVE TypeOK'
  OBVIOUS
<1>1. TypeOK /\ Numbered
  BY DEF Inv
<1>2. CASE UNCHANGED vars
  BY <1>1, <1>2 DEF TypeOK, vars, Waiting, Serving
<1>3. CASE Next
  BY <1>1, <1>3, StreamTypes, DaemonTypes, SpawnerTypes
     DEF TypeOK, Waiting, Serving
<1> QED
  BY <1>2, <1>3

-----------------------------------------------------------------------------
(* The steps.                                                              *)

\* A step that leaves requests, answers and results alone, and begins no
\* service of a request.
Quiet ==
  /\ UNCHANGED <<role, asked, rq, rs, got, due, slips>>
  /\ sp' = sp \/ sp' \notin Serving \/ (sp \in Serving /\ sp' \in Serving)
  /\ dm' = dm \/ dm' \notin Waiting

LEMMA QuietKeeps ==
  ASSUME Inv, Quiet
  PROVE  Numbered' /\ Spare'
<1>1. Numbered /\ Spare
  BY DEF Inv
<1>2. Numbered'
  BY <1>1 DEF Quiet, Numbered, Taken, Serving, Waiting
<1>3. \A w : Before(w) => Before(w)'
  BY DEF Quiet, Before, Taken, Serving
<1>4. Spare'
  BY <1>1, <1>3
     DEF Quiet, Spare, FdsBefore, GotBefore, FdsApart, GotApart, FdsNotGot
<1> QED
  BY <1>2, <1>4

LEMMA QuietStep ==
  ASSUME Inv,
         \/ UNCHANGED vars \/ ReadEnd \/ DaemonGone \/ Sweep \/ Wait
         \/ SpawnChild \/ SpawnerReturns \/ SpawnerDies \/ InitReaps
         \/ \E w \in Workers : WorkerEnds(w)
  PROVE  Quiet /\ InTurn'
<1> USE DEF Serving, Waiting, daemon, stream
<1>1. TypeOK /\ InTurn
  BY DEF Inv
<1>2. CASE ReadEnd
  BY <1>1, <1>2 DEF ReadEnd, Quiet, InTurn, Clear
<1>3. CASE DaemonGone
  BY <1>1, <1>3 DEF DaemonGone, Quiet, InTurn
<1>4. CASE SpawnChild
  BY <1>1, <1>4 DEF SpawnChild, Quiet, InTurn, Clear, Fresh, Halved, Current
<1>5. CASE Sweep \/ Wait \/ InitReaps \/ \E w \in Workers : WorkerEnds(w)
  <2>1. /\ UNCHANGED <<role, asked, dm, rq, rs, got, due, slips>>
        /\ sp' = sp \/ (sp \notin Serving \cup {"gone"}
                        /\ sp' \notin Serving \cup {"gone"})
    BY <1>1, <1>5 DEF Sweep, Wait, InitReaps, WorkerEnds
  <2> QED
    BY <1>1, <2>1 DEF Quiet, InTurn, Clear, Fresh, Halved, Current
<1>6. CASE SpawnerDies
  BY <1>1, <1>6 DEF SpawnerDies, Quiet, InTurn, Clear, Fresh, Halved, Current
<1>7. CASE SpawnerReturns
  BY <1>1, <1>7 DEF SpawnerReturns, Quiet, InTurn
<1>8. CASE UNCHANGED vars
  BY <1>1, <1>8 DEF vars, Quiet, InTurn, Clear, Fresh, Halved, Current
<1> QED
  BY <1>2, <1>3, <1>4, <1>5, <1>6, <1>7, <1>8

LEMMA RequestStep ==
  ASSUME Inv, NEW kind \in Kinds, Request(kind)
  PROVE  Numbered' /\ Spare' /\ InTurn'
<1>1. TypeOK /\ Numbered /\ Spare /\ InTurn
  BY DEF Inv
<1>2. /\ UNCHANGED <<role, rs, got, sp, due, slips>> /\ dm = "idle"
      /\ dm' = "tag" /\ sp # "gone"
      /\ kind = "greeter" => role = "login"
      /\ asked' = Append(asked, kind) /\ rq' = Append(rq, Len(asked) + 1)
      /\ Len(asked) + 1 \in Requests
  BY <1>1, RequestTypes DEF Request
<1>3. /\ Len(asked') = Len(asked) + 1 /\ Len(asked) \in Nat
      /\ \A i \in 1..Len(asked) : asked'[i] = asked[i]
      /\ asked'[Len(asked) + 1] = kind
      /\ Len(rq') = Len(rq) + 1 /\ Len(rq) \in Nat
      /\ \A i \in 1..Len(rq) : rq'[i] = rq[i]
      /\ rq'[Len(rq) + 1] = Len(asked) + 1
  BY <1>1, <1>2, More DEF TypeOK
<1>4. Taken' = Taken
  BY <1>3 DEF Taken
<1>5. Numbered'
  <2>1. role' = "reauth" => \A i \in 1..Len(asked') : asked'[i] = "worker"
    BY <1>1, <1>2, <1>3 DEF Numbered, Kinds
  <2>2. Len(rq') <= Len(asked') /\ \A i \in 1..Len(rq') : rq'[i] = Taken' + i
    BY <1>1, <1>3, <1>4 DEF Numbered, Taken
  <2>3. sp' \in Serving' => due' \in Requests /\ due' = Taken'
    BY <1>1, <1>2, <1>4 DEF Numbered, Serving
  <2> QED
    BY <1>1, <1>2, <1>3, <2>1, <2>2, <2>3 DEF Numbered, Serving, Waiting
<1>6. Spare'
  <2>1. \A w : Before(w) => Before(w)'
    BY <1>2, <1>4 DEF Before, Serving
  <2>2. FdsBefore' /\ FdsApart' /\ GotApart' /\ FdsNotGot'
    BY <1>1, <1>2, <2>1 DEF Spare, FdsBefore, FdsApart, GotApart, FdsNotGot
  <2>3. GotBefore'
    <3> SUFFICES ASSUME NEW r \in Requests, got[r] # 0
                 PROVE  r <= Len(asked') /\ got[r] <= r /\ Before(got[r])'
      BY <1>2 DEF GotBefore, Before, Taken, Serving
    <3>1. r <= Len(asked) /\ got[r] <= r /\ Before(got[r])
      BY <1>1 DEF Spare, GotBefore
    <3>2. r \in Nat
      BY SpawnerAssumption DEF Requests
    <3>3. r <= Len(asked')
      BY <1>3, <3>1, <3>2
    <3> QED
      BY <1>2, <2>1, <3>1, <3>3
  <2> QED
    BY <2>2, <2>3 DEF Spare
<1>7. InTurn'
  <2>1. slips = 0 => rs' = <<>> /\ Len(rq') = 1 /\ sp' \notin Serving
    BY <1>1, <1>2, <1>3, LensNatural DEF InTurn, Clear
  <2> QED
    BY <1>1, <1>2, <2>1 DEF InTurn, Fresh, Serving
<1> QED
  BY <1>5, <1>6, <1>7

\* An answer is taken off the stream.
LEMMA Consumed ==
  ASSUME Inv, rs # <<>>, rs' = Tail(rs),
         UNCHANGED <<role, asked, rq, got, sp, due, slips>>
  PROVE  Spare'
<1>1. TypeOK /\ Spare
  BY DEF Inv
<1>2. /\ Len(rs) \in Nat /\ Len(rs) >= 1 /\ Len(rs') = Len(rs) - 1
      /\ \A i \in 1..(Len(rs) - 1) : rs'[i] = rs[i + 1]
  BY <1>1, Rest DEF TypeOK
<1>3. \A w : Before(w) => Before(w)'
  BY DEF Before, Taken, Serving
<1>4. \A i \in 1..Len(rs') : i + 1 \in 1..Len(rs) /\ rs'[i] = rs[i + 1]
  BY <1>2
<1>5. FdsBefore'
  BY <1>1, <1>3, <1>4 DEF Spare, FdsBefore
<1>6. FdsApart'
  <2> SUFFICES ASSUME NEW i \in 1..Len(rs'), NEW j \in 1..Len(rs'),
                      rs'[i].k = "fd", rs'[j].k = "fd", rs'[i].w = rs'[j].w
               PROVE  i = j
    BY DEF FdsApart
  <2>1. i + 1 = j + 1
    BY <1>1, <1>4 DEF Spare, FdsApart
  <2> QED
    BY <1>2, <2>1
<1>7. FdsNotGot' /\ GotBefore' /\ GotApart'
  BY <1>1, <1>3, <1>4 DEF Spare, FdsNotGot, GotBefore, GotApart
<1> QED
  BY <1>5, <1>6, <1>7 DEF Spare

LEMMA ReadTagStep ==
  ASSUME Inv, ReadTag
  PROVE  Numbered' /\ Spare' /\ InTurn'
<1>1. TypeOK /\ Numbered /\ Spare /\ InTurn
  BY DEF Inv
<1>2. /\ dm = "tag" /\ rs # <<>> /\ rs' = Tail(rs)
      /\ dm' = IF Head(rs).k = "started" THEN "fd" ELSE "idle"
      /\ UNCHANGED <<role, asked, rq, got, sp, due, slips>>
  BY DEF ReadTag
<1>3. Numbered'
  BY <1>1, <1>2 DEF Numbered, Taken, Serving, Waiting
<1>4. InTurn'
  <2>1. CASE slips # 0
    BY <1>2, <2>1 DEF InTurn
  <2>2. CASE slips = 0
    <3>1. Fresh /\ \A r \in Requests : got[r] \in {0, r}
      BY <1>1, <1>2, <2>2 DEF InTurn
    <3>2. CASE rs = <<Started(Current)>>
      <4>1. /\ rs' = <<>> /\ dm' = "fd" /\ rq' = <<>>
            /\ sp' \in {"pass", "gone"}
        <5>1. rs' = <<>> /\ dm' = "fd"
          BY <1>2, <3>2, Short DEF Started
        <5>2. rq = <<>> /\ sp \in {"pass", "gone"}
          BY <3>1, <3>2, Short DEF Fresh, Started, Error
        <5> QED
          BY <1>2, <5>1, <5>2
      <4> QED
        BY <1>2, <3>1, <4>1 DEF InTurn, Halved
    <3>3. CASE rs = <<Started(Current), Fd(Current)>>
      <4>1. /\ rs' = <<Fd(Current)>> /\ dm' = "fd" /\ rq' = <<>>
            /\ sp' \notin Serving
        BY <1>2, <3>1, <3>3 DEF Fresh, Started
      <4> QED
        BY <1>2, <3>1, <4>1 DEF InTurn, Halved, Current, Fd, Serving
    <3>4. CASE rs = <<Error(Current)>>
      <4>1. rs' = <<>> /\ dm' = "idle" /\ rq' = <<>> /\ sp' \notin Serving
        <5>1. rs' = <<>> /\ dm' = "idle"
          BY <1>2, <3>4, Short DEF Error
        <5>2. rq = <<>> /\ sp \notin Serving
          BY <3>1, <3>4, Short DEF Fresh, Started, Error
        <5> QED
          BY <1>2, <5>1, <5>2 DEF Serving
      <4> QED
        BY <1>2, <3>1, <4>1 DEF InTurn, Clear, Serving
    <3> QED
      BY <1>2, <3>1, <3>2, <3>3, <3>4 DEF Fresh
  <2> QED
    BY <2>1, <2>2
<1> QED
  BY <1>2, <1>3, <1>4, Consumed

LEMMA RecvInterruptedStep ==
  ASSUME Inv, RecvInterrupted
  PROVE  Numbered' /\ Spare' /\ InTurn'
<1>1. TypeOK /\ Numbered /\ Spare
  BY DEF Inv
<1>2. /\ role = "reauth" /\ dm' = "idle" /\ slips' = slips + 1
      /\ UNCHANGED <<role, asked, rq, rs, got, sp, due>>
  BY DEF RecvInterrupted
<1>3. Numbered'
  BY <1>1, <1>2 DEF Numbered, Taken, Serving, Waiting
<1>4. Spare'
  BY <1>1, <1>2 DEF Spare, FdsBefore, GotBefore, FdsApart, GotApart, FdsNotGot,
     Before, Taken, Serving
<1>5. slips' # 0
  BY <1>1, <1>2 DEF TypeOK
<1>6. InTurn'
  BY <1>5 DEF InTurn
<1> QED
  BY <1>3, <1>4, <1>6

\* Where a descriptor was at the head, the daemon now holds it.
LEMMA RecvFdStep ==
  ASSUME Inv, RecvFd
  PROVE  Numbered' /\ Spare' /\ InTurn'
<1>1. TypeOK /\ Numbered /\ Spare /\ InTurn
  BY DEF Inv
<1>2. /\ dm = "fd" /\ rs # <<>> /\ rs' = Tail(rs) /\ dm' = "idle"
      /\ UNCHANGED <<role, asked, rq, sp, due, slips>>
  BY DEF RecvFd
<1>3. /\ Head(rs) = rs[1] /\ Head(rs) \in Items /\ 1 \in 1..Len(rs)
      /\ Len(rs) \in Nat /\ Len(rs') = Len(rs) - 1
      /\ \A i \in 1..Len(rs') : i + 1 \in 1..Len(rs) /\ rs'[i] = rs[i + 1]
  BY <1>1, <1>2, Rest DEF TypeOK
<1>4. Numbered'
  BY <1>1, <1>2 DEF Numbered, Taken, Serving, Waiting
<1>5. Clear' \/ slips # 0
  BY <1>1, <1>2, Short DEF InTurn, Halved, Clear, Serving
<1>6. CASE UNCHANGED got
  BY <1>1, <1>2, <1>4, <1>5, <1>6, Consumed DEF InTurn
<1>7. CASE Head(rs).k = "fd" /\ got' = [got EXCEPT ![Current] = Head(rs).w]
  <2> DEFINE v == Head(rs).w
  <2>1. /\ v \in Requests /\ v \in Nat /\ v # 0 /\ Before(v)
        /\ rs[1].k = "fd" /\ rs[1].w = v
    BY <1>1, <1>3, <1>7, SpawnerAssumption
       DEF Spare, FdsBefore, Items, Workers, Requests
  <2>2. Current \in Requests /\ v <= Current /\ Current = Len(asked)
    BY <1>1, <1>2, <2>1, LensNatural, SpawnerAssumption
       DEF Numbered, Waiting, TypeOK, Requests, Current, Before, Taken
  <2>3. /\ got'[Current] = v
        /\ \A r \in Requests : r # Current => got'[r] = got[r]
    BY <1>1, <1>7, <2>2 DEF TypeOK
  <2>4. \A w : Before(w) => Before(w)'
    BY <1>2 DEF Before, Taken, Serving
  <2>5. \A r \in Requests : got[r] # 0 => got[r] # v
    BY <1>1, <1>3, <2>1 DEF Spare, FdsNotGot
  <2>6. \A i \in 1..Len(rs') : rs'[i].k = "fd" => rs'[i].w # v
    <3> SUFFICES ASSUME NEW i \in 1..Len(rs'), rs'[i].k = "fd", rs'[i].w = v
                 PROVE  FALSE
      OBVIOUS
    <3>1. i + 1 = 1
      BY <1>1, <1>3, <2>1 DEF Spare, FdsApart
    <3> QED
      BY <1>3, <3>1
  <2> HIDE DEF v
  <2>7. FdsBefore' /\ FdsApart'
    <3>1. FdsBefore'
      BY <1>1, <1>3, <2>4 DEF Spare, FdsBefore
    <3>2. FdsApart'
      <4> SUFFICES ASSUME NEW i \in 1..Len(rs'), NEW j \in 1..Len(rs'),
                          rs'[i].k = "fd", rs'[j].k = "fd",
                          rs'[i].w = rs'[j].w
                   PROVE  i = j
        BY DEF FdsApart
      <4>1. i + 1 = j + 1
        BY <1>1, <1>3 DEF Spare, FdsApart
      <4> QED
        BY <1>3, <4>1
    <3> QED
      BY <3>1, <3>2
  <2>8. GotBefore'
    <3> SUFFICES ASSUME NEW r \in Requests, got'[r] # 0
                 PROVE  r <= Len(asked) /\ got'[r] <= r /\ Before(got'[r])
      BY <1>2 DEF GotBefore, Before, Taken, Serving
    <3>1. CASE r = Current
      BY <1>1, <2>1, <2>2, <2>3, <3>1, LensNatural
    <3>2. CASE r # Current
      BY <1>1, <2>3, <3>2 DEF Spare, GotBefore
    <3> QED
      BY <3>1, <3>2
  <2>9. GotApart'
    BY <1>1, <2>1, <2>3, <2>5 DEF Spare, GotApart
  <2>10. FdsNotGot'
    <3> SUFFICES ASSUME NEW r \in Requests, NEW i \in 1..Len(rs'),
                        rs'[i].k = "fd", got'[r] # 0
                 PROVE  rs'[i].w # got'[r]
      BY DEF FdsNotGot
    <3>1. CASE r = Current
      BY <2>3, <2>6, <3>1
    <3>2. CASE r # Current
      BY <1>1, <1>3, <2>3, <3>2 DEF Spare, FdsNotGot
    <3> QED
      BY <3>1, <3>2
  <2>11. InTurn'
    <3>1. slips = 0 => v = Current
      <4>1. ASSUME slips = 0 PROVE rs[1] = Fd(Current)
        BY <1>1, <1>2, <4>1 DEF InTurn, Halved
      <4> QED
        BY <2>1, <4>1 DEF Fd
    <3>2. slips = 0 => \A r \in Requests : got'[r] \in {0, r}
      BY <1>1, <2>3, <3>1 DEF InTurn
    <3> QED
      BY <1>2, <1>5, <3>2 DEF InTurn
  <2> QED
    BY <1>4, <2>7, <2>8, <2>9, <2>10, <2>11 DEF Spare
<1> QED
  BY <1>6, <1>7 DEF RecvFd

LEMMA TakeRequestStep ==
  ASSUME Inv, TakeRequest
  PROVE  Numbered' /\ Spare' /\ InTurn'
<1>1. TypeOK /\ Numbered /\ Spare /\ InTurn
  BY DEF Inv
<1>2. /\ sp = "poll" /\ rq # <<>> /\ due' = Head(rq) /\ rq' = Tail(rq)
      /\ sp' = "spawn" /\ UNCHANGED <<rs, role, asked, dm, got, slips>>
  BY DEF TakeRequest, daemon
<1>3. /\ Head(rq) = rq[1] /\ Head(rq) \in Requests
      /\ Len(rq) \in Nat /\ Len(rq) >= 1 /\ Len(rq') = Len(rq) - 1
      /\ \A i \in 1..(Len(rq) - 1) : rq'[i] = rq[i + 1]
      /\ Len(rq) = 1 => rq' = <<>>
  BY <1>1, <1>2, Rest DEF TypeOK
<1>4. Taken' = Taken + 1 /\ due' = Taken + 1 /\ Taken \in Int
  BY <1>1, <1>2, <1>3, LensNatural DEF Taken, Numbered
<1>5. Numbered'
  <2>1. Len(rq') <= Len(asked') /\ \A i \in 1..Len(rq') : rq'[i] = Taken' + i
    BY <1>1, <1>2, <1>3, <1>4, LensNatural DEF Numbered
  <2> QED
    BY <1>1, <1>2, <1>3, <1>4, <2>1 DEF Numbered, Waiting
<1>6. \A w \in Int : Before(w) => Before(w)'
  BY <1>4 DEF Before
<1>7. \A i \in 1..Len(rs) : rs[i].w \in Int
  <2>1. \A i \in 1..Len(rs) : rs[i] \in Items
    BY <1>1 DEF TypeOK
  <2> QED
    BY <2>1 DEF Items, Workers, Requests
<1>8. \A r \in Requests : got[r] \in Int
  BY <1>1 DEF TypeOK, Workers, Requests
<1>9. FdsBefore'
  BY <1>1, <1>2, <1>6, <1>7 DEF Spare, FdsBefore
<1>10. GotBefore'
  BY <1>1, <1>2, <1>6, <1>8 DEF Spare, GotBefore
<1>11. FdsApart' /\ GotApart' /\ FdsNotGot'
  BY <1>1, <1>2 DEF Spare, FdsApart, GotApart, FdsNotGot
<1>12. InTurn'
  <2>1. slips = 0 /\ dm = "tag" => rs' = <<>> /\ rq' = <<>>
    BY <1>1, <1>2, <1>3 DEF InTurn, Fresh
  <2>2. slips = 0 => dm # "idle" /\ dm # "fd"
    BY <1>1, <1>2 DEF InTurn, Clear, Halved
  <2> QED
    BY <1>1, <1>2, <2>1, <2>2 DEF InTurn, Fresh
<1> QED
  BY <1>5, <1>9, <1>10, <1>11, <1>12 DEF Spare

\* The spawner answers: with no descriptor yet, or with that of the request
\* it is serving.
LEMMA Answered ==
  ASSUME Inv, sp \in Serving, NEW e \in Items, rs' = Append(rs, e),
         UNCHANGED <<role, asked, rq, dm, got, due, slips>>,
         \/ e.k # "fd" /\ sp' \in Serving \cup {"sweep"}
         \/ e.w = due /\ sp' = "sweep"
  PROVE  Numbered' /\ Spare'
<1>1. TypeOK /\ Numbered /\ Spare /\ due = Taken /\ due \in Requests
  BY DEF Inv, Numbered
<1>2. /\ Len(rs) \in Nat /\ Len(rs') = Len(rs) + 1
      /\ \A i \in 1..Len(rs) : rs'[i] = rs[i]
      /\ rs'[Len(rs) + 1] = e
  BY <1>1, More DEF TypeOK
<1>3. \A i \in 1..Len(rs') :
        \/ i \in 1..Len(rs) /\ rs'[i] = rs[i]
        \/ i = Len(rs) + 1 /\ rs'[i] = e
  BY <1>2
<1>4. Numbered'
  BY <1>1 DEF Numbered, Taken, Serving, Waiting
<1>5. \A w : Before(w) => Before(w)' /\ w < due
  BY <1>1 DEF Before, Taken, Serving
<1>6. e.k = "fd" => Before(e.w)'
  BY <1>1, SpawnerAssumption DEF Before, Taken, Serving, Requests
<1>7. due \in Nat
  BY <1>1, SpawnerAssumption DEF Requests
<1>8. FdsBefore'
  BY <1>1, <1>3, <1>5, <1>6 DEF Spare, FdsBefore
<1>9. \A i \in 1..Len(rs) : rs[i].k = "fd" /\ e.k = "fd" => rs[i].w # e.w
  BY <1>1, <1>5, <1>7 DEF Spare, FdsBefore, Serving
<1>10. FdsApart'
  BY <1>1, <1>3, <1>9 DEF Spare, FdsApart
<1>11. \A r \in Requests : got[r] # 0 /\ e.k = "fd" => got[r] # e.w
  BY <1>1, <1>5, <1>7 DEF Spare, GotBefore, Serving
<1>12. FdsNotGot'
  BY <1>1, <1>3, <1>11 DEF Spare, FdsNotGot
<1>13. GotBefore' /\ GotApart'
  BY <1>1, <1>5 DEF Spare, GotBefore, GotApart
<1> QED
  BY <1>4, <1>8, <1>10, <1>12, <1>13 DEF Spare

LEMMA AnswerStep ==
  ASSUME Inv, SpawnFails \/ WriteHeader \/ SendFd
  PROVE  Numbered' /\ Spare' /\ InTurn'
<1>1. /\ TypeOK /\ InTurn /\ sp \in Serving /\ due \in Requests
      /\ due = Taken /\ (rq = <<>> => due = Current)
  <2>1. sp \in Serving
    BY DEF SpawnFails, WriteHeader, SendFd, Serving
  <2> QED
    BY <2>1, LensNatural DEF Inv, Numbered, Taken, Current
<1>2. UNCHANGED <<role, asked, rq, dm, got, due, slips>>
  BY DEF SpawnFails, WriteHeader, SendFd, daemon
<1>3. CASE SpawnFails
  <2>1. /\ rs' = Append(rs, Error(due)) /\ sp = "spawn" /\ sp' = "sweep"
        /\ Error(due) \in Items /\ Error(due).k # "fd"
    BY <1>1, <1>3, ItemTypes DEF SpawnFails, Error
  <2>2. Numbered' /\ Spare'
    BY <1>1, <1>2, <2>1, Answered
  <2>3. slips = 0 => dm # "idle" /\ dm # "fd"
    BY <1>1, <2>1 DEF InTurn, Clear, Halved, Serving
  <2>4. slips = 0 /\ dm = "tag" =>
          rq' = <<>> /\ rs' = <<Error(Current)>> /\ sp' \notin Serving
    <3>1. ASSUME slips = 0, dm = "tag" PROVE rs = <<>> /\ rq = <<>>
      BY <1>1, <2>1, <3>1 DEF InTurn, Fresh, Serving
    <3> QED
      BY <1>1, <1>2, <2>1, <3>1 DEF Serving
  <2>5. InTurn'
    BY <1>1, <1>2, <2>3, <2>4 DEF InTurn, Fresh, Current, Error, Serving
  <2> QED
    BY <2>2, <2>5
<1>4. CASE WriteHeader
  <2>1. /\ rs' = Append(rs, Started(due)) /\ sp = "header" /\ sp' = "pass"
        /\ Started(due) \in Items /\ Started(due).k # "fd"
    BY <1>1, <1>4, ItemTypes DEF WriteHeader, Started
  <2>2. Numbered' /\ Spare'
    BY <1>1, <1>2, <2>1, Answered DEF Serving
  <2>3. slips = 0 => dm # "idle" /\ dm # "fd"
    BY <1>1, <2>1 DEF InTurn, Clear, Halved, Serving
  <2>4. slips = 0 /\ dm = "tag" =>
          rq' = <<>> /\ rs' = <<Started(Current)>> /\ sp' = "pass"
    <3>1. ASSUME slips = 0, dm = "tag" PROVE rs = <<>> /\ rq = <<>>
      BY <1>1, <2>1, <3>1 DEF InTurn, Fresh, Serving
    <3> QED
      BY <1>1, <1>2, <2>1, <3>1
  <2>5. InTurn'
    BY <1>1, <1>2, <2>3, <2>4 DEF InTurn, Fresh, Current, Started
  <2> QED
    BY <2>2, <2>5
<1>5. CASE SendFd
  <2>1. /\ rs' = Append(rs, Fd(due)) /\ sp = "pass" /\ sp' = "sweep"
        /\ Fd(due) \in Items /\ Fd(due).w = due
    BY <1>1, <1>5, ItemTypes DEF SendFd, Fd
  <2>2. Numbered' /\ Spare'
    BY <1>1, <1>2, <2>1, Answered
  <2>3. slips = 0 => dm # "idle"
    BY <1>1, <2>1 DEF InTurn, Clear, Serving
  <2>4. slips = 0 /\ dm = "tag" =>
          /\ rq' = <<>> /\ rs' = <<Started(Current), Fd(Current)>>
          /\ sp' \notin Serving
    <3>1. ASSUME slips = 0, dm = "tag"
          PROVE  rs = <<Started(Current)>> /\ rq = <<>>
      BY <1>1, <2>1, <3>1 DEF InTurn, Fresh, Serving
    <3> QED
      BY <1>1, <1>2, <2>1, <3>1, Short DEF Serving
  <2>5. slips = 0 /\ dm = "fd" =>
          rq' = <<>> /\ rs' = <<Fd(Current)>> /\ sp' \notin Serving
    <3>1. ASSUME slips = 0, dm = "fd" PROVE rs = <<>> /\ rq = <<>>
      BY <1>1, <2>1, <3>1 DEF InTurn, Halved, Serving
    <3> QED
      BY <1>1, <1>2, <2>1, <3>1 DEF Serving
  <2>6. InTurn'
    BY <1>1, <1>2, <2>3, <2>4, <2>5
       DEF InTurn, Fresh, Halved, Current, Started, Fd, Serving
  <2> QED
    BY <2>2, <2>6
<1> QED
  BY <1>3, <1>4, <1>5

-----------------------------------------------------------------------------
(* The theorems.                                                           *)

LEMMA InvNext == Inv /\ [Next]_vars => Inv'
<1> SUFFICES ASSUME Inv, [Next]_vars PROVE Inv'
  OBVIOUS
<1>1. TypeOK'
  BY TypeNext
<1>2. Numbered' /\ Spare' /\ InTurn'
  BY QuietStep, QuietKeeps, RequestStep, ReadTagStep, RecvInterruptedStep,
     RecvFdStep, TakeRequestStep, AnswerStep DEF Next, Reads, Serves
<1> QED
  BY <1>1, <1>2 DEF Inv

\* The variables of the daemon, of the stream and of the spawner keep their
\* types.
THEOREM SpawnerTypeCorrect == Spec => []TypeOK
<1>1. Inv => TypeOK
  BY DEF Inv
<1> QED
  BY <1>1, InvInit, InvNext, PTL DEF Spec

\* For every number of requests: one that is answered with a worker is given
\* the worker made for it while no read was cut short, one made for an earlier
\* request of its kind after that, and never one another request was given.
THEOREM AnswersArePaired == Spec => []AnswersPaired
BY InvInit, InvNext, InvPaired, PTL DEF Spec

-----------------------------------------------------------------------------
(* Who waits.                                                              *)

\* A header that is the last on the stream has its descriptor to come.
LastStarted ==
  rs # <<>> /\ rs[Len(rs)].k = "started" => sp \in {"pass", "gone"}

Owed == NeverBothWait /\ LastStarted

\* Steps of the daemon that read nothing, and of the spawner that write nothing.
LEMMA OwedQuiet ==
  ASSUME Inv, Owed,
         \/ UNCHANGED vars \/ ReadEnd \/ DaemonGone \/ RecvInterrupted
         \/ Sweep \/ Wait \/ SpawnChild \/ SpawnerReturns \/ SpawnerDies
         \/ InitReaps \/ TakeRequest \/ \E w \in Workers : WorkerEnds(w)
  PROVE  Owed'
<1> USE DEF Owed, NeverBothWait, LastStarted, Waiting, Serving
<1>1. CASE UNCHANGED vars
  BY <1>1 DEF vars
<1>2. CASE ReadEnd \/ DaemonGone \/ RecvInterrupted
  BY <1>2 DEF ReadEnd, DaemonGone, RecvInterrupted, stream
<1>3. CASE Sweep \/ Wait \/ SpawnChild \/ InitReaps \/ TakeRequest
  BY <1>3 DEF Sweep, Wait, SpawnChild, InitReaps, TakeRequest, stream, daemon
<1>4. CASE SpawnerReturns \/ SpawnerDies
  BY <1>4 DEF SpawnerReturns, SpawnerDies, stream, daemon
<1>5. CASE \E w \in Workers : WorkerEnds(w)
  BY <1>5 DEF WorkerEnds, stream, daemon
<1> QED
  BY <1>1, <1>2, <1>3, <1>4, <1>5

LEMMA OwedNext == Inv /\ Owed /\ [Next]_vars => Owed'
<1> SUFFICES ASSUME Inv, Owed, [Next]_vars PROVE Owed'
  OBVIOUS
<1>0. rs \in Seq(Items) /\ rq \in Seq(Requests)
  BY DEF Inv, TypeOK
<1>1. ASSUME NEW kind \in Kinds, Request(kind) PROVE Owed'
  <2>1. rq' # <<>>
    BY <1>0, <1>1 DEF Request
  <2> QED
    BY <1>1, <2>1 DEF Request, Owed, NeverBothWait, LastStarted
<1>2. CASE ReadTag
  <2>1. /\ dm = "tag" /\ rs # <<>> /\ rs' = Tail(rs) /\ UNCHANGED sp
        /\ dm' = IF Head(rs).k = "started" THEN "fd" ELSE "idle"
    BY <1>2 DEF ReadTag
  <2>2. /\ Head(rs) = rs[1] /\ Len(rs) \in Nat /\ Len(rs) >= 1
        /\ Len(rs') = Len(rs) - 1 /\ rs' \in Seq(Items)
        /\ \A i \in 1..(Len(rs) - 1) : rs'[i] = rs[i + 1]
    BY <1>0, <2>1, Rest
  <2>3. LastStarted'
    <3>1. rs' # <<>> => rs'[Len(rs')] = rs[Len(rs)]
      BY <2>2, EmptySeq
    <3> QED
      BY <2>1, <3>1 DEF Owed, LastStarted
  <2>4. rs' = <<>> => Head(rs) = rs[Len(rs)]
    <3>1. rs' = <<>> => Len(rs') = 0
      BY EmptySeq
    <3>2. rs' = <<>> => Len(rs) = 1
      BY <2>2, <3>1
    <3> QED
      BY <2>2, <3>2
  <2>5. dm' = "fd" /\ rs' = <<>> => sp \in {"pass", "gone"}
    BY <2>1, <2>4 DEF Owed, LastStarted
  <2> QED
    BY <2>1, <2>3, <2>5 DEF Owed, NeverBothWait, Waiting
<1>3. CASE RecvFd
  <2>1. rs # <<>> /\ rs' = Tail(rs) /\ dm' = "idle" /\ UNCHANGED sp
    BY <1>3 DEF RecvFd
  <2>2. /\ Len(rs) \in Nat /\ Len(rs) >= 1
        /\ Len(rs') = Len(rs) - 1 /\ rs' \in Seq(Items)
        /\ \A i \in 1..(Len(rs) - 1) : rs'[i] = rs[i + 1]
    BY <1>0, <2>1, Rest
  <2>3. rs' # <<>> => rs'[Len(rs')] = rs[Len(rs)]
    BY <2>2, EmptySeq
  <2> QED
    BY <2>1, <2>3 DEF Owed, NeverBothWait, LastStarted, Waiting
<1>4. CASE SpawnFails \/ WriteHeader \/ SendFd
  <2>1. due \in Requests
    BY <1>4 DEF Inv, Numbered, SpawnFails, WriteHeader, SendFd, Serving
  <2>2. PICK e \in Items :
          /\ rs' = Append(rs, e)
          /\ e.k = "started" => sp' = "pass"
    BY <1>4, <2>1, ItemTypes
       DEF SpawnFails, WriteHeader, SendFd, Started, Fd, Error
  <2>3. rs' # <<>> /\ rs'[Len(rs')] = e
    BY <1>0, <2>2, More, EmptySeq
  <2> QED
    BY <2>2, <2>3 DEF Owed, NeverBothWait, LastStarted
<1> QED
  BY <1>1, <1>2, <1>3, <1>4, OwedQuiet DEF Next, Reads, Serves

\* However many requests and cut reads there were, a daemon that waits has an
\* answer on the stream or the spawner at work for it, or the spawner is gone
\* (spawner.rs:101-163, 231-255): the part of RequestReturns that needs no
\* fairness.
THEOREM NoWaitInVain == Spec => []NeverBothWait
<1>1. Init => Owed
  BY DEF Init, Owed, NeverBothWait, LastStarted, Waiting
<1>2. Owed => NeverBothWait
  BY DEF Owed
<1> QED
  BY <1>1, <1>2, InvInit, InvNext, OwedNext, PTL DEF Spec
=============================================================================
