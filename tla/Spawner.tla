------------------------------- MODULE Spawner -------------------------------
(***************************************************************************)
(* The stream between the daemon and one spawner: `run_spawner` and        *)
(* `Spawner::request` (spawner.rs) with the passing of a worker's control  *)
(* socket (fdpass.rs), and the reaping of the workers.                     *)
(*                                                                         *)
(* Requests and answers are bytes of one stream and carry no number; an    *)
(* answer is three reads at the daemon: the tag, the pid, the descriptor.  *)
(***************************************************************************)
EXTENDS Naturals, Sequences, FiniteSets

CONSTANT MaxRequests \* bound: requests in the life of the spawner

ASSUME SpawnerAssumption == MaxRequests \in Nat

Requests == 1..MaxRequests
Workers  == Requests \* a worker bears the number of the request it was made for

Kinds == {"worker", "greeter"}

\* What the spawner writes: a header with the pid, a byte that carries the
\* descriptor, an error.
Items == [k: {"started", "fd", "error"}, w: Workers]

VARIABLES
  role,  \* the spawner of the logins, or of the reauthentications
  asked, \* the kinds of the requests so far
  rq,    \* requests on the stream
  rs,    \* answers on the stream
  dm,    \* the daemon: idle, reading the tag or the descriptor, or gone
  got,   \* for each request, the worker it was answered with, 0 for none
  sp,    \* the spawner's place in its loop
  due,   \* the request the spawner is serving
  kid,   \* each worker: not there, live, a zombie, or reaped
  slips  \* reads of a descriptor that a signal has cut short

stream == <<rq, rs>>
daemon == <<role, asked, dm, got, slips>>
vars   == <<role, asked, rq, rs, dm, got, sp, due, kid, slips>>

Waiting == {"tag", "fd"}
Serving == {"spawn", "header", "pass"}

\* The variables keep their types.
TypeOK ==
  /\ role \in {"login", "reauth"}
  /\ asked \in Seq(Kinds) /\ Len(asked) <= MaxRequests
  /\ rq \in Seq(Requests) /\ rs \in Seq(Items)
  /\ dm \in {"idle", "gone"} \cup Waiting
  /\ got \in [Requests -> Workers \cup {0}]
  /\ sp \in {"sweep", "wait", "poll", "gone"} \cup Serving
  /\ due \in Requests \cup {0}
  /\ kid \in [Workers -> {"none", "live", "zombie", "reaped"}]
  /\ slips \in Nat

Init ==
  /\ role \in {"login", "reauth"}
  /\ asked = <<>>
  /\ rq = <<>> /\ rs = <<>>
  /\ dm = "idle"
  /\ got = [r \in Requests |-> 0]
  /\ sp = "sweep"
  /\ due = 0
  /\ kid = [w \in Workers |-> "none"]
  /\ slips = 0

-----------------------------------------------------------------------------
(* The daemon                                                              *)

Current == Len(asked) \* the request under way

\* request: one byte.  Only a spawner of logins is asked for a greeter.  The
\* write fails when the spawner is gone.
Request(kind) ==
  /\ dm = "idle"
  /\ sp # "gone"
  /\ Len(asked) < MaxRequests
  /\ kind = "greeter" => role = "login"
  /\ asked' = Append(asked, kind)
  /\ rq' = Append(rq, Len(asked) + 1)
  /\ dm' = "tag"
  /\ UNCHANGED <<role, rs, got, sp, due, kid, slips>>

\* The tag: a started worker, whose pid comes in the same write; an error; or
\* a byte that is no tag, the one a descriptor came with, which is lost here.
ReadTag ==
  /\ dm = "tag"
  /\ rs # <<>>
  /\ rs' = Tail(rs)
  /\ dm' = IF Head(rs).k = "started" THEN "fd" ELSE "idle"
  /\ UNCHANGED <<role, asked, rq, got, sp, due, kid, slips>>

\* recv_fd; it fails on a message without a descriptor, or a truncated one
\* (no descriptor to spare), which is consumed.
RecvFd ==
  /\ dm = "fd"
  /\ rs # <<>>
  /\ rs' = Tail(rs)
  /\ dm' = "idle"
  /\ \/ /\ Head(rs).k = "fd"
        /\ got' = [got EXCEPT ![Current] = Head(rs).w]
     \/ UNCHANGED got
  /\ UNCHANGED <<role, asked, rq, sp, due, kid, slips>>

\* A signal cuts recvmsg short while it waits, and the request with it: the
\* descriptor stays on the stream.  Logins are asked for while GREETING is
\* set, when the handler ends the daemon instead (ipc.rs:180-210).
\* mutant: it may happen to any request
RecvInterruptedAny ==
  /\ dm = "fd"
  /\ rs = <<>>
  /\ dm' = "idle"
  /\ slips' = slips + 1
  /\ UNCHANGED <<role, asked, rq, rs, got, sp, due, kid>>
RecvInterrupted ==
  /\ role = "reauth"
  /\ dm = "fd"
  /\ rs = <<>>
  /\ dm' = "idle"
  /\ slips' = slips + 1
  /\ UNCHANGED <<role, asked, rq, rs, got, sp, due, kid>>

\* Any read fails once the spawner is gone and its answers are read.
ReadEnd ==
  /\ dm \in Waiting
  /\ rs = <<>>
  /\ sp = "gone"
  /\ dm' = "idle"
  /\ UNCHANGED <<role, asked, stream, got, sp, due, kid, slips>>

\* The daemon dies.
DaemonGone ==
  /\ dm # "gone"
  /\ dm' = "gone"
  /\ UNCHANGED <<role, asked, stream, got, sp, due, kid, slips>>

-----------------------------------------------------------------------------
(* The spawner                                                             *)

Swept == [w \in Workers |-> IF kid[w] = "zombie" THEN "reaped" ELSE kid[w]]

\* reap_exited, at the top of the loop.
\* mutant: reaping is left to the signal
SweepNothing ==
  /\ sp = "sweep"
  /\ sp' = "wait"
  /\ UNCHANGED <<stream, daemon, due, kid>>
Sweep ==
  /\ sp = "sweep"
  /\ sp' = "wait"
  /\ kid' = Swept
  /\ UNCHANGED <<stream, daemon, due>>

\* The wait for the next request begins.
Wait ==
  /\ sp = "wait"
  /\ sp' = "poll"
  /\ UNCHANGED <<stream, daemon, due, kid>>

\* A request: the child is made, or an error is written.
TakeRequest ==
  /\ sp = "poll"
  /\ rq # <<>>
  /\ due' = Head(rq)
  /\ rq' = Tail(rq)
  /\ sp' = "spawn"
  /\ UNCHANGED <<rs, daemon, kid>>

\* mutant: a failure is logged and not told
SpawnFailsMute ==
  /\ sp = "spawn"
  /\ sp' = "sweep"
  /\ UNCHANGED <<stream, daemon, due, kid>>
SpawnFails ==
  /\ sp = "spawn"
  /\ rs' = Append(rs, [k |-> "error", w |-> due])
  /\ sp' = "sweep"
  /\ UNCHANGED <<rq, daemon, due, kid>>

SpawnChild ==
  /\ sp = "spawn"
  /\ kid' = [kid EXCEPT ![due] = "live"]
  /\ sp' = "header"
  /\ UNCHANGED <<stream, daemon, due>>

\* The header and the descriptor are two writes.
WriteHeader ==
  /\ sp = "header"
  /\ dm # "gone"
  /\ rs' = Append(rs, [k |-> "started", w |-> due])
  /\ sp' = "pass"
  /\ UNCHANGED <<rq, daemon, due, kid>>

SendFd ==
  /\ sp = "pass"
  /\ dm # "gone"
  /\ rs' = Append(rs, [k |-> "fd", w |-> due])
  /\ sp' = "sweep"
  /\ UNCHANGED <<rq, daemon, due, kid>>

\* A read or a write fails because the daemon is gone: the spawner returns.
SpawnerReturns ==
  /\ dm = "gone"
  /\ sp \in {"poll", "header", "pass"}
  /\ sp' = "gone"
  /\ UNCHANGED <<stream, daemon, due, kid>>

\* The spawner is killed.
SpawnerDies ==
  /\ sp # "gone"
  /\ sp' = "gone"
  /\ UNCHANGED <<stream, daemon, due, kid>>

\* A worker ends, at any time.  Its SIGCHLD interrupts a poll under way, and
\* is spent if the spawner is anywhere else.
WorkerEnds(w) ==
  /\ kid[w] = "live"
  /\ kid' = [kid EXCEPT ![w] = "zombie"]
  /\ sp' = IF sp = "poll" THEN "sweep" ELSE sp
  /\ UNCHANGED <<stream, daemon, due>>

\* init reaps what the spawner leaves.
InitReaps ==
  /\ sp = "gone"
  /\ kid' = Swept
  /\ kid' # kid
  /\ UNCHANGED <<stream, daemon, sp, due>>

Reads == ReadTag \/ RecvFd \/ ReadEnd

Serves ==
  \/ Sweep \/ Wait \/ TakeRequest \/ SpawnFails \/ SpawnChild
  \/ WriteHeader \/ SendFd \/ SpawnerReturns

Next ==
  \/ \E kind \in Kinds : Request(kind)
  \/ Reads \/ RecvInterrupted \/ DaemonGone
  \/ Serves \/ SpawnerDies
  \/ \E w \in Workers : WorkerEnds(w)
  \/ InitReaps

Spec == Init /\ [][Next]_vars

\* A blocking read returns once there is something to read, and the spawner
\* runs; nothing is assumed of the workers or of the one who asks.
FairSpec == Spec /\ WF_vars(Reads) /\ WF_vars(Serves) /\ WF_vars(InitReaps)

-----------------------------------------------------------------------------
(* Properties                                                              *)

\* A request that is answered with a worker is answered with the one made for
\* it, as long as no read was cut short; after that with one made for an
\* earlier request of the same kind, and never with a worker another request
\* was answered with (spawner.rs:231-255, fdpass.rs:67-125).
AnswersPaired ==
  \A r \in 1..Len(asked) : got[r] # 0 =>
    /\ got[r] <= r /\ asked[got[r]] = asked[r]
    /\ slips = 0 => got[r] = r
    /\ \A q \in 1..Len(asked) : got[q] = got[r] => q = r

\* The daemon never waits for a spawner that waits for a request: something is
\* on the stream for it, or being made, and in the middle of an answer it is
\* that answer's descriptor, also behind what a read cut short has left there.
NeverBothWait ==
  dm \in Waiting /\ rs = <<>> /\ sp # "gone" =>
    IF dm = "fd" THEN sp = "pass" ELSE rq # <<>> \/ sp \in Serving

\* Every request returns, whatever was left on the stream by one before it:
\* `begin` is called on the threads that serve (spawner.rs:234, main.rs:95).
RequestReturns == dm \in Waiting ~> dm \notin Waiting

\* A zombie that the signal's race has left behind is reaped when the next
\* request comes (spawner.rs:108-131).
NextRequestReaps ==
  \A w \in Workers :
    (kid[w] = "zombie" /\ rq # <<>>) ~> (kid[w] = "reaped")
=============================================================================
