--------------------------- MODULE LoginLoopProofs ---------------------------
(***************************************************************************)
(* What LoginLoop's runs check on small instances, proved for every value  *)
(* of its constants: the type invariant, the safety invariants, the action *)
(* properties and the implementation of SeatOwner.  All of them rest on    *)
(* one inductive invariant, IInv.                                          *)
(***************************************************************************)
EXTENDS LoginLoop, TLAPS

-----------------------------------------------------------------------------
(***************************************************************************)
(* The inductive invariant.                                                *)
(***************************************************************************)
Aborting == pc = "Abort" \/ (Freeing /\ ret = "Abort")
Exiting  == pc = "Exit" \/ (Freeing /\ ret = "Exit")
Watched  == sess \in {"running", "lingering"}
Alive    == gw \in {"starting", "forked", "running"}

\* free_seat and terminate return only to the points that call them.
Returns ==
  /\ Freeing => ret \in {"Launch", "Exit", "Abort"}
  /\ pc \in {"Term", "TermWait", "KillWait"} => ret \in {"Handoff", "Account"}

\* A compositor that is not doomed runs under a worker that forked it.
WorkerLeads ==
  /\ gw = "starting" => cage = "none"
  /\ gw = "none" => cage \in {"none", "killed"}

\* Where in the loop the greeter's worker and the session's can be alive.
WorkerWhere ==
  Alive => ~Up \/ pc \in {"Accept", "Serve", "Term", "TermWait"} \/ Aborting
SessionWhere ==
  Watched => ~Up \/ pc \in {"Wait", "Poll"} \/ Exiting \/ Aborting

OneOwner == Watched => ~Alive

\* GREETING is down from the handoff until the loop top.
NotGreeting == pc \in {"Start", "Wait", "Poll"} \/ Exiting => ~greeting

\* free_seat runs on behalf of a live session's wait only after a stop.
StopSeen == Exiting => teardown

\* The streak counts every attempt but the one under way.
Between == pc \in {"Boot", "Top", "Launch", "Backoff"}
             \/ (Freeing /\ ret = "Launch")
Counted ==
  /\ rapid < MaxRapidFailures
  /\ tries <= rapid + 1
  /\ Between => tries <= rapid

\* A daemon that ended left every point of its loop.
Fallen == ~Up => pc = "Boot"

\* While free_seat settles, nobody was merely asked.
Insisting == pc = "Settle" /\ ~hook => ~Asked

IInv ==
  /\ TypeOK /\ Returns /\ WorkerLeads /\ WorkerWhere /\ SessionWhere
  /\ OneOwner /\ NotGreeting /\ StopSeen /\ Fallen /\ Counted /\ Insisting
  /\ GreetingExcludesSession

-----------------------------------------------------------------------------
(***************************************************************************)
(* Who changes what.                                                       *)
(***************************************************************************)

\* The processes' own steps, and a PAM success, leave the daemon's loop alone.
LEMMA LoopUntouched ==
  ProcessStep \/ Authenticate \/ UNCHANGED vars => UNCHANGED doord
BY DEF ProcessStep, Authenticate, vars, WorkerForksCage, WorkerFails,
       WorkerArmsForwarder, WorkerExits, WorkerDies, CageUp, CageExits,
       CompositorUp, CompositorExits, SessionEnds, LingererExits, PastUp,
       PastOrphaned, PastExits, UiConnects, UiQuits, ForeignConnects

\* The steps of the daemon, by what they do.
Freed   == ScanSeat \/ KillStragglers \/ SettleEnds
Hooked  == HookScans \/ HookKills
Moved   == \/ EnterLoop \/ LoopTop \/ EndBackoff \/ AcceptConnection
           \/ NoticeDeadGreeter \/ AcceptFails \/ ServeEof \/ ServeDrops
           \/ RequestStart \/ TermSeesEof \/ TermGivesUp \/ LeaveGreeting
           \/ StartFails \/ WaitChecks \/ PollRunning \/ PollEnded
           \/ AccountLong \/ Panic \/ GreeterAges
Failed  == LaunchFails \/ AccountQuick
Ended   == ExitAfterTeardown \/ AbortAfterPanic \/ StopSignal \/ Killed
Handed  == \/ LaunchGreeter \/ Terminate \/ TermEscalates
           \/ StartSession \/ StartLosesSession

LEMMA Steps ==
  ASSUME [Next]_vars
  PROVE  \/ Freed \/ Hooked \/ Moved \/ Failed \/ Ended \/ Handed \/ Restart
         \/ ProcessStep \/ Authenticate \/ UNCHANGED vars
BY DEF Next, DoordStep, Freed, Hooked, Moved, Failed, Ended, Handed

\* Most steps of the loop touch no process.
LEMMA MovesNoProcess == Moved \/ Ended => UNCHANGED procs
BY DEF Moved, Ended, EnterLoop, LoopTop, EndBackoff, AcceptConnection,
       NoticeDeadGreeter, AcceptFails, ServeEof, ServeDrops, EndConnection,
       RequestStart, TermSeesEof, TermGivesUp, LeaveGreeting, StartFails,
       WaitChecks, PollRunning, PollEnded, AccountLong, Panic, GreeterAges,
       ExitAfterTeardown, AbortAfterPanic, StopSignal, Killed

-----------------------------------------------------------------------------
(***************************************************************************)
(* Types.                                                                  *)
(***************************************************************************)

\* The daemon's own state starts in its types, with no attempt counted ...
LEMMA DoordInit == Init => DoordTypeOK /\ Counted
<1>1. Init => pc \in Points /\ ret \in Points
  BY DEF Init, Points
<1>2. Init => /\ life \in Lives /\ rapid \in 0..MaxRapidFailures
              /\ tries \in 0..(MaxRapidFailures + 1)
  BY ConstantsAssumption DEF Init, Lives
<1>3. Init => Counted
  BY ConstantsAssumption DEF Init, Counted
<1> QED
  BY <1>1, <1>2, <1>3 DEF Init, DoordTypeOK

\* ... and a daemon that ends leaves it there.
LEMMA DieType ==
  ASSUME NEW how \in {"signal", "teardown", "gaveup", "panicked", "killed"},
         DoordTypeOK, Die(how)
  PROVE  DoordTypeOK' /\ Counted'
<1>1. pc' \in Points /\ ret' \in Points
  BY DEF Die, Points
<1>2. rapid' \in 0..MaxRapidFailures /\ tries' \in 0..(MaxRapidFailures + 1)
  BY ConstantsAssumption DEF Die
<1>3. Counted'
  BY ConstantsAssumption DEF Die, Counted
<1> QED
  BY <1>1, <1>2, <1>3 DEF Die, DoordTypeOK

\* ... and stays there: a counted failure stays in range only because the
\* daemon gives up at the limit, so the two facts are inductive together.
LEMMA DoordNext ==
  ASSUME DoordTypeOK, Counted, Returns, [Next]_vars
  PROVE  DoordTypeOK' /\ Counted'
<1> USE DEF DoordTypeOK, Up
<1>a. \A how \in {"signal", "teardown", "gaveup", "panicked", "killed"} :
        Die(how) => DoordTypeOK' /\ Counted'
  BY DieType
<1>1. CASE Freed
  BY <1>1 DEF Freed, ScanSeat, KillStragglers, SettleEnds, Counted, Between,
              Freeing, Returns, flags, streak, Points
<1>2. CASE Hooked
  BY <1>2 DEF Hooked, HookScans, HookKills, Counted, Between, Freeing, streak
<1>3. CASE Moved
  <2> USE DEF Counted, Between, Freeing, Returns, flags, streak
  <2>1. CASE EnterLoop \/ LoopTop \/ EndBackoff \/ AcceptConnection
    BY <2>1 DEF EnterLoop, LoopTop, EndBackoff, AcceptConnection, Points
  <2>2. CASE \/ NoticeDeadGreeter \/ AcceptFails \/ ServeEof \/ ServeDrops
             \/ RequestStart
    BY <2>2 DEF NoticeDeadGreeter, AcceptFails, ServeEof, ServeDrops,
                EndConnection, RequestStart, LeaveVia, Points
  <2>3. CASE TermSeesEof \/ TermGivesUp \/ LeaveGreeting
    BY <2>3 DEF TermSeesEof, TermGivesUp, LeaveGreeting, Points
  <2>4. CASE StartFails \/ WaitChecks \/ PollRunning \/ PollEnded
    BY <2>4 DEF StartFails, WaitChecks, PollRunning, PollEnded, LeaveVia,
                Points
  <2>5. CASE AccountLong
    BY <2>5, ConstantsAssumption DEF AccountLong, Points
  <2>6. CASE Panic
    BY <2>6 DEF Panic, Points
  <2>7. CASE GreeterAges
    BY <2>7 DEF GreeterAges
  <2> QED
    BY <2>6, <2>7, <1>3, <2>1, <2>2, <2>3, <2>4, <2>5 DEF Moved
<1>4. CASE LaunchFails
  <2>1. CASE rapid + 1 >= MaxRapidFailures
    BY <1>4, <2>1, <1>a DEF LaunchFails
  <2>2. CASE ~(rapid + 1 >= MaxRapidFailures)
    <3>1. /\ pc' = "Backoff" /\ rapid' = rapid + 1
          /\ UNCHANGED <<ret, down, life, greeting, teardown, young, hook>>
          /\ tries' = IF tries > MaxRapidFailures THEN tries ELSE tries + 1
      BY <1>4, <2>2 DEF LaunchFails, Attempt
    <3>2. pc = "Launch" /\ tries <= rapid
      BY <1>4 DEF LaunchFails, Counted, Between
    <3> QED
      BY <3>1, <3>2, <2>2, ConstantsAssumption DEF Counted, Between, Freeing,
                                              Points
  <2> QED
    BY <2>1, <2>2
<1>5. CASE AccountQuick
  <2>1. CASE rapid + 1 >= MaxRapidFailures
    BY <1>5, <2>1, <1>a DEF AccountQuick
  <2>2. CASE ~(rapid + 1 >= MaxRapidFailures)
    <3>1. /\ pc' = "Backoff" /\ rapid' = rapid + 1
          /\ UNCHANGED <<ret, down, life, greeting, teardown, young, tries>>
          /\ UNCHANGED hook
      BY <1>5, <2>2 DEF AccountQuick
    <3> QED
      BY <3>1, <2>2, ConstantsAssumption DEF Counted, Between, Freeing,
                                              Points
  <2> QED
    BY <2>1, <2>2
<1>6. CASE Ended
  <2>1. CASE StopSignal /\ ~(pc = "Boot" \/ greeting)
    BY <2>1 DEF StopSignal, Counted, Between, Freeing, streak
  <2> QED
    BY <1>6, <2>1, <1>a DEF Ended, ExitAfterTeardown, AbortAfterPanic,
         StopSignal, Killed
<1>7. CASE Handed
  <2> USE DEF Counted, Between, Freeing, Returns, flags, streak
  <2>1. CASE LaunchGreeter
    BY <2>1, ConstantsAssumption DEF LaunchGreeter, Attempt, Points
  <2>2. CASE Terminate \/ TermEscalates
    BY <2>2 DEF Terminate, TermEscalates, Points
  <2>3. CASE StartSession \/ StartLosesSession
    BY <2>3 DEF StartSession, StartLosesSession, Launched, LeaveVia, Points
  <2> QED
    BY <1>7, <2>1, <2>2, <2>3 DEF Handed
<1>8. CASE Restart
  BY <1>8, ConstantsAssumption DEF Restart, Lives, Counted, Between, Freeing, flags, streak
<1>9. CASE ProcessStep \/ Authenticate \/ UNCHANGED vars
  BY <1>9, LoopUntouched DEF doord, Counted, Between, Freeing, flags, streak
<1> QED
  BY <1>1, <1>2, <1>3, <1>4, <1>5, <1>6, <1>7, <1>8, <1>9, Steps DEF Failed

\* Marking the connections of a dead UI keeps the backlog a queue.
LEMMA StaleType ==
  ASSUME NEW queue \in Seq(Channel)
  PROVE  Stale(queue) \in Seq(Channel)
BY DEF Stale, Channel

\* The connection state starts in its types ...
LEMMA LinkInit == Init => LinkTypeOK
<1>1. Init => backlog \in Seq(Channel)
  BY DEF Init
<1> QED
  BY <1>1 DEF Init, LinkTypeOK

\* ... and stays there.
LEMMA LinkNext ==
  ASSUME LinkTypeOK, [Next]_vars
  PROVE  LinkTypeOK'
<1> USE DEF LinkTypeOK
<1>a. \A how : Die(how) => LinkTypeOK'
  <2>1. <<>> \in Seq(Channel)
    OBVIOUS
  <2> QED
    BY <2>1 DEF Die
<1>1. CASE LaunchGreeter \/ UiQuits \/ CageExits
  BY <1>1, StaleType DEF LaunchGreeter, UiQuits, CageExits
<1>2. CASE AcceptConnection
  <2>1. Head(backlog) \in Channel /\ Tail(backlog) \in Seq(Channel)
    BY <1>2 DEF AcceptConnection
  <2> QED
    BY <1>2, <2>1 DEF AcceptConnection
<1>3. CASE UiConnects \/ ForeignConnects
  <2>1. Append(backlog, "greeter") \in Seq(Channel)
        /\ Append(backlog, "foreign") \in Seq(Channel)
    BY DEF Channel
  <2> QED
    BY <1>3, <2>1 DEF UiConnects, ForeignConnects
<1>4. CASE \/ ServeEof \/ ServeDrops \/ StartFails \/ PollEnded
           \/ StartLosesSession \/ StartSession \/ Authenticate
  BY <1>4 DEF ServeEof, ServeDrops, EndConnection, StartFails, PollEnded,
              StartLosesSession, StartSession, Launched, Authenticate
<1>5. CASE Restart
  BY <1>5 DEF Restart
<1>6. CASE Failed \/ Ended
  BY <1>6, <1>a DEF Failed, Ended, LaunchFails, AccountQuick, StopSignal,
       ExitAfterTeardown, AbortAfterPanic, Killed, link
<1>7. CASE UNCHANGED link
  BY <1>7 DEF link
<1> QED
  BY <1>1, <1>2, <1>3, <1>4, <1>5, <1>6, <1>7, Steps
  DEF Freed, Hooked, Moved, Handed, ProcessStep, vars, EnterLoop, LoopTop,
      ScanSeat, KillStragglers, SettleEnds, HookScans, HookKills, EndBackoff,
      NoticeDeadGreeter, AcceptFails, RequestStart, Terminate, TermSeesEof,
      TermEscalates, TermGivesUp, LeaveGreeting, WaitChecks, PollRunning,
      AccountLong, Panic, GreeterAges, WorkerForksCage, WorkerFails,
      WorkerArmsForwarder, WorkerExits, WorkerDies, CageUp, CompositorUp,
      CompositorExits, SessionEnds, LingererExits, PastUp, PastOrphaned,
      PastExits

\* The processes start in their types ...
LEMMA ProcsInit == Init => ProcsTypeOK
BY DEF Init, ProcsTypeOK, Worker, Compositor, Session

\* ... and stay there.
LEMMA ProcsNext ==
  ASSUME ProcsTypeOK, [Next]_vars
  PROVE  ProcsTypeOK'
<1> USE DEF ProcsTypeOK, Worker, Compositor, Session
<1>1. CASE Freed \/ Hooked
  BY <1>1 DEF Freed, Hooked, ScanSeat, KillStragglers, SettleEnds, HookScans,
              HookKills, TellHolders, KillHolders, Told, Doomed, procs
<1>2. CASE Moved \/ Ended
  BY <1>2, MovesNoProcess DEF procs
<1>3. CASE Failed
  BY <1>3 DEF Failed, LaunchFails, AccountQuick, Leave, procs
<1>4. CASE LaunchGreeter \/ StartSession \/ StartLosesSession
  BY <1>4 DEF LaunchGreeter, StartSession, StartLosesSession, Launched, Leave
<1>5. CASE Terminate \/ TermEscalates
  BY <1>5 DEF Terminate, TermEscalates, SignalWorker, Told
<1>6. CASE Restart
  BY <1>6 DEF Restart, Leave
<1>7. CASE ProcessStep
  BY <1>7 DEF ProcessStep, WorkerForksCage, WorkerFails, WorkerArmsForwarder,
       WorkerExits, WorkerDies, Orphaned, CageUp, CageExits, CompositorUp,
       CompositorExits, SessionEnds, LingererExits, PastUp, PastOrphaned,
       PastExits, UiConnects, UiQuits, ForeignConnects, procs
<1>8. CASE Authenticate \/ UNCHANGED vars
  BY <1>8 DEF Authenticate, vars, procs
<1> QED
  BY <1>1, <1>2, <1>3, <1>4, <1>5, <1>6, <1>7, <1>8, Steps DEF Handed

-----------------------------------------------------------------------------
(***************************************************************************)
(* Every invariant at once.                                                *)
(***************************************************************************)
LEMMA IInvInit == Init => IInv
<1> SUFFICES ASSUME Init PROVE IInv
  OBVIOUS
<1>1. TypeOK /\ Counted
  BY DoordInit, LinkInit, ProcsInit DEF TypeOK
<1>2. Returns /\ NotGreeting /\ StopSeen /\ Fallen /\ Insisting
  BY DEF Init, Returns, NotGreeting, StopSeen, Fallen, Insisting, Freeing,
         Exiting, Up
<1>3. /\ WorkerLeads /\ WorkerWhere /\ SessionWhere /\ OneOwner
      /\ GreetingExcludesSession
  BY DEF Init, WorkerLeads, WorkerWhere, SessionWhere, OneOwner, Watched,
         Alive, GreetingExcludesSession
<1> QED
  BY <1>1, <1>2, <1>3 DEF IInv

\* The daemon's control: where free_seat and terminate return to, and what
\* GREETING and TEARDOWN are while a session is started, awaited or cleared.
LEMMA ControlNext ==
  ASSUME Returns, NotGreeting, StopSeen, Fallen, [Next]_vars
  PROVE  Returns' /\ NotGreeting' /\ StopSeen' /\ Fallen'
<1> USE DEF Returns, NotGreeting, StopSeen, Fallen, Freeing, Exiting, Up, flags
<1>a. \A how : Die(how) => Returns' /\ NotGreeting' /\ StopSeen' /\ Fallen'
  BY DEF Die
<1>1. CASE Freed \/ Hooked
  BY <1>1 DEF Freed, Hooked, ScanSeat, KillStragglers, SettleEnds, HookScans,
              HookKills
<1>2. CASE Moved
  <2>1. CASE EnterLoop \/ LoopTop \/ EndBackoff \/ AcceptConnection
    BY <2>1 DEF EnterLoop, LoopTop, EndBackoff, AcceptConnection
  <2>2. CASE \/ NoticeDeadGreeter \/ AcceptFails \/ ServeEof \/ ServeDrops
             \/ RequestStart
    BY <2>2 DEF NoticeDeadGreeter, AcceptFails, ServeEof, ServeDrops,
                EndConnection, RequestStart, LeaveVia
  <2>3. CASE TermSeesEof \/ TermGivesUp \/ LeaveGreeting
    BY <2>3 DEF TermSeesEof, TermGivesUp, LeaveGreeting
  <2>4. CASE StartFails \/ WaitChecks \/ PollRunning \/ PollEnded
    BY <2>4 DEF StartFails, WaitChecks, PollRunning, PollEnded, LeaveVia
  <2>5. CASE AccountLong \/ Panic \/ GreeterAges
    BY <2>5 DEF AccountLong, Panic, GreeterAges
  <2> QED
    BY <1>2, <2>1, <2>2, <2>3, <2>4, <2>5 DEF Moved
<1>3. CASE Failed
  BY <1>3, <1>a DEF Failed, LaunchFails, AccountQuick
<1>4. CASE Ended
  BY <1>4, <1>a DEF Ended, ExitAfterTeardown, AbortAfterPanic, StopSignal,
       Killed
<1>5. CASE Handed
  BY <1>5 DEF Handed, LaunchGreeter, Terminate, TermEscalates, StartSession,
       StartLosesSession, Launched, LeaveVia
<1>6. CASE Restart
  BY <1>6 DEF Restart
<1>7. CASE ProcessStep \/ Authenticate \/ UNCHANGED vars
  BY <1>7, LoopUntouched DEF doord
<1> QED
  BY <1>1, <1>2, <1>3, <1>4, <1>5, <1>6, <1>7, Steps

\* The processes: which worker, compositor and session can be alive where, and
\* who was merely asked while free_seat settles.
LEMMA ProcessesNext ==
  ASSUME IInv, TypeOK', [Next]_vars
  PROVE  /\ WorkerLeads' /\ WorkerWhere' /\ SessionWhere' /\ OneOwner'
         /\ GreetingExcludesSession' /\ Insisting'
<1> DEFINE Goal == /\ WorkerLeads /\ WorkerWhere /\ SessionWhere /\ OneOwner
                   /\ GreetingExcludesSession /\ Insisting
<1>0. /\ gw \in Worker /\ cage \in Compositor /\ sess \in Session
      /\ comp \in Compositor /\ past \in Compositor
      /\ Goal /\ Returns /\ NotGreeting /\ Fallen
  BY DEF IInv, TypeOK, ProcsTypeOK
<1> USE <1>0 DEF Worker, Compositor, Session, WorkerLeads, WorkerWhere,
        SessionWhere, OneOwner, GreetingExcludesSession, Insisting, Asked,
        Watched, Alive, Returns, NotGreeting, Freeing, Aborting, Exiting, Up
<1>a. ASSUME NEW how, how # "no", Die(how), UNCHANGED <<gw, cage, sess>>
      PROVE  Goal'
  BY <1>a DEF Die
<1>1. CASE Freed
  BY <1>1 DEF Freed, ScanSeat, KillStragglers, SettleEnds, TellHolders,
       KillHolders, Told, Doomed, HoldsCard, CardHeld, flags, procs
<1>2. CASE Hooked
  BY <1>2 DEF Hooked, HookScans, HookKills, TellHolders, KillHolders, Told,
       Doomed, HoldsCard
<1>3. CASE Moved
  <2>0. UNCHANGED <<gw, cage, sess, comp, past>>
    BY <1>3, MovesNoProcess DEF procs
  <2>1. CASE EnterLoop \/ LoopTop \/ EndBackoff \/ AcceptConnection
    BY <2>0, <2>1 DEF EnterLoop, LoopTop, EndBackoff, AcceptConnection, flags
  <2>2. CASE \/ NoticeDeadGreeter \/ AcceptFails \/ ServeEof \/ ServeDrops
             \/ RequestStart
    BY <2>0, <2>2 DEF NoticeDeadGreeter, AcceptFails, ServeEof, ServeDrops,
         EndConnection, RequestStart, LeaveVia, flags
  <2>3. CASE TermSeesEof \/ TermGivesUp \/ LeaveGreeting
    BY <2>0, <2>3 DEF TermSeesEof, TermGivesUp, LeaveGreeting, flags
  <2>4. CASE StartFails \/ WaitChecks \/ PollRunning \/ PollEnded
    BY <2>0, <2>4 DEF StartFails, WaitChecks, PollRunning, PollEnded,
         LeaveVia, flags
  <2>5. CASE AccountLong \/ Panic \/ GreeterAges
    BY <2>0, <2>5 DEF AccountLong, Panic, GreeterAges, flags
  <2> QED
    BY <1>3, <2>1, <2>2, <2>3, <2>4, <2>5 DEF Moved
<1>4. CASE Failed
  BY <1>4, <1>a DEF Failed, LaunchFails, AccountQuick, procs
<1>5. CASE Ended
  BY <1>5, <1>a, MovesNoProcess
  DEF Ended, ExitAfterTeardown, AbortAfterPanic, StopSignal, Killed, procs
<1>6. CASE LaunchGreeter
  BY <1>6 DEF LaunchGreeter
<1>7. CASE Terminate \/ TermEscalates
  BY <1>7 DEF Terminate, TermEscalates, SignalWorker, Told, flags
<1>8. CASE StartSession \/ StartLosesSession
  BY <1>8 DEF StartSession, StartLosesSession, Launched, LeaveVia, flags
<1>9. CASE Restart
  BY <1>9 DEF Restart, Fallen, flags
<1>10. CASE ProcessStep
  <2>1. UNCHANGED <<pc, ret, down, greeting, hook>>
    BY <1>10, LoopUntouched DEF doord, flags
  <2> QED
    BY <1>10, <2>1 DEF ProcessStep, WorkerForksCage, WorkerFails,
       WorkerArmsForwarder, WorkerExits, WorkerDies, Orphaned, HoldsCard,
       CageUp, CageExits, CompositorUp, CompositorExits, SessionEnds,
       LingererExits, PastUp, PastOrphaned, PastExits, UiConnects, UiQuits,
       ForeignConnects, procs
<1>11. CASE Authenticate \/ UNCHANGED vars
  BY <1>11 DEF Authenticate, vars, doord, flags, procs
<1> QED
  BY <1>1, <1>2, <1>3, <1>4, <1>5, <1>6, <1>7, <1>8, <1>9, <1>10, <1>11,
     Steps DEF Handed

LEMMA IInvNext == IInv /\ [Next]_vars => IInv'
<1> SUFFICES ASSUME IInv, [Next]_vars PROVE IInv'
  OBVIOUS
<1>1. TypeOK' /\ Counted'
  BY DoordNext, LinkNext, ProcsNext DEF IInv, TypeOK
<1>2. Returns' /\ NotGreeting' /\ StopSeen' /\ Fallen'
  BY ControlNext DEF IInv
<1>3. /\ WorkerLeads' /\ WorkerWhere' /\ SessionWhere' /\ OneOwner'
      /\ GreetingExcludesSession' /\ Insisting'
  BY <1>1, ProcessesNext
<1> QED
  BY <1>1, <1>2, <1>3 DEF IInv

\* The strengthening holds in every reachable state.
THEOREM Invariance == Spec => []IInv
BY IInvInit, IInvNext, PTL DEF Spec

-----------------------------------------------------------------------------
(***************************************************************************)
(* The results.                                                            *)
(***************************************************************************)

\* Every variable keeps its type, whatever the limits are.
THEOREM TypeCorrect == Spec => []TypeOK
<1>1. IInv => TypeOK
  BY DEF IInv
<1> QED
  BY <1>1, Invariance, PTL

\* run_start asks for the session only once the greeter has ended or is under
\* SIGKILL, and no worker comes back before the session is over.
THEOREM HandoffSafe == Spec => []GreeterDoomedAtHandoff
<1>1. IInv => GreeterDoomedAtHandoff
  <2> SUFFICES ASSUME IInv, pc \in {"Start", "Wait", "Poll"}
               PROVE  \/ gw = "killed"
                      \/ gw = "none" /\ cage \in {"none", "killed"}
    BY DEF GreeterDoomedAtHandoff
  <2>1. Up
    BY DEF IInv, Fallen
  <2>2. ~Alive
    BY <2>1 DEF IInv, WorkerWhere, Aborting, Freeing
  <2> QED
    BY <2>2 DEF IInv, WorkerLeads, TypeOK, ProcsTypeOK, Worker, Alive
<1> QED
  BY <1>1, Invariance, PTL

\* The signal handler never takes a daemon that watches a session for one at
\* the greeter.
THEOREM SignalSafe == Spec => []GreetingExcludesSession
<1>1. IInv => GreetingExcludesSession
  BY DEF IInv
<1> QED
  BY <1>1, Invariance, PTL

\* Whichever way greeters fail, no life of the daemon attempts more than
\* GREETER_MAX_RAPID_FAILURES of them in a row.
THEOREM StreakBounded == Spec => []AttemptsBounded
<1>1. IInv => AttemptsBounded
  BY ConstantsAssumption
  DEF IInv, Counted, AttemptsBounded, TypeOK, DoordTypeOK
<1> QED
  BY <1>1, Invariance, PTL

\* When free_seat returns, nobody has the card whom it only asked to go.
THEOREM SeatInsisted == Spec => FreeSeatInsists
<1> DEFINE Returned == Freeing /\ pc' = ret /\ ~hook
<1>1. IInv /\ [Next]_vars => [Returned => ~Asked']_vars
  <2> SUFFICES ASSUME IInv, [Next]_vars, Returned
               PROVE  ~Asked'
    OBVIOUS
  <2>1. ret \in {"Launch", "Exit", "Abort"} /\ pc' = ret /\ ~hook
    BY DEF IInv, Returns
  <2> USE DEF Asked
  <2>2. CASE ScanSeat \/ KillStragglers
    BY <2>1, <2>2 DEF ScanSeat, KillStragglers, TellHolders, KillHolders,
         Told, Doomed, HoldsCard, CardHeld
  <2>3. CASE SettleEnds
    BY <2>1, <2>3 DEF SettleEnds, IInv, Insisting, procs
  <2>4. ASSUME pc' \in {pc, "Boot"}
        PROVE  FALSE
    BY <2>1, <2>4 DEF Freeing
  <2>5. CASE Failed \/ Ended \/ Hooked \/ Restart
    BY <2>1, <2>4, <2>5 DEF Failed, LaunchFails, AccountQuick, Ended,
         ExitAfterTeardown, AbortAfterPanic, StopSignal, Killed, Die, Hooked,
         HookScans, HookKills, Restart, Freeing
  <2>6. CASE ProcessStep \/ Authenticate \/ UNCHANGED vars
    BY <2>4, <2>6, LoopUntouched DEF doord
  <2>7. CASE Moved \/ Handed
    BY <2>1, <2>4, <2>7 DEF Moved, Handed, Freeing, EnterLoop, LoopTop,
         LaunchGreeter, EndBackoff, AcceptConnection, NoticeDeadGreeter,
         AcceptFails, ServeEof, ServeDrops, EndConnection, RequestStart,
         Terminate, TermSeesEof, TermEscalates, TermGivesUp, LeaveGreeting,
         StartSession, StartLosesSession, Launched, StartFails, WaitChecks,
         PollRunning, PollEnded, AccountLong, Panic, GreeterAges
  <2> QED
    BY <2>2, <2>3, <2>5, <2>6, <2>7, Steps DEF Freed
<1> QED
  BY <1>1, Invariance, PTL DEF Spec, FreeSeatInsists

\* Only a stop, or a panic of a thread of the daemon, takes the card from the
\* compositor of a session that runs and is watched.
THEOREM SessionSpared == Spec => LiveSessionSpared
<1> DEFINE Robbed == sess = "running" /\ comp = "up" /\ comp' = "term"
           Spared == Robbed => teardown \/ ret = "Abort" \/ hook' # hook
<1>1. IInv /\ [Next]_vars => [Spared]_vars
  <2> SUFFICES ASSUME IInv, [Next]_vars, Robbed
               PROVE  teardown \/ ret = "Abort" \/ hook' # hook
    OBVIOUS
  <2>1. CASE ScanSeat
    <3>1. Exiting \/ Aborting
      BY <2>1 DEF IInv, SessionWhere, Watched, ScanSeat
    <3> QED
      BY <2>1, <3>1 DEF ScanSeat, IInv, StopSeen, Aborting
  <2>2. CASE HookScans
    BY <2>2 DEF HookScans
  <2>3. CASE KillStragglers \/ HookKills
    BY <2>3 DEF KillStragglers, HookKills, KillHolders, Doomed, HoldsCard
  <2>4. CASE \/ SettleEnds \/ Failed \/ Handed \/ Restart \/ ProcessStep
             \/ Authenticate \/ UNCHANGED vars
    BY <2>4 DEF SettleEnds, Failed, LaunchFails, AccountQuick, Handed,
         LaunchGreeter, Terminate, TermEscalates, StartSession,
         StartLosesSession, Launched, Restart, ProcessStep, WorkerForksCage,
         WorkerFails, WorkerArmsForwarder, WorkerExits, WorkerDies, CageUp,
         CageExits, CompositorUp, CompositorExits, SessionEnds,
         LingererExits, PastUp, PastOrphaned, PastExits, UiConnects, UiQuits,
         ForeignConnects, Authenticate, vars, procs
  <2>5. CASE Moved \/ Ended
    BY <2>5, MovesNoProcess DEF procs
  <2> QED
    BY <2>1, <2>2, <2>3, <2>4, <2>5, Steps DEF Freed, Hooked
<1> QED
  BY <1>1, Invariance, PTL DEF Spec, LiveSessionSpared

-----------------------------------------------------------------------------
(***************************************************************************)
(* The implementation of SeatOwner.                                        *)
(***************************************************************************)

\* Nobody owns the seat at first.
LEMMA SeatInit == Init => Seat!Init
BY DEF Init, Seat!Init, SeatOwnerOf

\* Every step of the loop takes, leaves or releases the seat.
LEMMA SeatStep == IInv /\ [Next]_vars => [Seat!Next]_SeatOwnerOf
<1> SUFFICES ASSUME IInv, [Next]_vars
             PROVE  \/ /\ SeatOwnerOf = "nobody"
                       /\ SeatOwnerOf' \in {"greeter", "session"}
                    \/ SeatOwnerOf # "nobody" /\ SeatOwnerOf' = "nobody"
                    \/ SeatOwnerOf' = SeatOwnerOf
  BY DEF Seat!Next, Seat!Greet, Seat!LogIn, Seat!Release
<1>0. OneOwner /\ OneOwner' /\ gw \in Worker /\ sess \in Session
  BY IInvNext DEF IInv, TypeOK, ProcsTypeOK
<1> USE <1>0 DEF SeatOwnerOf, OneOwner, Watched, Alive, Worker, Session
<1>1. CASE LaunchGreeter
  BY <1>1 DEF LaunchGreeter, IInv, SessionWhere, WorkerWhere, Exiting,
              Aborting, Freeing, Up
<1>2. CASE StartSession \/ StartLosesSession
  BY <1>2 DEF StartSession, StartLosesSession, Launched, IInv, SessionWhere,
              WorkerWhere, Exiting, Aborting, Freeing, Up
<1>3. CASE Terminate \/ TermEscalates
  BY <1>3 DEF Terminate, TermEscalates, SignalWorker
<1>4. CASE Restart
  BY <1>4 DEF Restart
<1>5. CASE ProcessStep
  BY <1>5 DEF ProcessStep, WorkerForksCage, WorkerFails, WorkerArmsForwarder,
       WorkerExits, WorkerDies, CageUp, CageExits, CompositorUp,
       CompositorExits, SessionEnds, LingererExits, PastUp, PastOrphaned,
       PastExits, UiConnects, UiQuits, ForeignConnects, procs
<1>6. CASE Freed \/ Hooked \/ Failed \/ Authenticate \/ UNCHANGED vars
  BY <1>6 DEF Freed, Hooked, ScanSeat, KillStragglers, SettleEnds, HookScans,
       HookKills, Failed, LaunchFails, AccountQuick, Authenticate, vars, procs
<1>7. CASE Moved \/ Ended
  BY <1>7, MovesNoProcess DEF procs
<1> QED
  BY <1>1, <1>2, <1>3, <1>4, <1>5, <1>6, <1>7, Steps DEF Handed

\* The login loop implements SeatOwner: a greeter and a session the daemon knows
\* of never have the seat together, and it is vacant between them.
THEOREM ImplementsSeatOwner == Spec => GrantsSeatProperly
BY SeatInit, SeatStep, Invariance, PTL DEF Spec, GrantsSeatProperly, Seat!Spec

==============================================================================
