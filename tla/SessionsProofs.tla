---------------------------- MODULE SessionsProofs ----------------------------
(***************************************************************************)
(* Proofs about Sessions, for every set of ids, every number of roots and  *)
(* every number of changes: the types, that what is there all along is     *)
(* found, and that what is started is what was offered.                    *)
(***************************************************************************)
EXTENDS Sessions, TLAPS

LEMMA DirsNatural ==
  /\ \A d \in Dirs : /\ d \in Nat /\ d >= 1 /\ d < 2 * Roots + 1
                     /\ d + 1 \in 0..(2 * Roots + 1)
  /\ 2 * Roots + 1 \in Nat /\ 2 * Roots + 1 # 0
  /\ {0, 1} \subseteq 0..(2 * Roots + 1) /\ 0 \in 0..MaxChanges
BY SessionsAssumption DEF Dirs

-----------------------------------------------------------------------------
(* Types.                                                                  *)

LEMMA TypeInit == Init => TypeOK
<1> SUFFICES ASSUME Init PROVE TypeOK
  OBVIOUS
<1>1. disk \in [Dirs -> [Ids -> Entries]]
  BY DEF Init
<1> QED
  BY <1>1, DirsNatural DEF Init, TypeOK

LEMMA TypeNext == TypeOK /\ [Next]_vars => TypeOK'
<1> SUFFICES ASSUME TypeOK, [Next]_vars PROVE TypeOK'
  OBVIOUS
<1>1. CASE ListSessions
  BY <1>1, DirsNatural DEF ListSessions, Begins, TypeOK
<1>2. CASE Start
  BY <1>2, DirsNatural DEF Start, Begins, TypeOK, Sessions
<1>3. CASE Scan
  <2> DEFINE new == {[id |-> i, dir |-> scan, runs |-> disk[scan][i]] :
                       i \in {j \in Ids : /\ Searched(scan)
                                          /\ Startable(scan, j)
                                          /\ \A s \in found : s.id # j}}
  <2>1. /\ scan \in Dirs /\ scan' = scan + 1 /\ found' = found \cup new
        /\ UNCHANGED <<allow_x11, disk, want, shown, started, changes, steady,
                       stale>>
    BY <1>3 DEF Scan, Following
  <2>2. \A i \in Ids : disk[scan][i] \in Entries
    BY <2>1 DEF TypeOK
  <2>3. new \subseteq Sessions
    BY <2>1, <2>2 DEF Sessions
  <2>4. scan' \in 0..(2 * Roots + 1)
    BY <2>1, DirsNatural DEF TypeOK
  <2> HIDE DEF new
  <2> QED
    BY <2>1, <2>3, <2>4 DEF TypeOK
<1>4. CASE Answer
  BY <1>4, DirsNatural DEF Answer, TypeOK
<1>5. CASE Launch
  BY <1>5, DirsNatural DEF Launch, TypeOK
<1>6. CASE Change
  <2>1. /\ changes' \in 0..MaxChanges /\ stale' = TRUE
        /\ UNCHANGED <<allow_x11, scan, want, found, shown, started>>
    BY <1>6, SessionsAssumption DEF Change, TypeOK
  <2>2. PICK d \in Dirs, i \in Ids, e \in Entries :
          /\ disk' = [disk EXCEPT ![d][i] = e]
          /\ steady' = steady \ {<<d, i>>}
    BY <1>6 DEF Change
  <2>3. disk' \in [Dirs -> [Ids -> Entries]]
    BY <2>2 DEF TypeOK
  <2> QED
    BY <2>1, <2>2, <2>3 DEF TypeOK
<1>7. CASE UNCHANGED vars
  BY <1>7 DEF vars, TypeOK
<1> QED
  BY <1>1, <1>2, <1>3, <1>4, <1>5, <1>6, <1>7 DEF Next

-----------------------------------------------------------------------------
(* What the scan has passed.                                               *)

Fit(d, i) == Searched(d) /\ Startable(d, i)

\* In the directories behind the scan, what has not changed is found, there
\* or earlier, and each id once.
Passed ==
  scan # 0 =>
    /\ \A d \in Dirs, i \in Ids :
         <<d, i>> \in steady /\ d < scan /\ Fit(d, i) =>
           \E s \in found : s.id = i /\ s.dir <= d
    /\ \A s \in found : s.dir < scan
    /\ \A s, t \in found : s.id = t.id => s = t

LEMMA PassedNext == TypeOK /\ Passed /\ [Next]_vars => Passed'
<1> SUFFICES ASSUME TypeOK, Passed, [Next]_vars PROVE Passed'
  OBVIOUS
<1>1. CASE ListSessions \/ Start
  <2>1. scan' = 1 /\ found' = {}
    BY <1>1 DEF ListSessions, Start, Begins
  <2> QED
    BY <2>1, DirsNatural DEF Passed
<1>2. CASE Scan
  <2> DEFINE new == {[id |-> i, dir |-> scan, runs |-> disk[scan][i]] :
                       i \in {j \in Ids : /\ Searched(scan)
                                          /\ Startable(scan, j)
                                          /\ \A s \in found : s.id # j}}
  <2>1. /\ scan \in Dirs /\ scan' = scan + 1 /\ found' = found \cup new
        /\ UNCHANGED <<allow_x11, disk, steady>>
    BY <1>2 DEF Scan, Following
  <2>2. scan \in Nat /\ scan # 0 /\ \A d \in Dirs : d \in Nat
    BY <2>1, DirsNatural
  <2>3. \A d \in Dirs, i \in Ids : Fit(d, i)' <=> Fit(d, i)
    BY <2>1 DEF Fit, Searched, Startable
  <2>4. \A s \in new : s.dir = scan /\ s.id \in Ids
                       /\ \A t \in found : t.id # s.id
    OBVIOUS
  <2>5. \A i \in Ids : Fit(scan, i) =>
          \E s \in found' : s.id = i /\ s.dir <= scan
    <3> SUFFICES ASSUME NEW i \in Ids, Fit(scan, i)
                 PROVE  \E s \in found' : s.id = i /\ s.dir <= scan
      OBVIOUS
    <3>1. CASE \E s \in found : s.id = i
      <4>1. PICK s \in found : s.id = i
        BY <3>1
      <4>2. s.dir < scan /\ s.dir \in Nat
        BY <2>2, <4>1 DEF Passed, TypeOK, Sessions
      <4> QED
        BY <2>1, <2>2, <4>1, <4>2
    <3>2. CASE \A s \in found : s.id # i
      <4>1. [id |-> i, dir |-> scan, runs |-> disk[scan][i]] \in new
        BY <3>2 DEF Fit
      <4> HIDE DEF new
      <4> QED
        BY <2>1, <2>2, <4>1
    <3> QED
      BY <3>1, <3>2
  <2>6. \A s, t \in new : s.id = t.id => s = t
    OBVIOUS
  <2> HIDE DEF new
  <2>7. \A d \in Dirs, i \in Ids :
          <<d, i>> \in steady' /\ d < scan' /\ Fit(d, i)' =>
            \E s \in found' : s.id = i /\ s.dir <= d
    <3> SUFFICES ASSUME NEW d \in Dirs, NEW i \in Ids, <<d, i>> \in steady,
                        d < scan + 1, Fit(d, i)
                 PROVE  \E s \in found' : s.id = i /\ s.dir <= d
      BY <2>1, <2>3
    <3>1. CASE d = scan
      BY <2>5, <3>1
    <3>2. CASE d < scan
      BY <2>1, <2>2, <3>2 DEF Passed
    <3> QED
      BY <2>2, <3>1, <3>2
  <2>8. \A s \in found' : s.dir < scan'
    <3>1. \A s \in found : s.dir < scan /\ s.dir \in Nat
      BY <2>2 DEF Passed, TypeOK, Sessions
    <3> QED
      BY <2>1, <2>2, <2>4, <3>1
  <2>9. \A s, t \in found' : s.id = t.id => s = t
    BY <2>1, <2>2, <2>4, <2>6 DEF Passed
  <2> QED
    BY <2>7, <2>8, <2>9 DEF Passed
<1>3. CASE Answer \/ Launch
  BY <1>3 DEF Answer, Launch, Passed
<1>4. CASE Change
  <2>1. PICK d \in Dirs, i \in Ids, e \in Entries :
          /\ disk' = [disk EXCEPT ![d][i] = e]
          /\ steady' = steady \ {<<d, i>>}
    BY <1>4 DEF Change
  <2>2. UNCHANGED <<allow_x11, scan, found>>
    BY <1>4 DEF Change
  <2>3. \A c \in Dirs, j \in Ids : <<c, j>> \in steady' =>
          <<c, j>> \in steady /\ disk'[c][j] = disk[c][j]
    <3> SUFFICES ASSUME NEW c \in Dirs, NEW j \in Ids, <<c, j>> \in steady'
                 PROVE  <<c, j>> \in steady /\ disk'[c][j] = disk[c][j]
      OBVIOUS
    <3>1. <<c, j>> \in steady /\ (c # d \/ j # i)
      BY <2>1
    <3> QED
      BY <2>1, <3>1 DEF TypeOK
  <2>4. \A c \in Dirs, j \in Ids :
          <<c, j>> \in steady' /\ Fit(c, j)' => Fit(c, j)
    BY <2>2, <2>3 DEF Fit, Searched, Startable
  <2> QED
    BY <2>2, <2>3, <2>4 DEF Passed
<1>5. CASE UNCHANGED vars
  BY <1>5 DEF vars, Passed, Fit, Searched, Startable
<1> QED
  BY <1>1, <1>2, <1>3, <1>4, <1>5 DEF Next

LEMMA PassedFinds == TypeOK /\ Passed => SteadySessionsFound
<1> SUFFICES ASSUME TypeOK, Passed, Scanned PROVE
      /\ \A p \in steady : (Searched(p[1]) /\ Startable(p[1], p[2])) =>
           \E s \in found : s.id = p[2] /\ s.dir <= p[1]
      /\ \A s, t \in found : s.id = t.id => s = t
  BY DEF SteadySessionsFound
<1>1. scan # 0 /\ \A d \in Dirs : d < scan
  BY DirsNatural DEF Scanned
<1>2. ASSUME NEW p \in steady, Searched(p[1]), Startable(p[1], p[2])
      PROVE  \E s \in found : s.id = p[2] /\ s.dir <= p[1]
  <2>1. p[1] \in Dirs /\ p[2] \in Ids /\ p = <<p[1], p[2]>>
    BY DEF TypeOK, Places
  <2> QED
    BY <1>1, <1>2, <2>1 DEF Passed, Fit
<1> QED
  BY <1>1, <1>2 DEF Passed

-----------------------------------------------------------------------------
(* What a scan of entries that do not change finds.                        *)

Session(d, i) == [id |-> i, dir |-> d, runs |-> disk[d][i]]

\* The first directory with a session of that id is the one that offers it.
First(d, i) == Fit(d, i) /\ \A c \in Dirs : c < d => ~Fit(c, i)
Best(n) == {s \in Sessions : /\ s.dir < n /\ First(s.dir, s.id)
                             /\ s = Session(s.dir, s.id)}
Full == Best(2 * Roots + 1)

\* While nothing changes, scans find the first of each id, and a start is of
\* an id that was offered.
Offered ==
  ~stale =>
    /\ scan # 0 => steady = Places /\ found = Best(scan)
    /\ want # "list" => shown = Full /\ \E s \in shown : s.id = want
    /\ scan = 0 /\ want # "list" => started = {s \in shown : s.id = want}
    /\ scan = 0 /\ want = "list" => shown \in {{}, Full}

LEMMA BestSteady ==
  ASSUME UNCHANGED <<allow_x11, disk>>
  PROVE  Best(scan)' = Best(scan') /\ Full' = Full
BY DEF Best, Full, First, Fit, Session, Searched, Startable

LEMMA BestEmpty == Best(1) = {}
BY DirsNatural DEF Best, Sessions

\* One directory further.
LEMMA BestNext ==
  ASSUME TypeOK, Passed, scan \in Dirs, steady = Places, found = Best(scan)
  PROVE  Best(scan + 1) = found \cup
           {[id |-> i, dir |-> scan, runs |-> disk[scan][i]] :
              i \in {j \in Ids : /\ Searched(scan) /\ Startable(scan, j)
                                 /\ \A s \in found : s.id # j}}
<1> DEFINE new == {[id |-> i, dir |-> scan, runs |-> disk[scan][i]] :
                     i \in {j \in Ids : /\ Searched(scan)
                                        /\ Startable(scan, j)
                                        /\ \A s \in found : s.id # j}}
<1>1. /\ scan \in Nat /\ scan # 0 /\ \A d \in Dirs : d \in Nat
      /\ \A s \in Sessions : s.dir \in Dirs /\ s.id \in Ids
  BY DirsNatural DEF Sessions
<1>2. \A j \in Ids :
        (\A s \in found : s.id # j) <=> (\A c \in Dirs : c < scan => ~Fit(c, j))
  <2> SUFFICES ASSUME NEW j \in Ids
               PROVE  (\A s \in found : s.id # j)
                        <=> (\A c \in Dirs : c < scan => ~Fit(c, j))
    OBVIOUS
  <2>1. ASSUME NEW s \in found, s.id = j
        PROVE  \E c \in Dirs : c < scan /\ Fit(c, j)
    BY <1>1, <2>1 DEF Best, First
  <2>2. ASSUME NEW c \in Dirs, c < scan, Fit(c, j)
        PROVE  \E s \in found : s.id = j
    BY <1>1, <2>2 DEF Passed, Places
  <2> QED
    BY <2>1, <2>2
<1>3. ASSUME NEW s \in Best(scan + 1) PROVE s \in found \cup new
  <2>1. /\ s \in Sessions /\ s.dir < scan + 1 /\ First(s.dir, s.id)
        /\ s = Session(s.dir, s.id) /\ s.dir \in Dirs /\ s.id \in Ids
    BY <1>1, <1>3 DEF Best
  <2>2. CASE s.dir < scan
    BY <2>1, <2>2 DEF Best
  <2>3. CASE s.dir = scan
    <3>1. Fit(scan, s.id) /\ \A t \in found : t.id # s.id
      BY <1>2, <2>1, <2>3 DEF First
    <3>2. s = [id |-> s.id, dir |-> scan, runs |-> disk[scan][s.id]]
      BY <2>1, <2>3 DEF Session
    <3> QED
      BY <2>1, <3>1, <3>2 DEF Fit
  <2>4. s.dir \in Nat
    BY <1>1, <2>1
  <2> HIDE DEF new
  <2> QED
    BY <1>1, <2>1, <2>2, <2>3, <2>4
<1>4. ASSUME NEW s \in found PROVE s \in Best(scan + 1)
  <2>1. /\ s \in Sessions /\ s.dir < scan /\ First(s.dir, s.id)
        /\ s = Session(s.dir, s.id)
    BY <1>4 DEF Best
  <2>2. s.dir \in Nat
    BY <1>1, <2>1
  <2>3. s.dir < scan + 1
    BY <1>1, <2>1, <2>2
  <2> QED
    BY <2>1, <2>3 DEF Best
<1>5. ASSUME NEW s \in new PROVE s \in Best(scan + 1)
  <2>1. PICK j \in Ids : /\ Fit(scan, j) /\ \A t \in found : t.id # j
                         /\ s = Session(scan, j)
    BY <1>5 DEF Fit, Session
  <2>2. s.dir = scan /\ s.id = j /\ s \in Sessions
    BY <2>1 DEF Session, Sessions, TypeOK
  <2>3. First(scan, j)
    BY <1>2, <2>1 DEF First
  <2> QED
    BY <1>1, <2>1, <2>2, <2>3 DEF Best
<1> QED
  BY <1>3, <1>4, <1>5

LEMMA OfferedInit == Init => Offered
BY SessionsAssumption DEF Init, Offered

LEMMA OfferedNext == TypeOK /\ Passed /\ Offered /\ [Next]_vars => Offered'
<1> SUFFICES ASSUME TypeOK, Passed, Offered, [Next]_vars PROVE Offered'
  OBVIOUS
<1>1. CASE ListSessions
  <2>1. /\ scan' = 1 /\ found' = {} /\ want' = "list" /\ steady' = Places
        /\ UNCHANGED <<allow_x11, disk>>
    BY <1>1 DEF ListSessions, Begins
  <2>2. Best(scan)' = {}
    BY <2>1, BestSteady, BestEmpty
  <2> QED
    BY <2>1, <2>2 DEF Offered, Places
<1>2. CASE Start
  <2>1. PICK s \in shown : Begins(s.id)
    BY <1>2 DEF Start
  <2>2. /\ scan = 0 /\ scan' = 1 /\ found' = {} /\ want' = s.id
        /\ steady' = Places
        /\ UNCHANGED <<allow_x11, disk, shown, started, stale>>
    BY <1>2, <2>1 DEF Start, Begins
  <2>3. Best(scan)' = {} /\ Full' = Full
    BY <2>2, BestSteady, BestEmpty
  <2>4. ~stale => shown = Full
    BY <2>1, <2>2 DEF Offered
  <2> QED
    BY <2>1, <2>2, <2>3, <2>4 DEF Offered, Places
<1>3. CASE Scan
  <2>1. /\ scan \in Dirs /\ scan # 0 /\ scan' = scan + 1 /\ scan' # 0
        /\ UNCHANGED <<allow_x11, disk, want, shown, started, steady, stale>>
    BY <1>3, DirsNatural DEF Scan, Following
  <2>2. ~stale => found' = Best(scan + 1)
    BY <1>3, <2>1, BestNext DEF Offered, Scan
  <2>3. Best(scan)' = Best(scan + 1) /\ Full' = Full
    BY <2>1, BestSteady
  <2> QED
    BY <2>1, <2>2, <2>3 DEF Offered, Places
<1>4. CASE Answer
  <2>1. /\ scan = 2 * Roots + 1 /\ scan # 0 /\ want = "list" /\ scan' = 0
        /\ shown' = found /\ UNCHANGED <<allow_x11, disk, want, stale>>
    BY <1>4, DirsNatural DEF Answer, Scanned
  <2>2. Full' = Full /\ (~stale => found = Full)
    BY <2>1, BestSteady DEF Offered, Full
  <2> QED
    BY <2>1, <2>2 DEF Offered
<1>5. CASE Launch
  <2>1. /\ scan = 2 * Roots + 1 /\ scan # 0 /\ want # "list" /\ scan' = 0
        /\ started' = {s \in found : s.id = want}
        /\ UNCHANGED <<allow_x11, disk, want, shown, stale>>
    BY <1>5, DirsNatural DEF Launch, Scanned
  <2>2. Full' = Full /\ (~stale => found = Full /\ shown = Full)
    BY <2>1, BestSteady DEF Offered, Full
  <2> QED
    BY <2>1, <2>2 DEF Offered
<1>6. CASE Change
  BY <1>6 DEF Change, Offered
<1>7. CASE UNCHANGED vars
  <2>1. UNCHANGED <<allow_x11, disk, scan, want, found, shown, started, steady,
                    stale>>
    BY <1>7 DEF vars
  <2>2. Best(scan)' = Best(scan) /\ Full' = Full
    BY <2>1, BestSteady
  <2> QED
    BY <2>1, <2>2 DEF Offered, Places
<1> QED
  BY <1>1, <1>2, <1>3, <1>4, <1>5, <1>6, <1>7 DEF Next

-----------------------------------------------------------------------------
(* The theorems.                                                           *)

LEMMA PassedInit == Init => Passed
BY DEF Init, Passed

LEMMA OfferedStarts == Offered => StartsAsOffered
BY DEF Offered, StartsAsOffered

\* The variables of the scan and of the greeter's list keep their types.
THEOREM SessionsTypeCorrect == Spec => []TypeOK
BY TypeInit, TypeNext, PTL DEF Spec

\* Whatever is installed or removed beside a scan, in any number of places
\* and as often as may be, what was there all along is found, and each id once.
THEOREM SteadyFound == Spec => []SteadySessionsFound
BY TypeInit, TypeNext, PassedInit, PassedNext, PassedFinds, PTL DEF Spec

\* Where nothing changed since the list was asked for, a start launches the
\* session the list offered under that id.
THEOREM StartedAsOffered == Spec => []StartsAsOffered
BY TypeInit, TypeNext, PassedInit, PassedNext, OfferedInit, OfferedNext,
   OfferedStarts, PTL DEF Spec
=============================================================================
