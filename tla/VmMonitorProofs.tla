---------------------------- MODULE VmMonitorProofs ----------------------------
(***************************************************************************)
(* The monitors of testcase_10, for any instances, any pings and consoles  *)
(* of any length.                                                          *)
(*                                                                         *)
(* Who runs is on main's list (ThreadsInv), so a join of the list is a     *)
(* join of all.  What a monitor is past, it has looked at but for the      *)
(* edges, and what it has looked at lies before where it is (CoverInv).    *)
(* A message, wherever it is on its way, comes from a failed ping of the   *)
(* right instance (AlarmInv), for a console never loses a line.            *)
(***************************************************************************)
EXTENDS VmMonitor, ResultsProofs

GuestType ==
  /\ alive \subseteq VM /\ asked \in BOOLEAN /\ interrupted \in BOOLEAN
  /\ console \in [VM -> Seq(Line)]

MonType ==
  /\ mon \in [VM -> {"idle", "loop", "poll", "scan", "exited"}]
  /\ offset \in [VM -> Nat] /\ at \in [VM -> Nat] /\ upto \in [VM -> Nat]
  /\ edge \in [VM -> SUBSET Nat] /\ seen \in [VM -> SUBSET Nat]

MainType ==
  /\ stop \in [VM -> BOOLEAN] /\ error_msg \in [VM -> BOOLEAN]
  /\ pc \in {"start", "collect", "delete", "stop", "create4", "start4",
             "collect4", "finally", "cleanup", "returned", "raised",
             "not_cleaned"}
  /\ todo \subseteq VM /\ threads \subseteq VM
  /\ err \in BOOLEAN /\ exc \in BOOLEAN

Types == GuestType /\ MonType /\ MainType /\ ResultsTypeOK({"group", "all"})

At == {"loop", "poll", "scan"}

ThreadsInv ==
  /\ \A v \in VM : mon[v] \in At => v \in threads
  /\ pc \in {"start", "start4"} => \A v \in todo : mon[v] \notin At
  /\ pc \in {"start", "start4", "collect", "collect4"} => todo \subseteq threads
  /\ pc \in {"start", "collect"} => threads = Group
  /\ pc \in {"start4", "collect4"} => threads = {Newcomer}
  /\ pc = "create4" => threads = {}
  /\ MonitorsJoined

Cover(v) ==
  /\ Ignored <= offset[v]
  /\ \A i \in seen[v] : Ignored < i
  /\ \A i \in (Ignored + 1)..offset[v] : i \in seen[v] \cup edge[v]
  /\ mon[v] # "scan" => \A i \in seen[v] : i <= offset[v]
  /\ mon[v] = "scan" =>
       /\ offset[v] < at[v] /\ at[v] <= upto[v] + 1 /\ upto[v] <= Len(console[v])
       /\ \A i \in seen[v] : i < at[v]
       /\ \A i \in (offset[v] + 1)..(at[v] - 1) : i \in seen[v]

CoverInv == \A v \in VM : Cover(v)

AlarmInv ==
  /\ \A v \in VM : error_msg[v] => Failed(v)
  /\ pc = "collect" /\ err => \E v \in Group : Failed(v)
  /\ pc = "collect4" /\ err => Failed(Newcomer)
  /\ NoFalseAlarm

IInv == Types /\ ThreadsInv /\ CoverInv /\ AlarmInv

-----------------------------------------------------------------------------

LEMMA GuestTypeStep == GuestType /\ [Next]_vars => GuestType'
<1>. SUFFICES ASSUME GuestType, [Next]_vars PROVE GuestType'
  OBVIOUS
<1>. USE DEF guestVars, monVars, mainVars, GuestType
<1>1. ASSUME NEW v \in VM, NEW t \in VM, NEW ok \in BOOLEAN, PrintLine(v, t, ok) PROVE GuestType'
  <2>1. console' \in [VM -> Seq(Line)]
    <3>1. [to |-> t, ok |-> ok] \in Line
      BY DEF Line
    <3>2. Append(console[v], [to |-> t, ok |-> ok]) \in Seq(Line)
      BY <3>1
    <3>. QED
      BY <1>1, <3>2 DEF PrintLine
  <2>. QED
    BY <1>1, <2>1 DEF PrintLine
<1>2. CASE NovaDeletes
  BY <1>2 DEF NovaDeletes
<1>3. ASSUME NEW v \in VM, Loop(v) PROVE GuestType'
  BY <1>3 DEF Loop
<1>4. ASSUME NEW v \in VM, Poll(v) PROVE GuestType'
  BY <1>4 DEF Poll
<1>5. ASSUME NEW v \in VM, PollRaises(v) PROVE GuestType'
  BY <1>5 DEF PollRaises
<1>6. ASSUME NEW v \in VM, ScanLine(v) PROVE GuestType'
  BY <1>6 DEF ScanLine
<1>7. ASSUME NEW v \in VM, ScanEnds(v) PROVE GuestType'
  BY <1>7 DEF ScanEnds
<1>8. ASSUME NEW v \in VM, Start(v) PROVE GuestType'
  BY <1>8 DEF Start
<1>9. ASSUME NEW v \in VM, Collect(v) PROVE GuestType'
  BY <1>9 DEF Collect
<1>10. ASSUME NEW v \in VM, Stop(v) PROVE GuestType'
  BY <1>10 DEF Stop
<1>11. CASE StartRaises
  BY <1>11 DEF StartRaises, Raises
<1>12. CASE Started
  BY <1>12 DEF Started
<1>13. CASE FirstVerdict
  BY <1>13 DEF FirstVerdict
<1>14. CASE DeleteVictim
  BY <1>14 DEF DeleteVictim
<1>15. CASE DeleteFails
  BY <1>15 DEF DeleteFails, Raises
<1>16. CASE JoinAll
  BY <1>16 DEF JoinAll
<1>17. CASE CreateNewcomer
  BY <1>17, VictimAssumption DEF CreateNewcomer, VM
<1>18. CASE CreateRaises
  BY <1>18, VictimAssumption DEF CreateRaises, Raises, VM
<1>19. CASE SecondVerdict
  BY <1>19 DEF SecondVerdict
<1>20. CASE FinallyJoin
  BY <1>20 DEF FinallyJoin
<1>21. CASE FinallyJoinRaises
  BY <1>21 DEF FinallyJoinRaises
<1>22. CASE Cleanup
  BY <1>22 DEF Cleanup
<1>23. CASE UNCHANGED vars
  BY <1>23 DEF vars
<1>. QED
  BY <1>1, <1>2, <1>3, <1>4, <1>5, <1>6, <1>7, <1>8, <1>9, <1>10, <1>11,
     <1>12, <1>13, <1>14, <1>15, <1>16, <1>17, <1>18, <1>19, <1>20, <1>21, <1>22,
     <1>23
  DEF Next, Guests, Monitor, Main, Done

LEMMA MonTypeStep == GuestType /\ MonType /\ [Next]_vars => MonType'
<1>. SUFFICES ASSUME GuestType, MonType, [Next]_vars PROVE MonType'
  OBVIOUS
<1>. USE DEF guestVars, monVars, mainVars, MonType
<1>1. ASSUME NEW v \in VM, NEW t \in VM, NEW ok \in BOOLEAN, PrintLine(v, t, ok) PROVE MonType'
  BY <1>1 DEF PrintLine
<1>2. CASE NovaDeletes
  BY <1>2 DEF NovaDeletes
<1>3. ASSUME NEW v \in VM, Loop(v) PROVE MonType'
  BY <1>3 DEF Loop
<1>4. ASSUME NEW v \in VM, Poll(v) PROVE MonType'
  <2>1. Len(console[v]) \in Nat /\ offset[v] + 1 \in Nat
    BY DEF GuestType
  <2>2. at' \in [VM -> Nat] /\ upto' \in [VM -> Nat]
    <3>1. CASE UNCHANGED <<at, upto>>
      BY <3>1
    <3>2. CASE at' = [at EXCEPT ![v] = offset[v] + 1] /\ upto' = [upto EXCEPT ![v] = Len(console[v])]
      BY <2>1, <3>2
    <3>. QED
      BY <1>4, <3>1, <3>2 DEF Poll
  <2>3. mon' \in [VM -> {"idle", "loop", "poll", "scan", "exited"}]
    BY <1>4 DEF Poll
  <2>. QED
    BY <1>4, <2>2, <2>3 DEF Poll
<1>5. ASSUME NEW v \in VM, PollRaises(v) PROVE MonType'
  BY <1>5 DEF PollRaises
<1>6. ASSUME NEW v \in VM, ScanLine(v) PROVE MonType'
  BY <1>6 DEF ScanLine
<1>7. ASSUME NEW v \in VM, ScanEnds(v) PROVE MonType'
  BY <1>7 DEF ScanEnds
<1>8. ASSUME NEW v \in VM, Start(v) PROVE MonType'
  BY <1>8 DEF Start
<1>9. ASSUME NEW v \in VM, Collect(v) PROVE MonType'
  BY <1>9 DEF Collect
<1>10. ASSUME NEW v \in VM, Stop(v) PROVE MonType'
  BY <1>10 DEF Stop
<1>11. CASE StartRaises
  BY <1>11 DEF StartRaises, Raises
<1>12. CASE Started
  BY <1>12 DEF Started
<1>13. CASE FirstVerdict
  BY <1>13 DEF FirstVerdict
<1>14. CASE DeleteVictim
  BY <1>14 DEF DeleteVictim
<1>15. CASE DeleteFails
  BY <1>15 DEF DeleteFails, Raises
<1>16. CASE JoinAll
  BY <1>16 DEF JoinAll
<1>17. CASE CreateNewcomer
  BY <1>17 DEF CreateNewcomer
<1>18. CASE CreateRaises
  BY <1>18 DEF CreateRaises, Raises
<1>19. CASE SecondVerdict
  BY <1>19 DEF SecondVerdict
<1>20. CASE FinallyJoin
  BY <1>20 DEF FinallyJoin
<1>21. CASE FinallyJoinRaises
  BY <1>21 DEF FinallyJoinRaises
<1>22. CASE Cleanup
  BY <1>22 DEF Cleanup
<1>23. CASE UNCHANGED vars
  BY <1>23 DEF vars
<1>. QED
  BY <1>1, <1>2, <1>3, <1>4, <1>5, <1>6, <1>7, <1>8, <1>9, <1>10, <1>11,
     <1>12, <1>13, <1>14, <1>15, <1>16, <1>17, <1>18, <1>19, <1>20, <1>21, <1>22,
     <1>23
  DEF Next, Guests, Monitor, Main, Done

LEMMA MainTypeStep == MainType /\ [Next]_vars => MainType'
<1>. SUFFICES ASSUME MainType, [Next]_vars PROVE MainType'
  OBVIOUS
<1>. USE DEF guestVars, monVars, mainVars, MainType
<1>1. ASSUME NEW v \in VM, NEW t \in VM, NEW ok \in BOOLEAN, PrintLine(v, t, ok) PROVE MainType'
  BY <1>1 DEF PrintLine
<1>2. CASE NovaDeletes
  BY <1>2 DEF NovaDeletes
<1>3. ASSUME NEW v \in VM, Loop(v) PROVE MainType'
  BY <1>3 DEF Loop
<1>4. ASSUME NEW v \in VM, Poll(v) PROVE MainType'
  BY <1>4 DEF Poll
<1>5. ASSUME NEW v \in VM, PollRaises(v) PROVE MainType'
  BY <1>5 DEF PollRaises
<1>6. ASSUME NEW v \in VM, ScanLine(v) PROVE MainType'
  BY <1>6 DEF ScanLine
<1>7. ASSUME NEW v \in VM, ScanEnds(v) PROVE MainType'
  BY <1>7 DEF ScanEnds
<1>8. ASSUME NEW v \in VM, Start(v) PROVE MainType'
  BY <1>8 DEF Start
<1>9. ASSUME NEW v \in VM, Collect(v) PROVE MainType'
  <2>1. err' \in BOOLEAN
    BY <1>9 DEF Collect
  <2>. QED
    BY <1>9, <2>1 DEF Collect
<1>10. ASSUME NEW v \in VM, Stop(v) PROVE MainType'
  BY <1>10 DEF Stop
<1>11. CASE StartRaises
  BY <1>11 DEF StartRaises, Raises
<1>12. CASE Started
  BY <1>12 DEF Started
<1>13. CASE FirstVerdict
  BY <1>13, VictimAssumption DEF FirstVerdict, VM
<1>14. CASE DeleteVictim
  BY <1>14 DEF DeleteVictim
<1>15. CASE DeleteFails
  BY <1>15 DEF DeleteFails, Raises
<1>16. CASE JoinAll
  BY <1>16 DEF JoinAll
<1>17. CASE CreateNewcomer
  BY <1>17 DEF CreateNewcomer, VM
<1>18. CASE CreateRaises
  BY <1>18 DEF CreateRaises, Raises
<1>19. CASE SecondVerdict
  BY <1>19 DEF SecondVerdict
<1>20. CASE FinallyJoin
  BY <1>20 DEF FinallyJoin
<1>21. CASE FinallyJoinRaises
  BY <1>21 DEF FinallyJoinRaises
<1>22. CASE Cleanup
  BY <1>22 DEF Cleanup
<1>23. CASE UNCHANGED vars
  BY <1>23 DEF vars
<1>. QED
  BY <1>1, <1>2, <1>3, <1>4, <1>5, <1>6, <1>7, <1>8, <1>9, <1>10, <1>11,
     <1>12, <1>13, <1>14, <1>15, <1>16, <1>17, <1>18, <1>19, <1>20, <1>21, <1>22,
     <1>23
  DEF Next, Guests, Monitor, Main, Done

\* Only the two verdicts report.
LEMMA Reporters ==
  [Next]_vars => FirstVerdict \/ SecondVerdict \/ UNCHANGED resultsVars
BY DEF Next, Guests, PrintLine, NovaDeletes, Monitor, Loop, Poll, PollRaises,
  ScanLine, ScanEnds, Main, Start, Collect, Stop, StartRaises, Raises, Started,
  DeleteVictim, DeleteFails, JoinAll, CreateNewcomer, CreateRaises, FinallyJoin,
  FinallyJoinRaises, Cleanup, Done, vars

LEMMA VerdictStep ==
  ASSUME MainType, FirstVerdict \/ SecondVerdict
  PROVE  \E name \in {"group", "all"}, ok \in BOOLEAN : add_subtest(name, ok)
<1>1. (~err) \in BOOLEAN
  OBVIOUS
<1>2. CASE FirstVerdict
  <2>1. add_subtest("group", ~err)
    BY <1>2, Zenon DEF FirstVerdict
  <2>. QED
    BY <1>1, <2>1, Zenon
<1>3. CASE SecondVerdict
  <2>1. add_subtest("all", ~err)
    BY <1>3, Zenon DEF SecondVerdict
  <2>. QED
    BY <1>1, <2>1, Zenon
<1>. QED
  BY <1>2, <1>3

LEMMA ResultsStep ==
  MainType /\ ResultsTypeOK({"group", "all"}) /\ [Next]_vars =>
    /\ ResultsTypeOK({"group", "all"})'
    /\ \/ Report!Next
       \/ UNCHANGED <<test_result, num_tests - num_tests_failed, num_tests_failed>>
<1>. SUFFICES ASSUME MainType, ResultsTypeOK({"group", "all"}), [Next]_vars
              PROVE  /\ ResultsTypeOK({"group", "all"})'
                     /\ \/ Report!Next
                        \/ UNCHANGED <<test_result, num_tests - num_tests_failed,
                                       num_tests_failed>>
  OBVIOUS
<1>1. CASE UNCHANGED resultsVars
  BY <1>1, SameResults
<1>2. CASE FirstVerdict \/ SecondVerdict
  <2>1. PICK name \in {"group", "all"}, ok \in BOOLEAN : add_subtest(name, ok)
    BY <1>2, VerdictStep
  <2>. QED
    BY <2>1, AddSubtestStep
<1>. QED
  BY <1>1, <1>2, Reporters

LEMMA ThreadsStep == Types /\ ThreadsInv /\ [Next]_vars => ThreadsInv'
<1>. SUFFICES ASSUME Types, ThreadsInv, [Next]_vars PROVE ThreadsInv'
  OBVIOUS
<1>. USE DEF guestVars, monVars, mainVars, Types, MonType, MainType, ThreadsInv, MonitorsJoined, At
<1>1. ASSUME NEW v \in VM, NEW t \in VM, NEW ok \in BOOLEAN, PrintLine(v, t, ok) PROVE ThreadsInv'
  BY <1>1 DEF PrintLine
<1>2. CASE NovaDeletes
  BY <1>2 DEF NovaDeletes
<1>3. ASSUME NEW v \in VM, Loop(v) PROVE ThreadsInv'
  BY <1>3 DEF Loop
<1>4. ASSUME NEW v \in VM, Poll(v) PROVE ThreadsInv'
  BY <1>4 DEF Poll
<1>5. ASSUME NEW v \in VM, PollRaises(v) PROVE ThreadsInv'
  BY <1>5 DEF PollRaises
<1>6. ASSUME NEW v \in VM, ScanLine(v) PROVE ThreadsInv'
  BY <1>6 DEF ScanLine
<1>7. ASSUME NEW v \in VM, ScanEnds(v) PROVE ThreadsInv'
  BY <1>7 DEF ScanEnds
<1>8. ASSUME NEW v \in VM, Start(v) PROVE ThreadsInv'
  BY <1>8 DEF Start
<1>9. ASSUME NEW v \in VM, Collect(v) PROVE ThreadsInv'
  BY <1>9 DEF Collect
<1>10. ASSUME NEW v \in VM, Stop(v) PROVE ThreadsInv'
  BY <1>10 DEF Stop
<1>11. CASE StartRaises
  BY <1>11 DEF StartRaises, Raises
<1>12. CASE Started
  BY <1>12 DEF Started
<1>13. CASE FirstVerdict
  BY <1>13 DEF FirstVerdict
<1>14. CASE DeleteVictim
  BY <1>14 DEF DeleteVictim
<1>15. CASE DeleteFails
  BY <1>15 DEF DeleteFails, Raises
<1>16. CASE JoinAll
  BY <1>16 DEF JoinAll
<1>17. CASE CreateNewcomer
  BY <1>17 DEF CreateNewcomer, VM
<1>18. CASE CreateRaises
  BY <1>18 DEF CreateRaises, Raises
<1>19. CASE SecondVerdict
  BY <1>19 DEF SecondVerdict
<1>20. CASE FinallyJoin
  BY <1>20 DEF FinallyJoin
<1>21. CASE FinallyJoinRaises
  BY <1>21 DEF FinallyJoinRaises
<1>22. CASE Cleanup
  BY <1>22 DEF Cleanup
<1>23. CASE UNCHANGED vars
  BY <1>23 DEF vars
<1>. QED
  BY <1>1, <1>2, <1>3, <1>4, <1>5, <1>6, <1>7, <1>8, <1>9, <1>10, <1>11,
     <1>12, <1>13, <1>14, <1>15, <1>16, <1>17, <1>18, <1>19, <1>20, <1>21, <1>22,
     <1>23
  DEF Next, Guests, Monitor, Main, Done

-----------------------------------------------------------------------------
\* The consoles and the monitors' own variables change in these steps.
LEMMA Movers ==
  [Next]_vars =>
    \/ \E v \in VM : \/ \E t \in VM, ok \in BOOLEAN : PrintLine(v, t, ok)
                     \/ Loop(v) \/ Poll(v) \/ PollRaises(v) \/ ScanLine(v)
                     \/ ScanEnds(v) \/ Start(v)
    \/ UNCHANGED <<monVars, console>>
BY DEF Next, Guests, NovaDeletes, Monitor, Main, Collect, Stop, StartRaises,
  Raises, Started, FirstVerdict, DeleteVictim, DeleteFails, JoinAll,
  CreateNewcomer, CreateRaises, SecondVerdict, FinallyJoin, FinallyJoinRaises,
  Cleanup, Done, vars, guestVars

LEMMA CoverStays ==
  ASSUME GuestType, MonType, NEW v \in VM, Cover(v),
         UNCHANGED <<offset[v], at[v], upto[v], edge[v], seen[v]>>,
         (mon[v] # "scan" /\ mon'[v] # "scan") \/ UNCHANGED mon[v],
         Len(console'[v]) = Len(console[v]) \/ Len(console'[v]) = Len(console[v]) + 1
  PROVE  Cover(v)'
<1>1. upto[v] \in Nat /\ Len(console[v]) \in Nat
  BY DEF GuestType, MonType
<1>2. upto[v] <= Len(console[v]) => upto[v] <= Len(console'[v])
  BY <1>1
<1>. QED
  BY <1>1, <1>2 DEF Cover

LEMMA CoverStep == Types /\ ThreadsInv /\ CoverInv /\ [Next]_vars => CoverInv'
<1>. SUFFICES ASSUME Types, ThreadsInv, CoverInv, [Next]_vars, NEW v \in VM
              PROVE  Cover(v)'
  BY DEF CoverInv
<1>. USE DEF Types
<1>1. Cover(v)
  BY DEF CoverInv
<1>2. CASE UNCHANGED <<monVars, console>>
  BY <1>1, <1>2, CoverStays DEF monVars
<1>3. ASSUME NEW w \in VM, NEW t \in VM, NEW ok \in BOOLEAN, PrintLine(w, t, ok)
      PROVE  Cover(v)'
  <2>1. Len(console'[v]) = Len(console[v]) \/ Len(console'[v]) = Len(console[v]) + 1
    <3>1. [to |-> t, ok |-> ok] \in Line /\ console[v] \in Seq(Line)
      BY DEF Line, GuestType
    <3>2. Len(Append(console[v], [to |-> t, ok |-> ok])) = Len(console[v]) + 1
      BY <3>1
    <3>. QED
      BY <1>3, <3>1, <3>2 DEF PrintLine, GuestType
  <2>2. UNCHANGED monVars
    BY <1>3 DEF PrintLine
  <2>. QED
    BY <1>1, <2>1, <2>2, CoverStays DEF monVars
<1>4. ASSUME NEW w \in VM, Loop(w) \/ PollRaises(w) \/ Start(w) PROVE Cover(v)'
  <2>1. UNCHANGED <<console, offset, at, upto, edge, seen>>
    BY <1>4 DEF Loop, PollRaises, Start, guestVars
  <2>2. (mon[v] # "scan" /\ mon'[v] # "scan") \/ UNCHANGED mon[v]
    <3>1. mon[w] # "scan"
      BY <1>4 DEF Loop, PollRaises, Start, ThreadsInv, At
    <3>. QED
      BY <1>4, <3>1 DEF Loop, PollRaises, Start, MonType
  <2>. QED
    BY <1>1, <2>1, <2>2, CoverStays
<1>5. ASSUME NEW w \in VM, Poll(w) PROVE Cover(v)'
  <2>1. UNCHANGED <<console, offset, edge, seen>>
    BY <1>5 DEF Poll, guestVars
  <2>2. CASE v # w
    <3>1. UNCHANGED <<mon[v], at[v], upto[v]>>
      BY <1>5, <2>2 DEF Poll, MonType
    <3>. QED
      BY <1>1, <2>1, <3>1, CoverStays
  <2>3. CASE v = w /\ offset[v] < Len(console[v]) + 1 /\ mon'[v] = "scan"
    <3>1. at'[v] = offset[v] + 1 /\ upto'[v] = Len(console[v])
      <4>1. CASE at' = [at EXCEPT ![v] = offset[v] + 1] /\ upto' = [upto EXCEPT ![v] = Len(console[v])]
        BY <4>1 DEF MonType
      <4>2. CASE offset[v] >= Len(console[v]) + 1
        BY <2>3, <4>2 DEF MonType, GuestType
      <4>. QED
        BY <1>5, <2>3, <4>1, <4>2 DEF Poll
    <3>2. offset[v] \in Nat /\ Len(console[v]) \in Nat /\ seen[v] \subseteq Nat
      BY DEF MonType, GuestType
    <3>3. \A i \in seen[v] : i <= offset[v]
      BY <1>1, <1>5, <2>3 DEF Cover, Poll
    <3>. QED
      BY <1>1, <2>1, <2>3, <3>1, <3>2, <3>3 DEF Cover
  <2>4. CASE v = w /\ mon'[v] = "loop" /\ UNCHANGED <<at, upto>>
    BY <1>1, <1>5, <2>1, <2>4, CoverStays DEF Poll
  <2>. QED
    BY <1>5, <2>2, <2>3, <2>4 DEF Poll, MonType
<1>6. ASSUME NEW w \in VM, ScanLine(w) PROVE Cover(v)'
  <2>1. UNCHANGED <<console, mon, offset, edge, upto>>
    BY <1>6 DEF ScanLine, guestVars
  <2>2. CASE v # w
    <3>1. UNCHANGED <<at[v], seen[v]>>
      BY <1>6, <2>2 DEF ScanLine, MonType
    <3>. QED
      BY <1>1, <2>1, <3>1, CoverStays
  <2>3. CASE v = w
    <3>1. /\ mon[v] = "scan" /\ at[v] <= upto[v]
          /\ at'[v] = at[v] + 1 /\ seen'[v] = seen[v] \cup {at[v]}
      BY <1>6, <2>3 DEF ScanLine, MonType
    <3>2. offset[v] \in Nat /\ at[v] \in Nat /\ upto[v] \in Nat /\ seen[v] \subseteq Nat
      BY DEF MonType
    <3>3. /\ \A i \in seen'[v] : Ignored < i /\ i < at'[v]
          /\ \A i \in (offset[v] + 1)..(at'[v] - 1) : i \in seen'[v]
      BY <1>1, <3>1, <3>2, IgnoredAssumption DEF Cover
    <3>. QED
      BY <1>1, <2>1, <3>1, <3>2, <3>3 DEF Cover
  <2>. QED
    BY <2>2, <2>3
<1>7. ASSUME NEW w \in VM, ScanEnds(w) PROVE Cover(v)'
  <2>1. UNCHANGED <<console, at, upto, seen>>
    BY <1>7 DEF ScanEnds, guestVars
  <2>2. CASE v # w
    <3>1. UNCHANGED <<mon[v], offset[v], edge[v]>>
      BY <1>7, <2>2 DEF ScanEnds, MonType
    <3>. QED
      BY <1>1, <2>1, <3>1, CoverStays
  <2>3. CASE v = w
    <3>1. /\ mon[v] = "scan" /\ at[v] > upto[v] /\ mon'[v] = "loop"
          /\ offset'[v] = upto[v] + 1 /\ edge'[v] = edge[v] \cup {upto[v] + 1}
      BY <1>7, <2>3 DEF ScanEnds, MonType
    <3>2. /\ offset[v] \in Nat /\ at[v] \in Nat /\ upto[v] \in Nat
          /\ seen[v] \subseteq Nat /\ edge[v] \subseteq Nat
      BY DEF MonType
    <3>3. at[v] = upto[v] + 1 /\ Ignored <= offset[v] /\ offset[v] < at[v]
      BY <1>1, <3>1, <3>2, IgnoredAssumption DEF Cover
    <3>4. \A i \in (Ignored + 1)..offset'[v] : i \in seen[v] \cup edge'[v]
      <4>. SUFFICES ASSUME NEW i \in (Ignored + 1)..offset'[v]
                    PROVE  i \in seen[v] \cup edge'[v]
        OBVIOUS
      <4>1. \/ i \in (Ignored + 1)..offset[v]
            \/ i \in (offset[v] + 1)..(at[v] - 1)
            \/ i = upto[v] + 1
        BY <3>1, <3>2, <3>3, IgnoredAssumption
      <4>. QED
        BY <1>1, <3>1, <4>1 DEF Cover
    <3>5. \A i \in seen[v] : Ignored < i /\ i <= offset'[v]
      BY <1>1, <3>1, <3>2, <3>3, IgnoredAssumption DEF Cover
    <3>6. Ignored <= offset'[v]
      BY <3>1, <3>2, <3>3, IgnoredAssumption
    <3>. QED
      BY <2>1, <3>1, <3>4, <3>5, <3>6 DEF Cover
  <2>. QED
    BY <2>2, <2>3
<1>. QED
  BY <1>2, <1>3, <1>4, <1>5, <1>6, <1>7, Movers

-----------------------------------------------------------------------------
\* A console never loses a line.
LEMMA FailedStays ==
  ASSUME GuestType, [Next]_vars, NEW v \in VM, Failed(v)
  PROVE  Failed(v)'
<1>1. PICK i \in DOMAIN console[v] : i > Ignored /\ ~console[v][i].ok
  BY DEF Failed
<1>2. CASE UNCHANGED console
  BY <1>1, <1>2 DEF Failed
<1>3. ASSUME NEW w \in VM, NEW t \in VM, NEW ok \in BOOLEAN, PrintLine(w, t, ok)
      PROVE  Failed(v)'
  <2>1. CASE v # w
    BY <1>1, <1>3, <2>1 DEF Failed, PrintLine, GuestType
  <2>2. CASE v = w
    <3>. DEFINE line == [to |-> t, ok |-> ok]
    <3>1. line \in Line /\ console[v] \in Seq(Line)
      BY DEF Line, GuestType
    <3>2. console'[v] = Append(console[v], line)
      BY <1>3, <2>2 DEF PrintLine, GuestType
    <3>. HIDE DEF line
    <3>3. i \in DOMAIN console'[v] /\ console'[v][i] = console[v][i]
      BY <1>1, <3>1, <3>2
    <3>. QED
      BY <1>1, <3>3 DEF Failed
  <2>. QED
    BY <2>1, <2>2
<1>4. (\E w \in VM, t \in VM, ok \in BOOLEAN : PrintLine(w, t, ok)) \/ UNCHANGED console
  BY Movers DEF Loop, Poll, PollRaises, ScanLine, ScanEnds, Start, guestVars
<1>. QED
  BY <1>2, <1>3, <1>4

\* A message is written, handed on and cleared in these steps.
LEMMA Messengers ==
  [Next]_vars =>
    \/ \E v \in VM : ScanLine(v) \/ Collect(v)
    \/ Started \/ FirstVerdict \/ SecondVerdict
    \/ /\ UNCHANGED <<error_msg, resultsVars>>
       /\ pc' \in {"collect", "collect4"} => UNCHANGED <<pc, err>>
BY DEF Next, Guests, PrintLine, NovaDeletes, Monitor, Loop, Poll, PollRaises,
  ScanEnds, Main, Start, Stop, StartRaises, Raises, DeleteVictim, DeleteFails,
  JoinAll, CreateNewcomer, CreateRaises, FinallyJoin, FinallyJoinRaises,
  Cleanup, Done, vars, mainVars

LEMMA ReportedStep ==
  ASSUME ResultsTypeOK({"group", "all"}), NEW test \in {"group", "all"},
         NEW ok \in BOOLEAN, add_subtest(test, ok),
         NEW name \in {"group", "all"}, Reported(name)'
  PROVE  Reported(name) \/ (name = test /\ ~ok)
<1>. DEFINE Row == [name : {"group", "all"}, result : {"PASS", "FAIL"}]
            row == [name |-> test, result |-> IF ok THEN "PASS" ELSE "FAIL"]
<1>1. row \in Row /\ details \in Seq(Row)
  BY DEF ResultsTypeOK
<1>2. details' = Append(details, row)
  BY AddSubtestStep
<1>3. PICK i \in DOMAIN details' : details'[i] = [name |-> name, result |-> "FAIL"]
  BY DEF Reported
<1>4. (i \in DOMAIN details /\ details'[i] = details[i]) \/ details'[i] = row
  <2>. HIDE DEF Row, row
  <2>. QED
    BY <1>1, <1>2
<1>5. CASE i \in DOMAIN details /\ details'[i] = details[i]
  BY <1>3, <1>5 DEF Reported
<1>6. CASE details'[i] = row
  <2>1. row.name = name /\ row.result = "FAIL"
    <3>. HIDE DEF row
    <3>. QED
      BY <1>3, <1>6
  <2>. QED
    BY <2>1
<1>. QED
  BY <1>4, <1>5, <1>6

LEMMA AlarmStep ==
  Types /\ ThreadsInv /\ CoverInv /\ AlarmInv /\ [Next]_vars => AlarmInv'
<1>. SUFFICES ASSUME Types, ThreadsInv, CoverInv, AlarmInv, [Next]_vars
              PROVE  AlarmInv'
  OBVIOUS
<1>. USE DEF Types
<1>1. \A v \in VM : Failed(v) => Failed(v)'
  BY FailedStays
<1>2. Newcomer \in VM /\ Group \subseteq VM
  BY DEF VM
<1>3. (UNCHANGED resultsVars) => NoFalseAlarm'
  BY <1>1, <1>2 DEF AlarmInv, NoFalseAlarm, Reported, resultsVars
<1>4. CASE /\ UNCHANGED <<error_msg, resultsVars>>
           /\ pc' \in {"collect", "collect4"} => UNCHANGED <<pc, err>>
  BY <1>1, <1>2, <1>3, <1>4 DEF AlarmInv
<1>5. ASSUME NEW v \in VM, ScanLine(v) PROVE AlarmInv'
  <2>1. /\ UNCHANGED <<console, resultsVars, pc, err>>
        /\ mon[v] = "scan" /\ at[v] <= upto[v]
        /\ error_msg' = [error_msg EXCEPT ![v] = @ \/ ~console[v][at[v]].ok]
    BY <1>5 DEF ScanLine, guestVars, mainVars
  <2>2. at[v] \in DOMAIN console[v] /\ at[v] > Ignored
    <3>1. /\ Ignored <= offset[v] /\ offset[v] < at[v]
          /\ upto[v] <= Len(console[v])
      BY <2>1 DEF CoverInv, Cover
    <3>2. at[v] \in Nat /\ offset[v] \in Nat /\ upto[v] \in Nat /\ console[v] \in Seq(Line)
      BY DEF MonType, GuestType
    <3>. QED
      BY <2>1, <3>1, <3>2, IgnoredAssumption
  <2>3. ASSUME NEW w \in VM, error_msg'[w] PROVE Failed(w)'
    <3>1. CASE w # v
      <4>1. error_msg[w]
        BY <2>1, <2>3, <3>1 DEF MainType
      <4>. QED
        BY <1>1, <4>1 DEF AlarmInv
    <3>2. CASE w = v
      <4>1. error_msg[v] \/ ~console[v][at[v]].ok
        BY <2>1, <2>3, <3>2 DEF MainType
      <4>. QED
        BY <1>1, <2>2, <3>2, <4>1 DEF AlarmInv, Failed
    <3>. QED
      BY <3>1, <3>2
  <2>. QED
    BY <1>1, <1>2, <1>3, <2>1, <2>3 DEF AlarmInv
<1>6. ASSUME NEW v \in VM, Collect(v) PROVE AlarmInv'
  <2>1. /\ UNCHANGED <<resultsVars, pc>> /\ v \in todo
        /\ pc \in {"collect", "collect4"}
        /\ err' = (err \/ error_msg[v])
        /\ error_msg' = [error_msg EXCEPT ![v] = FALSE]
    BY <1>6 DEF Collect
  <2>2. \A w \in VM : error_msg'[w] => error_msg[w]
    BY <2>1 DEF MainType
  <2>3. error_msg[v] => Failed(v)'
    BY <1>1 DEF AlarmInv
  <2>4. CASE pc = "collect"
    <3>1. v \in Group
      BY <2>1, <2>4 DEF ThreadsInv
    <3>. QED
      BY <1>1, <1>2, <1>3, <2>1, <2>2, <2>3, <2>4, <3>1 DEF AlarmInv
  <2>5. CASE pc = "collect4"
    <3>1. v = Newcomer
      BY <2>1, <2>5 DEF ThreadsInv
    <3>. QED
      BY <1>1, <1>2, <1>3, <2>1, <2>2, <2>3, <2>5, <3>1 DEF AlarmInv
  <2>. QED
    BY <2>1, <2>4, <2>5
<1>7. CASE Started
  <2>1. UNCHANGED <<error_msg, resultsVars>> /\ err' = FALSE
    BY <1>7 DEF Started
  <2>. QED
    BY <1>1, <1>3, <2>1 DEF AlarmInv
<1>8. CASE FirstVerdict
  <2>. DEFINE ok == ~err
  <2>1. pc = "collect" /\ pc' = "delete" /\ UNCHANGED error_msg
    BY <1>8 DEF FirstVerdict
  <2>2. add_subtest("group", ok) /\ ok \in BOOLEAN
    BY <1>8, Zenon DEF FirstVerdict
  <2>3. ~ok => \E v \in Group : Failed(v)
    BY <2>1 DEF AlarmInv
  <2>. HIDE DEF ok
  <2>4. Reported("group")' => Reported("group") \/ ~ok
    BY <2>2, ReportedStep
  <2>5. Reported("all")' => Reported("all")
    BY <2>2, ReportedStep
  <2>6. NoFalseAlarm'
    BY <1>1, <1>2, <2>3, <2>4, <2>5 DEF AlarmInv, NoFalseAlarm
  <2>. QED
    BY <1>1, <2>1, <2>6 DEF AlarmInv
<1>9. CASE SecondVerdict
  <2>. DEFINE ok == ~err
  <2>1. pc = "collect4" /\ pc' = "finally" /\ UNCHANGED error_msg
    BY <1>9 DEF SecondVerdict
  <2>2. add_subtest("all", ok) /\ ok \in BOOLEAN
    BY <1>9, Zenon DEF SecondVerdict
  <2>3. ~ok => Failed(Newcomer)
    BY <2>1 DEF AlarmInv
  <2>. HIDE DEF ok
  <2>4. Reported("all")' => Reported("all") \/ ~ok
    BY <2>2, ReportedStep
  <2>5. Reported("group")' => Reported("group")
    BY <2>2, ReportedStep
  <2>6. NoFalseAlarm'
    BY <1>1, <1>2, <2>3, <2>4, <2>5 DEF AlarmInv, NoFalseAlarm
  <2>. QED
    BY <1>1, <2>1, <2>6 DEF AlarmInv
<1>. QED
  BY <1>4, <1>5, <1>6, <1>7, <1>8, <1>9, Messengers

-----------------------------------------------------------------------------
LEMMA InitInv == Init => IInv
<1>. SUFFICES ASSUME Init PROVE IInv
  OBVIOUS
<1>1. Types
  <2>1. ResultsTypeOK({"group", "all"})
    BY InitResults DEF Init
  <2>2. GuestType
    <3>1. <<>> \in Seq(Line)
      OBVIOUS
    <3>. QED
      BY <3>1 DEF Init, GuestType, VM
  <2>3. MonType
    BY IgnoredAssumption DEF Init, MonType
  <2>4. MainType
    BY DEF Init, MainType, VM
  <2>. QED
    BY <2>1, <2>2, <2>3, <2>4 DEF Types
<1>2. ThreadsInv
  <2>1. \A v \in VM : mon[v] = "idle"
    BY DEF Init
  <2>2. pc = "start" /\ todo = Group /\ threads = Group /\ Group \subseteq VM
    BY DEF Init, VM
  <2>. QED
    BY <2>1, <2>2 DEF ThreadsInv, MonitorsJoined, At
<1>3. CoverInv
  BY IgnoredAssumption DEF Init, CoverInv, Cover
<1>4. AlarmInv
  BY DEF Init, AlarmInv, NoFalseAlarm, Reported, ResultsInit
<1>. QED
  BY <1>1, <1>2, <1>3, <1>4 DEF IInv

LEMMA Inductive == IInv /\ [Next]_vars => IInv'
<1>. SUFFICES ASSUME IInv, [Next]_vars PROVE IInv'
  OBVIOUS
<1>1. Types'
  BY GuestTypeStep, MonTypeStep, MainTypeStep, ResultsStep DEF IInv, Types
<1>. QED
  BY <1>1, ThreadsStep, CoverStep, AlarmStep DEF IInv

LEMMA Invariant == Spec => []IInv
BY InitInv, Inductive, PTL DEF Spec

(***************************************************************************)
(* Every variable keeps its type.                                          *)
(***************************************************************************)
THEOREM TypeCorrect == Spec => []TypeOK
<1>1. IInv => TypeOK
  BY DEF IInv, Types, GuestType, MonType, MainType, TypeOK
<1>. QED
  BY <1>1, Invariant, PTL

(***************************************************************************)
(* No monitor runs once the cleanup has begun, whichever step of main      *)
(* raised: whoever runs is on the list the finally joins.                  *)
(***************************************************************************)
THEOREM AllJoined == Spec => []MonitorsJoined
<1>1. IInv => MonitorsJoined
  BY DEF IInv, ThreadsInv
<1>. QED
  BY <1>1, Invariant, PTL

(***************************************************************************)
(* A monitor looks at every line it gets past, once, but for those that    *)
(* were unfinished when the console was read.                              *)
(***************************************************************************)
THEOREM LooksOnce == Spec => []LooksAtAllButUnfinished
<1>1. IInv => LooksAtAllButUnfinished
  <2>. SUFFICES ASSUME IInv, NEW v \in VM
                PROVE  /\ seen[v] \cap 1..Ignored = {}
                       /\ (Ignored + 1)..offset[v] \subseteq seen[v] \cup edge[v]
                       /\ mon[v] = "scan" => seen[v] \cap at[v]..upto[v] = {}
    BY DEF LooksAtAllButUnfinished
  <2>1. Cover(v) /\ at[v] \in Nat /\ upto[v] \in Nat /\ seen[v] \subseteq Nat
    BY DEF IInv, CoverInv, Types, MonType
  <2>. QED
    BY <2>1, IgnoredAssumption DEF Cover
<1>. QED
  BY <1>1, Invariant, PTL

(***************************************************************************)
(* A failure is reported for a ping that failed, of an instance the        *)
(* verdict is about.                                                       *)
(***************************************************************************)
THEOREM AlarmsAreTrue == Spec => []NoFalseAlarm
<1>1. IInv => NoFalseAlarm
  BY DEF IInv, AlarmInv
<1>. QED
  BY <1>1, Invariant, PTL

(***************************************************************************)
(* What testcase_10 does to its Results is the abstract report: a subtest  *)
(* at a time, none taken back, PASS as long as none failed.                *)
(***************************************************************************)
THEOREM Refines == Spec => ReportSpec
<1>1. Init => Report!Init
  BY InitResults DEF Init
<1>2. IInv /\ [Next]_vars =>
        [Report!Next]_<<test_result, num_tests - num_tests_failed, num_tests_failed>>
  BY ResultsStep DEF IInv, Types
<1>. QED
  BY <1>1, <1>2, Invariant, PTL DEF Spec, ReportSpec, Report!Spec
=============================================================================
