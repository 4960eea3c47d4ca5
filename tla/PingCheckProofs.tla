---------------------------- MODULE PingCheckProofs ----------------------------
(***************************************************************************)
(* The console subtests, for any targets, any plan of main and any window. *)
(*                                                                         *)
(* A line, and the probe under way, of the present network say the truth   *)
(* about it (TruthInv).  The last printed - 1 lines are of the present     *)
(* network: only the first line since a change can be of a probe that      *)
(* began before it (RecentInv).  Once printed has passed Window, that is   *)
(* the whole window.                                                       *)
(*                                                                         *)
(* The report (ReportedInv) has as many rows as subtests lie behind main,  *)
(* and the next subtest gets the next row: RowOf counts those before it.   *)
(***************************************************************************)
EXTENDS PingCheck, ResultsProofs, FiniteSetTheorems, WellFoundedInduction

MainType ==
  /\ pc \in {"step", "poll", "done", "raised"}
  /\ step \in 1..(Len(Plan) + 1) /\ timeLeft \in Nat
  /\ pc = "poll" => step <= Len(Plan) /\ timeLeft > 0

NetType == broken \in BOOLEAN /\ reach \in Networks /\ epoch \in Nat

GuestType ==
  /\ lines \in Seq(Line) /\ Len(lines) <= Window
  /\ turn \in DOMAIN Target /\ began \in 0..epoch /\ got \in BOOLEAN
  /\ printed \in 0..(Window + 1)

Types == ResultsTypeOK(Targets) /\ NetType /\ GuestType /\ MainType

TruthInv ==
  /\ began = epoch => (got <=> Target[turn] \in reach)
  /\ \A i \in DOMAIN lines :
       lines[i].epoch = epoch => (lines[i].ok <=> lines[i].to \in reach)

RecentInv ==
  /\ printed > 0 => began = epoch
  /\ \A i \in DOMAIN lines :
       i + printed > Len(lines) + 1 => lines[i].epoch = epoch

JudgedInv == FreshVerdictsAreTrue /\ StaleOnlyWithinWindow

\* main polls in a subtest; a row of the report never changes.
PollInv == pc = "poll" => Plan[step].op \in {"ping", "ssh"}

ReportedInv == PollInv /\ EverySubtestReported

IInv == Types /\ TruthInv /\ RecentInv /\ JudgedInv /\ ReportedInv

-----------------------------------------------------------------------------
\* A set of indices has a latest one.
LEMMA LatestExists ==
  ASSUME NEW n \in Nat, NEW I, I \subseteq 1..n, I # {}
  PROVE  Latest(I) \in I /\ \A j \in I : j <= Latest(I)
<1>. DEFINE R == OpToRel(<, Nat)
            T == {n - i : i \in I}
<1>1. IsWellFoundedOn(R, Nat)
  BY NatLessThanWellFounded, Zenon
<1>2. T \subseteq Nat /\ T # {}
  <2>1. \A i \in I : i \in 1..n
    OBVIOUS
  <2>2. \A i \in 1..n : n - i \in Nat
    OBVIOUS
  <2>. QED
    BY <2>1, <2>2
<1>3. PICK m \in T : \A k \in T : <<k, m>> \notin R
  <2>. HIDE DEF R, T
  <2>. QED
    BY <1>1, <1>2, WFMin
<1>4. \A k \in T : ~(k < m)
  BY <1>2, <1>3 DEF OpToRel
<1>5. PICK i \in I : m = n - i
  BY <1>3
<1>6. ASSUME NEW j \in I PROVE j <= i
  <2>1. ~(n - j < n - i)
    BY <1>4, <1>5
  <2>2. i \in 1..n /\ j \in 1..n
    OBVIOUS
  <2>. QED
    BY <2>1, <2>2
<1>. QED
  BY <1>5, <1>6 DEF Latest

LEMMA LastLinesFacts ==
  ASSUME NEW S, NEW s \in Seq(S)
  PROVE  /\ LastLines(s) \in Seq(S)
         /\ Len(LastLines(s)) = IF Len(s) > Window THEN Window ELSE Len(s)
         /\ \A i \in DOMAIN LastLines(s) :
              LastLines(s)[i] = s[i + (Len(s) - Len(LastLines(s)))]
<1>. DEFINE m == IF Len(s) > Window THEN Len(s) - Window + 1 ELSE 1
<1>1. m \in 1..(Len(s) + 1) /\ Len(s) \in Nat
  BY WindowAssumption
<1>2. LastLines(s) = SubSeq(s, m, Len(s))
  BY DEF LastLines
<1>3. /\ SubSeq(s, m, Len(s)) \in Seq(S)
      /\ Len(SubSeq(s, m, Len(s))) = Len(s) - m + 1
      /\ \A i \in 1..(Len(s) - m + 1) : SubSeq(s, m, Len(s))[i] = s[m + i - 1]
  <2>. HIDE DEF m
  <2>. QED
    BY <1>1
<1>4. DOMAIN LastLines(s) = 1..(Len(s) - m + 1) /\ Len(LastLines(s)) = Len(s) - m + 1
  <2>. HIDE DEF m
  <2>. QED
    BY <1>2, <1>3
<1>5. Len(LastLines(s)) = IF Len(s) > Window THEN Window ELSE Len(s)
  <2>1. Len(s) - m + 1 = IF Len(s) > Window THEN Window ELSE Len(s)
    BY WindowAssumption
  <2>. HIDE DEF m
  <2>. QED
    BY <1>4, <2>1
<1>6. ASSUME NEW i \in DOMAIN LastLines(s)
      PROVE  LastLines(s)[i] = s[i + (Len(s) - Len(LastLines(s)))]
  <2>1. m + i - 1 = i + (Len(s) - (Len(s) - m + 1))
    BY <1>1, <1>4
  <2>. HIDE DEF m
  <2>. QED
    BY <1>2, <1>3, <1>4, <2>1
<1>. QED
  BY <1>2, <1>3, <1>5, <1>6

-----------------------------------------------------------------------------
\* Where the lines, the network and the report change.
LEMMA Movers ==
  [Next]_vars =>
    \/ Probe \/ Reconfigure
    \/ Answered \/ Unanswered
    \/ /\ BeginPolling \/ UNCHANGED timeLeft
       /\ UNCHANGED <<guestVars, netVars, printed, judged, resultsVars>>
BY DEF Next, Main, Skip, BeginPolling, Finish, ConsoleRaises, Done, vars, mainVars

LEMMA PlanFacts ==
  ASSUME MainType, step <= Len(Plan)
  PROVE  Plan[step] \in PlanStep /\ Plan[step].to \in Targets
<1>1. Plan \in Seq(PlanStep) /\ step \in 1..(Len(Plan) + 1) /\ Len(Plan) \in Nat
  BY PlanAssumption DEF MainType
<1>2. Plan[step] \in PlanStep
  BY <1>1
<1>. QED
  BY <1>2 DEF PlanStep

LEMMA MainTypeStep == MainType /\ [Next]_vars => MainType'
<1>. SUFFICES ASSUME MainType, [Next]_vars PROVE MainType'
  OBVIOUS
<1>. USE DEF MainType
<1>1. Len(Plan) \in Nat
  BY PlanAssumption
<1>2. ASSUME NextStep, UNCHANGED timeLeft, step <= Len(Plan) PROVE MainType'
  BY <1>1, <1>2 DEF NextStep
<1>3. CASE Probe
  BY <1>3 DEF Probe, mainVars
<1>4. CASE Reconfigure
  BY <1>2, <1>4 DEF Reconfigure, AtOp
<1>5. CASE Skip
  BY <1>2, <1>5 DEF Skip, AtOp
<1>6. CASE BeginPolling
  <2>1. pc' = "poll" /\ timeLeft' = Plan[step].timeout /\ step' = step /\ step <= Len(Plan)
    BY <1>6 DEF BeginPolling, AtOp
  <2>2. Plan[step].timeout \in Nat \ {0}
    BY <2>1, PlanFacts DEF PlanStep
  <2>. QED
    BY <2>1, <2>2
<1>7. CASE Answered
  BY <1>2, <1>7 DEF Answered
<1>8. CASE Unanswered
  <2>1. pc = "poll" /\ timeLeft' = timeLeft - 1 /\ step <= Len(Plan) /\ timeLeft' \in Nat
    BY <1>8 DEF Unanswered
  <2>2. CASE timeLeft' > 0 /\ UNCHANGED <<pc, step, judged, resultsVars>>
    BY <2>1, <2>2
  <2>3. CASE NextStep
    BY <1>1, <2>1, <2>3 DEF NextStep
  <2>. QED
    BY <1>8, <2>2, <2>3 DEF Unanswered
<1>9. CASE ConsoleRaises
  BY <1>9 DEF ConsoleRaises
<1>10. CASE Finish
  BY <1>10 DEF Finish
<1>11. CASE UNCHANGED vars
  BY <1>11 DEF vars, mainVars
<1>. QED
  BY <1>3, <1>4, <1>5, <1>6, <1>7, <1>8, <1>9, <1>10, <1>11 DEF Next, Main, Done

LEMMA NetTypeStep == NetType /\ [Next]_vars => NetType'
<1>. SUFFICES ASSUME NetType, [Next]_vars PROVE NetType'
  OBVIOUS
<1>1. CASE Reconfigure
  BY <1>1 DEF Reconfigure, NetType
<1>2. CASE UNCHANGED netVars
  BY <1>2 DEF netVars, NetType
<1>. QED
  BY <1>1, <1>2, Movers DEF Probe, Answered, Unanswered

LEMMA GuestTypeStep == NetType /\ GuestType /\ [Next]_vars => GuestType'
<1>. SUFFICES ASSUME NetType, GuestType, [Next]_vars PROVE GuestType'
  OBVIOUS
<1>1. epoch \in Nat
  BY DEF NetType
<1>2. CASE UNCHANGED <<guestVars, netVars, printed>>
  BY <1>2 DEF GuestType, guestVars, netVars, Line
<1>3. CASE Probe
  <2>. DEFINE line == [to |-> Target[turn], ok |-> got, epoch |-> began]
  <2>1. epoch' = epoch /\ Line' = Line
    BY <1>3 DEF Probe, netVars, Line
  <2>2. line \in Line
    BY DEF GuestType, Line, Targets
  <2>3. lines' \in Seq(Line) /\ Len(lines') <= Window
    <3>1. Append(lines, line) \in Seq(Line)
      BY <2>2 DEF GuestType
    <3>2. lines' = LastLines(Append(lines, line))
      BY <1>3 DEF Probe
    <3>. HIDE DEF line
    <3>3. Len(Append(lines, line)) \in Nat
      BY <3>1
    <3>4. Len(LastLines(Append(lines, line))) <= Window
      <4>1. Len(LastLines(Append(lines, line))) =
              IF Len(Append(lines, line)) > Window THEN Window ELSE Len(Append(lines, line))
        BY <3>1, LastLinesFacts
      <4>. QED
        BY <3>3, <4>1, WindowAssumption
    <3>5. LastLines(Append(lines, line)) \in Seq(Line)
      BY <3>1, LastLinesFacts
    <3>. QED
      BY <3>2, <3>4, <3>5
  <2>4. turn' \in DOMAIN Target
    <3>1. turn' = (turn % Len(Target)) + 1 /\ Len(Target) \in Nat /\ Len(Target) > 0
      BY <1>3, TargetAssumption DEF Probe
    <3>2. DOMAIN Target = 1..Len(Target) /\ turn \in Nat
      BY TargetAssumption DEF GuestType
    <3>3. turn % Len(Target) \in 0..(Len(Target) - 1)
      BY <3>1, <3>2
    <3>. QED
      BY <3>1, <3>2, <3>3
  <2>5. /\ began' \in 0..epoch' /\ got' \in BOOLEAN
        /\ printed' \in 0..(Window + 1)
    BY <1>1, <1>3, <2>1, WindowAssumption DEF Probe, GuestType
  <2>. QED
    BY <2>1, <2>3, <2>4, <2>5 DEF GuestType
<1>4. CASE Reconfigure
  <2>1. epoch' = epoch + 1 /\ UNCHANGED <<lines, turn, began>> /\ printed' = 0
        /\ got' = (got \/ Target[turn] \in reach')
    BY <1>4 DEF Reconfigure
  <2>2. Line \subseteq Line'
    BY <1>1, <2>1 DEF Line
  <2>3. lines \in Seq(Line')
    BY <2>2 DEF GuestType
  <2>4. got' \in BOOLEAN /\ began' \in 0..epoch' /\ printed' \in 0..(Window + 1)
    BY <1>1, <2>1, WindowAssumption DEF GuestType
  <2>. QED
    BY <2>1, <2>3, <2>4 DEF GuestType
<1>. QED
  BY <1>2, <1>3, <1>4, Movers DEF Answered, Unanswered

\* The new line is the last one, and older lines keep their order.
LEMMA ProbeLines ==
  ASSUME GuestType, Probe, NEW i \in DOMAIN lines'
  PROVE  \E j \in 1..(Len(lines) + 1) :
           /\ i + (Len(lines) + 1) = j + Len(lines')
           /\ \/ j \in DOMAIN lines /\ lines'[i] = lines[j]
              \/ /\ j = Len(lines) + 1
                 /\ lines'[i] = [to |-> Target[turn], ok |-> got, epoch |-> began]
<1>. DEFINE line == [to |-> Target[turn], ok |-> got, epoch |-> began]
            all == Append(lines, line)
<1>1. lines' = LastLines(all)
  BY DEF Probe
<1>2. line \in Line /\ lines \in Seq(Line)
  BY DEF GuestType, Line, Targets
<1>. HIDE DEF line
<1>3. /\ all \in Seq(Line) /\ Len(all) = Len(lines) + 1 /\ Len(lines) \in Nat
      /\ \A j \in 1..(Len(lines) + 1) :
           (j \in DOMAIN lines /\ all[j] = lines[j]) \/ (j = Len(lines) + 1 /\ all[j] = line)
  BY <1>2
<1>. HIDE DEF all
<1>4. /\ lines' \in Seq(Line)
      /\ Len(lines') = IF Len(all) > Window THEN Window ELSE Len(all)
      /\ lines'[i] = all[i + (Len(all) - Len(lines'))]
  BY <1>1, <1>3, LastLinesFacts
<1>5. i \in 1..Len(lines') /\ Len(lines') \in Nat /\ Len(lines') <= Len(lines) + 1
  BY <1>3, <1>4, WindowAssumption
<1>. DEFINE j == i + (Len(all) - Len(lines'))
<1>6. j \in 1..(Len(lines) + 1) /\ i + (Len(lines) + 1) = j + Len(lines')
  <2>1. Len(all) = Len(lines) + 1 /\ Len(lines) \in Nat
    BY <1>3
  <2>2. i \in Nat /\ 1 <= i /\ i <= Len(lines')
    BY <1>5
  <2>3. j = i + (Len(lines) + 1 - Len(lines'))
    BY <2>1
  <2>. HIDE DEF j
  <2>. QED
    BY <1>5, <2>1, <2>2, <2>3
<1>7. lines'[i] = all[j]
  BY <1>4
<1>. HIDE DEF j
<1>. QED
  BY <1>3, <1>6, <1>7 DEF line

\* A verdict is a subtest of the report.
LEMMA EvidenceFacts ==
  ASSUME GuestType, NEW s \in PlanStep, Evidence(s) # {}
  PROVE  /\ Latest(Evidence(s)) \in DOMAIN lines
         /\ lines[Latest(Evidence(s))] \in Line
         /\ lines[Latest(Evidence(s))].to = s.to
<1>1. \A i \in Evidence(s) : i \in DOMAIN lines /\ lines[i].to = s.to
  BY DEF Evidence, PingEvidence, SshEvidence, Lines
<1>2. Len(lines) \in Nat /\ DOMAIN lines = 1..Len(lines)
  BY DEF GuestType
<1>3. Latest(Evidence(s)) \in Evidence(s)
  BY <1>1, <1>2, LatestExists
<1>. QED
  BY <1>1, <1>3 DEF GuestType

LEMMA ReportStep ==
  Types /\ [Next]_vars =>
    \/ \E name \in Targets, ok \in BOOLEAN : add_subtest(name, ok)
    \/ UNCHANGED resultsVars
<1>. SUFFICES ASSUME Types, [Next]_vars
              PROVE  \/ \E name \in Targets, ok \in BOOLEAN : add_subtest(name, ok)
                     \/ UNCHANGED resultsVars
  OBVIOUS
<1>1. pc = "poll" => Plan[step].to \in Targets
  BY PlanFacts DEF Types, MainType
<1>2. CASE Answered
  <2>. DEFINE ok == AsExpected(Plan[step], lines[Latest(Evidence(Plan[step]))].ok)
  <2>1. pc = "poll" /\ add_subtest(Plan[step].to, ok)
    BY <1>2 DEF Answered
  <2>2. ok \in BOOLEAN
    BY DEF AsExpected
  <2>. HIDE DEF ok
  <2>. QED
    BY <1>1, <2>1, <2>2
<1>3. CASE Unanswered
  <2>1. pc = "poll" /\ (add_failure(Plan[step].to) \/ UNCHANGED resultsVars)
    BY <1>3 DEF Unanswered
  <2>2. add_failure(Plan[step].to) => add_subtest(Plan[step].to, FALSE)
    BY DEF add_subtest
  <2>. QED
    BY <1>1, <2>1, <2>2
<1>. QED
  BY <1>2, <1>3, Movers DEF Probe, Reconfigure

LEMMA ResultsStep ==
  Types /\ [Next]_vars =>
    /\ ResultsTypeOK(Targets)'
    /\ \/ Report!Next
       \/ UNCHANGED <<test_result, num_tests - num_tests_failed, num_tests_failed>>
<1>. SUFFICES ASSUME Types, [Next]_vars
              PROVE  /\ ResultsTypeOK(Targets)'
                     /\ \/ Report!Next
                        \/ UNCHANGED <<test_result, num_tests - num_tests_failed,
                                       num_tests_failed>>
  OBVIOUS
<1>1. ResultsTypeOK(Targets) /\ Targets' = Targets
  BY DEF Types, Targets
<1>2. CASE UNCHANGED resultsVars
  BY <1>1, <1>2, SameResults
<1>3. ASSUME NEW name \in Targets, NEW ok \in BOOLEAN, add_subtest(name, ok)
      PROVE  ResultsTypeOK(Targets)' /\ Report!Next
  BY <1>1, <1>3, AddSubtestStep
<1>. QED
  BY <1>2, <1>3, ReportStep

-----------------------------------------------------------------------------
LEMMA TruthStep == Types /\ TruthInv /\ [Next]_vars => TruthInv'
<1>. SUFFICES ASSUME Types, TruthInv, [Next]_vars PROVE TruthInv'
  OBVIOUS
<1>1. epoch \in Nat /\ GuestType
  BY DEF Types, NetType
<1>2. CASE UNCHANGED <<guestVars, netVars>>
  BY <1>2 DEF TruthInv, guestVars, netVars
<1>3. CASE Probe
  <2>1. /\ UNCHANGED <<epoch, reach>>
        /\ got' = (Target[turn'] \in reach)
    BY <1>3 DEF Probe, netVars
  <2>2. ASSUME NEW i \in DOMAIN lines', lines'[i].epoch = epoch
        PROVE  lines'[i].ok <=> lines'[i].to \in reach
    <3>1. PICK j : \/ j \in DOMAIN lines /\ lines'[i] = lines[j]
                   \/ lines'[i] = [to |-> Target[turn], ok |-> got, epoch |-> began]
      BY <1>1, <1>3, ProbeLines
    <3>2. CASE j \in DOMAIN lines /\ lines'[i] = lines[j]
      BY <2>2, <3>2 DEF TruthInv
    <3>3. CASE lines'[i] = [to |-> Target[turn], ok |-> got, epoch |-> began]
      BY <2>2, <3>3 DEF TruthInv
    <3>. QED
      BY <3>1, <3>2, <3>3
  <2>. QED
    BY <2>1, <2>2 DEF TruthInv
<1>4. CASE Reconfigure
  <2>1. epoch' = epoch + 1 /\ UNCHANGED <<lines, began>>
    BY <1>4 DEF Reconfigure
  <2>2. began # epoch'
    BY <1>1, <2>1 DEF GuestType
  <2>3. ASSUME NEW i \in DOMAIN lines PROVE lines[i].epoch # epoch'
    <3>1. lines[i] \in Line
      BY <1>1 DEF GuestType
    <3>2. lines[i].epoch \in 0..epoch
      BY <3>1 DEF Line
    <3>. QED
      BY <1>1, <2>1, <3>2
  <2>. QED
    BY <2>1, <2>2, <2>3 DEF TruthInv
<1>. QED
  BY <1>2, <1>3, <1>4, Movers DEF Answered, Unanswered

LEMMA RecentStep == Types /\ RecentInv /\ [Next]_vars => RecentInv'
<1>. SUFFICES ASSUME Types, RecentInv, [Next]_vars PROVE RecentInv'
  OBVIOUS
<1>1. /\ GuestType /\ Len(lines) \in Nat /\ Len(lines) <= Window
      /\ printed \in 0..(Window + 1) /\ Window \in Nat
  BY WindowAssumption DEF Types, GuestType
<1>2. CASE UNCHANGED <<guestVars, netVars, printed>>
  BY <1>2 DEF RecentInv, guestVars, netVars
<1>3. CASE Probe
  <2>1. /\ epoch' = epoch /\ began' = epoch
        /\ printed' = IF printed > Window THEN printed ELSE printed + 1
    BY <1>3 DEF Probe, netVars
  <2>2. ASSUME NEW i \in DOMAIN lines', i + printed' > Len(lines') + 1
        PROVE  lines'[i].epoch = epoch
    <3>1. PICK j \in 1..(Len(lines) + 1) :
            /\ i + (Len(lines) + 1) = j + Len(lines')
            /\ \/ j \in DOMAIN lines /\ lines'[i] = lines[j]
               \/ /\ j = Len(lines) + 1
                  /\ lines'[i] = [to |-> Target[turn], ok |-> got, epoch |-> began]
      BY <1>1, <1>3, ProbeLines
    <3>2. i \in Nat /\ Len(lines') \in Nat
      <4>1. GuestType'
        BY GuestTypeStep DEF Types
      <4>. QED
        BY <4>1 DEF GuestType
    <3>3. CASE j \in DOMAIN lines /\ lines'[i] = lines[j]
      <4>1. j + printed > Len(lines) + 1
        BY <1>1, <2>1, <2>2, <3>1, <3>2
      <4>. QED
        BY <3>3, <4>1 DEF RecentInv
    <3>4. CASE /\ j = Len(lines) + 1
               /\ lines'[i] = [to |-> Target[turn], ok |-> got, epoch |-> began]
      <4>1. printed > 0
        BY <1>1, <2>1, <2>2, <3>1, <3>2, <3>4, WindowAssumption
      <4>. QED
        BY <3>4, <4>1 DEF RecentInv
    <3>. QED
      BY <3>1, <3>3, <3>4
  <2>. QED
    BY <2>1, <2>2 DEF RecentInv
<1>4. CASE Reconfigure
  <2>1. printed' = 0 /\ UNCHANGED lines
    BY <1>4 DEF Reconfigure
  <2>2. \A i \in DOMAIN lines : ~(i + 0 > Len(lines) + 1)
    BY <1>1 DEF GuestType
  <2>. QED
    BY <2>1, <2>2 DEF RecentInv
<1>. QED
  BY <1>2, <1>3, <1>4, Movers DEF Answered, Unanswered

\* An answer of the present network is true, and is due once the window is new.
LEMMA JudgedStep ==
  Types /\ TruthInv /\ RecentInv /\ JudgedInv /\ [Next]_vars => JudgedInv'
<1>. SUFFICES ASSUME Types, TruthInv, RecentInv, JudgedInv, [Next]_vars
              PROVE  JudgedInv'
  OBVIOUS
<1>1. CASE UNCHANGED judged
  BY <1>1 DEF JudgedInv, FreshVerdictsAreTrue, StaleOnlyWithinWindow
<1>2. CASE Answered
  <2>. DEFINE s == Plan[step]
              i == Latest(Evidence(s))
              l == lines[i]
              ok == AsExpected(s, l.ok)
              result == IF ok THEN "PASS" ELSE "FAIL"
              fresh == l.epoch = epoch
              due == AsExpected(s, s.to \in reach)
              j == [at |-> step, by |-> "answer", result |-> result,
                    fresh |-> fresh, printed |-> printed, due |-> due]
  <2>1. judged' = judged \cup {j} /\ pc = "poll" /\ Evidence(s) # {}
    BY <1>2 DEF Answered, Judge
  <2>2. s \in PlanStep
    BY <2>1, PlanFacts DEF Types, MainType
  <2>3. i \in DOMAIN lines /\ l \in Line /\ l.to = s.to
    BY <2>1, <2>2, EvidenceFacts DEF Types
  <2>4. fresh => (result = "PASS" <=> due)
    <3>1. ASSUME fresh PROVE l.ok = (s.to \in reach)
      <4>1. l.ok <=> s.to \in reach
        BY <2>3, <3>1 DEF TruthInv
      <4>2. l.ok \in BOOLEAN
        BY <2>3 DEF Line
      <4>. QED
        BY <4>1, <4>2
    <3>2. fresh => (ok <=> due)
      BY <3>1
    <3>3. result = "PASS" <=> ok
      <4>. HIDE DEF ok
      <4>. QED
        OBVIOUS
    <3>. HIDE DEF ok, due, result, fresh
    <3>. QED
      BY <3>2, <3>3
  <2>5. fresh \/ printed <= Window
    <3>1. Len(lines) \in Nat /\ i \in 1..Len(lines) /\ printed \in Nat
      BY <2>3, WindowAssumption DEF Types, GuestType
    <3>2. printed <= Window \/ i + printed > Len(lines) + 1
      BY <3>1, WindowAssumption DEF Types, GuestType
    <3>. QED
      BY <2>3, <3>2 DEF RecentInv
  <2>6. j.by = "answer" /\ j.fresh = fresh /\ j.result = result
          /\ j.printed = printed /\ j.due = due
    <3>. HIDE DEF result, fresh, due
    <3>. QED
      OBVIOUS
  <2>. HIDE DEF j, result, fresh, due
  <2>. QED
    BY <2>1, <2>4, <2>5, <2>6
    DEF JudgedInv, FreshVerdictsAreTrue, StaleOnlyWithinWindow
<1>3. CASE Unanswered
  <2>1. ASSUME NEW j \in judged' PROVE j \in judged \/ j.by = "timeout"
    BY <1>3 DEF Unanswered, Judge
  <2>. QED
    BY <2>1 DEF JudgedInv, FreshVerdictsAreTrue, StaleOnlyWithinWindow
<1>. QED
  BY <1>1, <1>2, <1>3, Movers DEF Probe, Reconfigure, mainVars

-----------------------------------------------------------------------------
\* The subtests behind are finitely many; so are those up to one of them.
LEMMA BehindFinite ==
  ASSUME MainType
  PROVE  /\ IsFiniteSet(SubtestsBehind) /\ Cardinality(SubtestsBehind) \in Nat
         /\ \A i \in SubtestsBehind : RowOf(i) \in 1..Cardinality(SubtestsBehind)
<1>1. step \in Nat
  BY PlanAssumption DEF MainType
<1>2. IsFiniteSet(1..(step - 1))
  BY <1>1, FS_Interval
<1>3. SubtestsBehind \in SUBSET (1..(step - 1))
  BY DEF SubtestsBehind
<1>4. IsFiniteSet(SubtestsBehind)
  BY <1>2, <1>3, FS_Subset
<1>5. ASSUME NEW i \in SubtestsBehind
      PROVE  RowOf(i) \in 1..Cardinality(SubtestsBehind)
  <2>. DEFINE T == {k \in SubtestsBehind : k <= i}
  <2>1. T \in SUBSET SubtestsBehind
    OBVIOUS
  <2>2. IsFiniteSet(T) /\ Cardinality(T) <= Cardinality(SubtestsBehind)
    BY <1>4, <2>1, FS_Subset
  <2>3. i \in T
    BY <1>1, <1>3
  <2>. HIDE DEF T
  <2>4. Cardinality(T) # 0
    BY <2>2, <2>3, FS_EmptySet
  <2>5. Cardinality(T) \in Nat /\ Cardinality(SubtestsBehind) \in Nat
    BY <1>4, <2>2, FS_CardinalityType
  <2>6. RowOf(i) = Cardinality(T)
    BY DEF RowOf, T
  <2>. QED
    BY <2>2, <2>4, <2>5, <2>6
<1>. QED
  BY <1>4, <1>5, FS_CardinalityType

\* A step that is no subtest leaves the subtests behind as they are.
LEMMA NoSubtestPassed ==
  ASSUME MainType, \/ step' = step
                   \/ step' = step + 1 /\ Plan[step].op \notin {"ping", "ssh"}
  PROVE  /\ SubtestsBehind' = SubtestsBehind
         /\ \A i : RowOf(i)' = RowOf(i)
<1>1. step \in Nat
  BY PlanAssumption DEF MainType
<1>2. SubtestsBehind' = SubtestsBehind
  <2>1. CASE step' = step
    BY <2>1 DEF SubtestsBehind
  <2>2. CASE step' = step + 1 /\ Plan[step].op \notin {"ping", "ssh"}
    <3>1. \A i : i \in 1..(step' - 1) <=> i \in 1..(step - 1) \/ (i = step /\ step >= 1)
      BY <1>1, <2>2
    <3>2. \A i : i \in SubtestsBehind' <=> i \in SubtestsBehind
      BY <2>2, <3>1 DEF SubtestsBehind
    <3>. QED
      BY <3>2 DEF SubtestsBehind
  <2>. QED
    BY <2>1, <2>2
<1>. QED
  BY <1>2 DEF RowOf

\* A subtest passed is the last one behind, and gets the next row.
LEMMA SubtestPassed ==
  ASSUME MainType, step' = step + 1, Plan[step].op \in {"ping", "ssh"}
  PROVE  /\ SubtestsBehind' = SubtestsBehind \cup {step}
         /\ Cardinality(SubtestsBehind)' = Cardinality(SubtestsBehind) + 1
         /\ \A i : i = step => RowOf(i)' = Cardinality(SubtestsBehind) + 1
         /\ \A i \in SubtestsBehind : RowOf(i)' = RowOf(i)
<1>1. step \in Nat /\ step >= 1
  BY PlanAssumption DEF MainType
<1>2. SubtestsBehind' = SubtestsBehind \cup {step}
  <2>1. \A i : i \in 1..(step' - 1) <=> i \in 1..(step - 1) \/ i = step
    BY <1>1
  <2>2. \A i : i \in SubtestsBehind' <=> i \in SubtestsBehind \/ i = step
    BY <2>1 DEF SubtestsBehind
  <2>. QED
    BY <2>2 DEF SubtestsBehind
<1>3. \A i \in SubtestsBehind : i \in Nat /\ i < step
  BY <1>1 DEF SubtestsBehind
<1>4. Cardinality(SubtestsBehind \cup {step}) = Cardinality(SubtestsBehind) + 1
  <2>1. step \notin SubtestsBehind
    BY <1>1, <1>3
  <2>2. IsFiniteSet(SubtestsBehind)
    BY BehindFinite
  <2>. QED
    BY <2>1, <2>2, FS_AddElement
<1>5. {k \in SubtestsBehind \cup {step} : k <= step} = SubtestsBehind \cup {step}
  BY <1>1, <1>3
<1>6. ASSUME NEW i \in SubtestsBehind
      PROVE  {k \in SubtestsBehind \cup {step} : k <= i} = {k \in SubtestsBehind : k <= i}
  BY <1>1, <1>3
<1>7. ASSUME NEW i, i = step PROVE RowOf(i)' = Cardinality(SubtestsBehind) + 1
  BY <1>2, <1>4, <1>5, <1>7 DEF RowOf
<1>8. \A i \in SubtestsBehind : RowOf(i)' = RowOf(i)
  BY <1>2, <1>6 DEF RowOf
<1>. QED
  BY <1>2, <1>4, <1>7, <1>8

\* A verdict is one row at the end, and no other row changes.
LEMMA VerdictReported ==
  ASSUME Types, ReportedInv, pc = "poll", step' = step + 1, broken' = broken,
         NEW ok \in BOOLEAN, add_subtest(Plan[step].to, ok),
         NEW j, judged' = judged \cup {j}, j.at = step,
         j.result = IF ok THEN "PASS" ELSE "FAIL"
  PROVE  EverySubtestReported'
<1>. DEFINE Row == [name : Targets, result : {"PASS", "FAIL"}]
            row == [name |-> Plan[step].to, result |-> j.result]
            n == Cardinality(SubtestsBehind)
<1>1. MainType /\ Plan[step].to \in Targets /\ Plan[step].op \in {"ping", "ssh"}
  BY PlanFacts DEF Types, MainType, ReportedInv, PollInv
<1>2. details' = Append(details, row)
  BY <1>1, AddSubtestStep DEF Types
<1>3. details \in Seq(Row) /\ row \in Row
  BY <1>1 DEF Types, ResultsTypeOK
<1>. HIDE DEF Row, row
<1>. SUFFICES ASSUME ~broken PROVE EverySubtestReported'
  BY DEF EverySubtestReported
<1>4. Len(details) = n
  BY DEF ReportedInv, EverySubtestReported
<1>5. n \in Nat /\ \A i \in SubtestsBehind : RowOf(i) \in 1..n
  BY <1>1, BehindFinite
<1>6. /\ SubtestsBehind' = SubtestsBehind \cup {step}
      /\ Cardinality(SubtestsBehind)' = n + 1
      /\ \A i : i = step => RowOf(i)' = n + 1
      /\ \A i \in SubtestsBehind : RowOf(i)' = RowOf(i)
  BY <1>1, SubtestPassed
<1>. HIDE DEF n
<1>7. /\ Len(details') = n + 1 /\ details'[n + 1] = row
      /\ \A k \in 1..n : details'[k] = details[k]
  BY <1>2, <1>3, <1>4, <1>5
<1>8. ASSUME NEW i \in SubtestsBehind'
      PROVE  \E v \in judged' :
               /\ v.at = i
               /\ details'[RowOf(i)'] = [name |-> Plan[i].to, result |-> v.result]
  <2>1. CASE i = step
    <3>1. details'[RowOf(i)'] = row /\ j \in judged'
      BY <1>6, <1>7, <2>1
    <3>. QED
      BY <2>1, <3>1 DEF row
  <2>2. CASE i \in SubtestsBehind
    <3>1. PICK v \in judged :
            /\ v.at = i
            /\ details[RowOf(i)] = [name |-> Plan[i].to, result |-> v.result]
      BY <2>2 DEF ReportedInv, EverySubtestReported
    <3>2. RowOf(i)' = RowOf(i) /\ RowOf(i) \in 1..n
      BY <1>5, <1>6, <2>2
    <3>3. details'[RowOf(i)'] = details[RowOf(i)]
      BY <1>7, <3>2
    <3>. QED
      BY <3>1, <3>3
  <2>. QED
    BY <1>6, <2>1, <2>2
<1>. QED
  BY <1>6, <1>7, <1>8 DEF EverySubtestReported

\* Unless userdata failed, main passes a subtest only with a verdict.
LEMMA ReportedStep == Types /\ ReportedInv /\ [Next]_vars => ReportedInv'
<1>. SUFFICES ASSUME Types, ReportedInv, [Next]_vars PROVE ReportedInv'
  OBVIOUS
<1>0. MainType /\ step \in Nat
  BY PlanAssumption DEF Types, MainType
<1>1. ASSUME UNCHANGED <<broken, details>>, judged \subseteq judged',
             SubtestsBehind' = SubtestsBehind, \A i : RowOf(i)' = RowOf(i)
      PROVE  EverySubtestReported'
  BY <1>1 DEF ReportedInv, EverySubtestReported
<1>2. CASE UNCHANGED <<netVars, mainVars, resultsVars>>
  <2>1. UNCHANGED <<broken, details, judged, step, pc>>
    BY <1>2 DEF netVars, mainVars, resultsVars
  <2>. QED
    BY <1>0, <1>1, <2>1, NoSubtestPassed DEF ReportedInv, PollInv
<1>3. CASE Reconfigure
  <2>1. /\ Plan[step].op \notin {"ping", "ssh"} /\ step' = step + 1 /\ pc' = "step"
        /\ UNCHANGED <<broken, details, judged>>
    BY <1>3 DEF Reconfigure, AtOp, NextStep, resultsVars
  <2>. QED
    BY <1>0, <1>1, <2>1, NoSubtestPassed DEF ReportedInv, PollInv
<1>4. CASE Skip
  BY <1>4 DEF Skip, AtOp, NextStep, netVars, ReportedInv, PollInv, EverySubtestReported
<1>5. CASE BeginPolling \/ ConsoleRaises \/ Finish
  <2>1. UNCHANGED <<broken, details, judged, step>>
    BY <1>5 DEF BeginPolling, ConsoleRaises, Finish, netVars, resultsVars
  <2>2. PollInv'
    BY <1>5, <2>1 DEF BeginPolling, ConsoleRaises, Finish, AtOp, PollInv
  <2>. QED
    BY <1>0, <1>1, <2>1, <2>2, NoSubtestPassed DEF ReportedInv
<1>6. CASE Answered
  <2>. DEFINE s == Plan[step]
              l == lines[Latest(Evidence(s))]
              ok == AsExpected(s, l.ok)
              result == IF ok THEN "PASS" ELSE "FAIL"
              fresh == l.epoch = epoch
              due == AsExpected(s, s.to \in reach)
              j == [at |-> step, by |-> "answer", result |-> result,
                    fresh |-> fresh, printed |-> printed, due |-> due]
  <2>1. /\ pc = "poll" /\ add_subtest(s.to, ok) /\ judged' = judged \cup {j}
        /\ step' = step + 1 /\ pc' = "step" /\ broken' = broken
    BY <1>6 DEF Answered, Judge, NextStep, netVars
  <2>2. ok \in BOOLEAN
    BY DEF AsExpected
  <2>3. j.at = step /\ j.result = result
    <3>. HIDE DEF result, fresh, due
    <3>. QED
      OBVIOUS
  <2>4. result = IF ok THEN "PASS" ELSE "FAIL"
    OBVIOUS
  <2>. HIDE DEF j, result, ok
  <2>5. EverySubtestReported'
    BY <2>1, <2>2, <2>3, <2>4, VerdictReported
  <2>. QED
    BY <2>1, <2>5 DEF ReportedInv, PollInv
<1>7. CASE Unanswered
  <2>1. pc = "poll" /\ broken' = broken
    BY <1>7 DEF Unanswered, netVars
  <2>2. CASE UNCHANGED <<pc, step, judged, resultsVars>>
    <3>1. UNCHANGED <<details, judged, step, pc>>
      BY <2>2 DEF resultsVars
    <3>. QED
      BY <1>0, <1>1, <2>1, <3>1, NoSubtestPassed DEF ReportedInv, PollInv
  <2>3. CASE /\ add_failure(Plan[step].to)
             /\ Judge("timeout", "FAIL", FALSE)
             /\ NextStep
    <3>. DEFINE due == AsExpected(Plan[step], Plan[step].to \in reach)
                j == [at |-> step, by |-> "timeout", result |-> "FAIL",
                      fresh |-> FALSE, printed |-> printed, due |-> due]
    <3>1. /\ add_subtest(Plan[step].to, FALSE) /\ judged' = judged \cup {j}
          /\ step' = step + 1 /\ pc' = "step"
      BY <2>3 DEF add_subtest, Judge, NextStep
    <3>2. j.at = step /\ j.result = IF FALSE THEN "PASS" ELSE "FAIL"
      <4>. HIDE DEF due
      <4>. QED
        OBVIOUS
    <3>. HIDE DEF j
    <3>3. EverySubtestReported'
      BY <2>1, <3>1, <3>2, VerdictReported
    <3>. QED
      BY <3>1, <3>3 DEF ReportedInv, PollInv
  <2>. QED
    BY <1>7, <2>2, <2>3 DEF Unanswered
<1>8. CASE Probe \/ Done \/ UNCHANGED vars
  BY <1>2, <1>8 DEF Probe, Done, vars
<1>. QED
  BY <1>3, <1>4, <1>5, <1>6, <1>7, <1>8 DEF Next, Main

-----------------------------------------------------------------------------
LEMMA InitInv == Init => IInv
<1>. SUFFICES ASSUME Init PROVE IInv
  OBVIOUS
<1>1. ResultsTypeOK(Targets)
  BY InitResults DEF Init
<1>2. NetType /\ MainType
  BY PlanAssumption DEF Init, NetType, MainType
<1>3. GuestType
  <2>1. 1 \in DOMAIN Target
    BY TargetAssumption
  <2>2. <<>> \in Seq(Line) /\ Len(<<>>) <= Window
    BY WindowAssumption
  <2>. QED
    BY <2>1, <2>2, WindowAssumption DEF Init, GuestType
<1>4. TruthInv /\ RecentInv
  <2>1. DOMAIN lines = {} /\ printed = 0 /\ turn = 1
    BY DEF Init
  <2>2. got <=> Target[1] \in reach
    BY DEF Init
  <2>. QED
    BY <2>1, <2>2 DEF TruthInv, RecentInv
<1>5. JudgedInv
  BY DEF Init, JudgedInv, FreshVerdictsAreTrue, StaleOnlyWithinWindow
<1>6. ReportedInv
  <2>1. SubtestsBehind = {} /\ Len(details) = 0 /\ pc = "step"
    BY DEF Init, ResultsInit, SubtestsBehind
  <2>. QED
    BY <2>1, FS_EmptySet DEF ReportedInv, PollInv, EverySubtestReported
<1>. QED
  BY <1>1, <1>2, <1>3, <1>4, <1>5, <1>6 DEF IInv, Types

LEMMA Inductive == IInv /\ [Next]_vars => IInv'
<1>. SUFFICES ASSUME IInv, [Next]_vars PROVE IInv'
  OBVIOUS
<1>1. Types'
  BY MainTypeStep, NetTypeStep, GuestTypeStep, ResultsStep DEF IInv, Types
<1>. QED
  BY <1>1, TruthStep, RecentStep, JudgedStep, ReportedStep DEF IInv

LEMMA Invariant == Spec => []IInv
BY InitInv, Inductive, PTL DEF Spec

(***************************************************************************)
(* Every variable keeps its type.                                          *)
(***************************************************************************)
THEOREM TypeCorrect == Spec => []TypeOK
<1>1. IInv => TypeOK
  BY DEF IInv, Types, NetType, GuestType, MainType, TypeOK
<1>. QED
  BY <1>1, Invariant, PTL

(***************************************************************************)
(* A verdict on a probe of the present network tells the truth about it.   *)
(***************************************************************************)
THEOREM FreshIsTrue == Spec => []FreshVerdictsAreTrue
<1>1. IInv => FreshVerdictsAreTrue
  BY DEF IInv, JudgedInv
<1>. QED
  BY <1>1, Invariant, PTL

(***************************************************************************)
(* A verdict is about an earlier network only if the guest has printed no  *)
(* more than Window lines since the change, whatever Window is.            *)
(***************************************************************************)
THEOREM WaitIsEnough == Spec => []StaleOnlyWithinWindow
<1>1. IInv => StaleOnlyWithinWindow
  BY DEF IInv, JudgedInv
<1>. QED
  BY <1>1, Invariant, PTL

(***************************************************************************)
(* For every plan: each subtest behind main has its one row, in the order  *)
(* of the plan, with its target and the result it was judged to have.      *)
(***************************************************************************)
THEOREM AllReported == Spec => []EverySubtestReported
<1>1. IInv => EverySubtestReported
  BY DEF IInv, ReportedInv
<1>. QED
  BY <1>1, Invariant, PTL

(***************************************************************************)
(* What the console subtests do to the Results is the abstract report.     *)
(***************************************************************************)
THEOREM Refines == Spec => ReportSpec
<1>1. Init => Report!Init
  BY InitResults DEF Init
<1>2. IInv /\ [Next]_vars =>
        [Report!Next]_<<test_result, num_tests - num_tests_failed, num_tests_failed>>
  BY ResultsStep DEF IInv
<1>. QED
  BY <1>1, <1>2, Invariant, PTL DEF Spec, ReportSpec, Report!Spec
=============================================================================
