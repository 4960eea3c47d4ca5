----------------------------- MODULE PingCheck -----------------------------
(***************************************************************************)
(* Subtests that read an instance's console.                               *)
(*                                                                         *)
(* An instance's userdata probes its targets in turn, for ever, and prints *)
(* one line per probe (generate_ping_userdata, generate_userdata_with_ssh).*)
(* get_ping_status and check_ssh_output poll the last lines of the console *)
(* until one of them is about their target, or the time is up.  Meanwhile  *)
(* main changes the network: it associates networks with a BGPVPN, deletes *)
(* the VPN, creates another.                                               *)
(*                                                                         *)
(* Abstractions.  A line is its target, its answer and the network it was  *)
(* probed in (epoch, not printed); the console is its last Window complete *)
(* lines, the only ones read.  main waits a fixed time after a change, and *)
(* the guest may print any number of lines in it (a probe takes up to 20   *)
(* seconds, the wait 30): waiting is not a step.  A new network takes      *)
(* effect at once, which is kinder to the checks than the dataplane.       *)
(***************************************************************************)
EXTENDS Results, FiniteSets

CONSTANTS
  Target,   \* Seq of the addresses the instance probes, in its cyclic order
  Window,   \* complete lines a poll reads: 4, the 5th of [-5:] is unfinished
  Plan,     \* [1..n -> PlanStep], what main does with this instance
  Networks  \* sets of targets that can be reachable

Targets == {Target[i] : i \in DOMAIN Target}

\* "change" makes a new network; "ping" and "ssh" are subtests.
PlanStep == [op : {"change", "ping", "ssh"}, to : Targets,
             expected : {"PASS", "FAIL"}, timeout : Nat \ {0}]

ASSUME TargetAssumption == Target \in Seq(STRING) /\ Len(Target) > 0
ASSUME WindowAssumption == Window \in Nat \ {0}
ASSUME PlanAssumption == Plan \in Seq(PlanStep)
ASSUME NetworksAssumption == Networks \subseteq SUBSET Targets

VARIABLES
  broken,   \* userdata failed: the console says so and nothing is probed
  lines,    \* the last complete lines of the console
  turn,     \* index of the target being probed
  began,    \* epoch in which this probe began
  got,      \* this probe got an answer
  reach,    \* the targets that are reachable
  epoch,    \* how many changes the network has seen
  printed,  \* lines completed since the last change, at most Window + 1
  pc,       \* "step", "poll", "done" or "raised"
  step,     \* next step of the plan
  timeLeft, \* polls left
  judged    \* history: how each subtest came to its result

guestVars == <<lines, turn, began, got>>
netVars == <<broken, reach, epoch>>
mainVars == <<pc, step, timeLeft, judged>>
vars == <<guestVars, netVars, printed, mainVars, resultsVars>>

Init ==
  /\ ResultsInit
  /\ broken \in BOOLEAN /\ reach \in Networks /\ epoch = 0
  /\ lines = <<>> /\ turn = 1 /\ began = 0 /\ got = (Target[1] \in reach)
  /\ printed = 0
  /\ pc = "step" /\ step = 1 /\ timeLeft = 0 /\ judged = {}

-----------------------------------------------------------------------------
(***************************************************************************)
(* The guest.                                                              *)
(***************************************************************************)
\* Mutant: the whole console is searched.
LastLines_All(s) == s

LastLines(s) == SubSeq(s, IF Len(s) > Window THEN Len(s) - Window + 1 ELSE 1, Len(s))

\* One probe (ten pings, or one ssh) is over, its line is printed and the
\* next begins.  A probe has an answer if the target was reachable at any
\* time in it.
Probe ==
  /\ ~broken
  /\ lines' = LastLines(Append(lines, [to |-> Target[turn], ok |-> got,
                                       epoch |-> began]))
  /\ turn' = (turn % Len(Target)) + 1
  /\ began' = epoch
  /\ got' = (Target[turn'] \in reach)
  /\ printed' = IF printed > Window THEN printed ELSE printed + 1
  /\ UNCHANGED <<netVars, mainVars, resultsVars>>

-----------------------------------------------------------------------------
(***************************************************************************)
(* main.                                                                   *)
(***************************************************************************)
AtOp(ops) == pc = "step" /\ step <= Len(Plan) /\ Plan[step].op \in ops

NextStep == step' = step + 1 /\ pc' = "step"

\* Associations, a VPN deleted or created: other targets are reachable.
Reconfigure ==
  /\ AtOp({"change"})
  /\ reach' \in Networks
  /\ epoch' = epoch + 1
  /\ got' = (got \/ Target[turn] \in reach')
  /\ printed' = 0
  /\ NextStep
  /\ UNCHANGED <<broken, lines, turn, began, timeLeft, judged, resultsVars>>

\* The console says "request failed": return False, and the caller drops it.
Skip ==
  /\ AtOp({"ping", "ssh"}) /\ broken
  /\ NextStep
  /\ UNCHANGED <<guestVars, netVars, printed, timeLeft, judged, resultsVars>>

BeginPolling ==
  /\ AtOp({"ping", "ssh"}) /\ ~broken
  /\ pc' = "poll" /\ timeLeft' = Plan[step].timeout
  /\ UNCHANGED <<guestVars, netVars, printed, step, judged, resultsVars>>

\* The lines of a window that say so of the target, and the latest of them.
Lines(t, ok) == {i \in DOMAIN lines : lines[i].to = t /\ lines[i].ok = ok}

Latest(I) == CHOOSE i \in I : \A j \in I : j <= i

\* "ping T OK" anywhere in the window counts before "ping T KO".
PingEvidence(t) ==
  IF Lines(t, TRUE) # {} THEN Lines(t, TRUE) ELSE Lines(t, FALSE)

\* A subtest that waits for "not reachable" waits for that line only.
SshEvidence(t, expected) ==
  IF expected = "FAIL" THEN Lines(t, FALSE)
  ELSE IF Lines(t, TRUE) # {} THEN Lines(t, TRUE) ELSE Lines(t, FALSE)

Evidence(s) == IF s.op = "ping" THEN PingEvidence(s.to)
                                ELSE SshEvidence(s.to, s.expected)

AsExpected(s, ok) == ok = (s.expected = "PASS")

Judge(by, result, fresh) ==
  judged' = judged \cup
    {[at |-> step, by |-> by, result |-> result, fresh |-> fresh,
      printed |-> printed,
      due |-> AsExpected(Plan[step], Plan[step].to \in reach)]}

\* Mutant: any line of the window is taken for one about the target.
Answered_AnyTarget ==
  /\ pc = "poll"
  /\ \E i \in DOMAIN lines :
       /\ i = Len(lines)
       /\ LET ok == AsExpected(Plan[step], lines[i].ok)
          IN /\ add_subtest(Plan[step].to, ok)
             /\ Judge("answer", IF ok THEN "PASS" ELSE "FAIL",
                      lines[i].epoch = epoch)
  /\ NextStep
  /\ UNCHANGED <<guestVars, netVars, printed, timeLeft>>

\* A poll that finds its line.
Answered ==
  /\ pc = "poll"
  /\ Evidence(Plan[step]) # {}
  /\ LET l  == lines[Latest(Evidence(Plan[step]))]
         ok == AsExpected(Plan[step], l.ok)
     IN /\ add_subtest(Plan[step].to, ok)
        /\ Judge("answer", IF ok THEN "PASS" ELSE "FAIL", l.epoch = epoch)
  /\ NextStep
  /\ UNCHANGED <<guestVars, netVars, printed, timeLeft>>

\* Mutant: the time that is left is not counted down.
Unanswered_KeepsPolling ==
  /\ pc = "poll"
  /\ Evidence(Plan[step]) = {}
  /\ UNCHANGED vars

\* Mutant: a timeout is logged and not reported.
Unanswered_Silent ==
  /\ pc = "poll"
  /\ Evidence(Plan[step]) = {}
  /\ timeLeft' = timeLeft - 1
  /\ \/ timeLeft' > 0 /\ UNCHANGED <<pc, step>>
     \/ timeLeft' = 0 /\ NextStep
  /\ UNCHANGED <<guestVars, netVars, printed, judged, resultsVars>>

\* A poll that does not: another second, or a failure when none is left.
Unanswered ==
  /\ pc = "poll"
  /\ Evidence(Plan[step]) = {}
  /\ timeLeft' = timeLeft - 1
  /\ \/ timeLeft' > 0 /\ UNCHANGED <<pc, step, judged, resultsVars>>
     \/ /\ timeLeft' = 0
        /\ add_failure(Plan[step].to)
        /\ Judge("timeout", "FAIL", FALSE)
        /\ NextStep
  /\ UNCHANGED <<guestVars, netVars, printed>>

\* Nova does not give the console: the exception leaves main.
ConsoleRaises ==
  /\ pc = "poll" \/ AtOp({"ping", "ssh"})
  /\ pc' = "raised"
  /\ UNCHANGED <<guestVars, netVars, printed, step, timeLeft, judged,
                 resultsVars>>

Finish ==
  /\ pc = "step" /\ step > Len(Plan)
  /\ pc' = "done"
  /\ UNCHANGED <<guestVars, netVars, printed, step, timeLeft, judged,
                 resultsVars>>

Terminal == pc \in {"done", "raised"}

Main == Reconfigure \/ Skip \/ BeginPolling \/ Answered \/ Unanswered
          \/ Finish

Done == Terminal /\ UNCHANGED vars

Next == Probe \/ Main \/ ConsoleRaises \/ Done

(***************************************************************************)
(* main is not stuck in a poll; the guest may stop printing at any time.   *)
(***************************************************************************)
Spec == Init /\ [][Next]_vars /\ WF_vars(Main)

-----------------------------------------------------------------------------
Line == [to : Targets, ok : BOOLEAN, epoch : 0..epoch]

TypeOK ==
  /\ ResultsTypeOK(Targets)
  /\ broken \in BOOLEAN /\ reach \in Networks /\ epoch \in Nat
  /\ lines \in Seq(Line) /\ Len(lines) <= Window
  /\ turn \in DOMAIN Target /\ began \in 0..epoch /\ got \in BOOLEAN
  /\ printed \in 0..(Window + 1)
  /\ pc \in {"step", "poll", "done", "raised"}
  /\ step \in 1..(Len(Plan) + 1) /\ timeLeft \in Nat

(***************************************************************************)
(* A verdict that rests on a probe of the present network tells the truth  *)
(* about it, whatever older lines the window holds: an answer is looked    *)
(* for about the right target, and OK and KO are weighed against what the  *)
(* subtest expects.                                                        *)
(***************************************************************************)
FreshVerdictsAreTrue ==
  \A j \in judged :
    j.by = "answer" /\ j.fresh => (j.result = "PASS" <=> j.due)

(***************************************************************************)
(* A verdict can rest on a probe of an earlier network only while the      *)
(* guest has printed no more than Window lines since the change: that many *)
(* probes is what the wait before a subtest has to last.                   *)
(***************************************************************************)
StaleOnlyWithinWindow ==
  \A j \in judged : j.by = "answer" /\ ~j.fresh => j.printed <= Window

\* The subtests of the plan that lie behind main, and the row of one of them.
SubtestsBehind == {i \in 1..(step - 1) : Plan[i].op \in {"ping", "ssh"}}

RowOf(i) == Cardinality({k \in SubtestsBehind : k <= i})

(***************************************************************************)
(* Unless userdata failed, the rows of the report are the subtests left    *)
(* behind, in the order of the plan, through answers and timeouts alike:   *)
(* each has one row, with its target and the result it was judged to have. *)
(***************************************************************************)
EverySubtestReported ==
  ~broken =>
    /\ Len(details) = Cardinality(SubtestsBehind)
    /\ \A i \in SubtestsBehind : \E j \in judged :
         /\ j.at = i
         /\ details[RowOf(i)] = [name |-> Plan[i].to, result |-> j.result]

\* main ends, though the guest may never print the line it waits for.
Ends == <>Terminal

(***************************************************************************)
(* compile_summary (results.py:194) calls a PASS "All the subtests have    *)
(* passed."                                                                *)
(***************************************************************************)
AllSubtestsPassed ==
  pc = "done" /\ test_result = "PASS" =>
    Len(SelectSeq(details, LAMBDA d : d.result = "PASS")) =
    Len(SelectSeq(Plan, LAMBDA s : s.op # "change"))

(***************************************************************************)
(* testcase_1.py:235 before its last subtests: "Waiting for the VMs to     *)
(* connect to each other using the updated network configuration", and so  *)
(* the verdict is about that configuration.  A guest that works prints a   *)
(* line in those 30 seconds, for a probe of ten pings takes 20 at most;    *)
(* only then is anything claimed here.                                     *)
(***************************************************************************)
UsesUpdatedConfiguration ==
  \A j \in judged :
    j.by = "answer" /\ j.printed > 0 => (j.result = "PASS" <=> j.due)
=============================================================================
