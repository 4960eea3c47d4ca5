----------------------------- MODULE VmMonitor -----------------------------
(***************************************************************************)
(* testcase_10: one monitor process per instance reads the console of the  *)
(* instance for failed pings and leaves a message in a dictionary it       *)
(* shares with main; main collects the messages, deletes vm_2, stops the   *)
(* monitors, creates vm_4 and monitors that one.                           *)
(*                                                                         *)
(* Abstractions.  An error message is TRUE.  A console is the sequence of  *)
(* its complete lines (the last element of split('\n') is the unfinished   *)
(* one); lines that are no ping result count as OK.  The guests do not     *)
(* ping in a fixed order.  The resources of the testcase are those of      *)
(* TestcaseLifecycle.                                                      *)
(***************************************************************************)
EXTENDS Results, FiniteSets

CONSTANTS
  Group,     \* the instances that ping each other at first
  Victim,    \* vm_2, deleted during the test
  Newcomer,  \* vm_4
  Pings,     \* [Group \cup {Newcomer} -> SUBSET of them], whom each one pings
  Ignored,   \* lines the monitor leaves out at the beginning: lines_offset = 20
  MaxLines   \* bound: lines an instance prints

VM == Group \cup {Newcomer}

ASSUME VictimAssumption == Victim \in Group /\ Newcomer \notin Group
ASSUME PingsAssumption == Pings \in [VM -> SUBSET VM]
ASSUME IgnoredAssumption == Ignored \in Nat /\ MaxLines \in Nat

VARIABLES
  alive,      \* the instances that exist
  asked,      \* nova has been asked to delete vm_2
  console,    \* [VM -> Seq(line)]
  interrupted,\* history: a ping between two instances that stay has failed
              \* since vm_2 was deleted
  mon,        \* [VM -> "idle", "loop", "poll", "scan" or "exited"]
  offset,     \* [VM -> lines_offset]
  at,         \* [VM -> next line of the scan]
  upto,       \* [VM -> last complete line of the console that was read]
  edge,       \* history: [VM -> lines that were unfinished when they were read]
  seen,       \* history: [VM -> lines that were looked at]
  stop,       \* [VM -> stop_thread]
  error_msg,  \* [VM -> an error message is set]
  pc,         \* where main is
  todo,       \* monitors main has yet to start, collect from, or stop
  threads,    \* main's list of monitors
  err,        \* monitor_err_msg is not empty
  exc         \* an exception is on its way out

guestVars == <<alive, asked, console, interrupted>>
monVars == <<mon, offset, at, upto, edge, seen>>
mainVars == <<pc, todo, threads, err, exc>>
vars == <<guestVars, monVars, stop, error_msg, mainVars, resultsVars>>

Init ==
  /\ ResultsInit
  /\ alive = Group /\ asked = FALSE /\ console = [v \in VM |-> <<>>] /\ interrupted = FALSE
  /\ mon = [v \in VM |-> "idle"] /\ offset = [v \in VM |-> Ignored]
  /\ at = [v \in VM |-> 0] /\ upto = [v \in VM |-> 0]
  /\ edge = [v \in VM |-> {}] /\ seen = [v \in VM |-> {}]
  /\ stop = [v \in VM |-> FALSE] /\ error_msg = [v \in VM |-> FALSE]
  /\ pc = "start" /\ todo = Group /\ threads = Group
  /\ err = FALSE /\ exc = FALSE

-----------------------------------------------------------------------------
\* A guest's ping is over: a line for it, OK only if the target exists.
PrintLine(v, t, ok) ==
  /\ v \in alive /\ Len(console[v]) < MaxLines /\ t \in Pings[v]
  /\ ok => t \in alive
  /\ console' = [console EXCEPT ![v] = Append(@, [to |-> t, ok |-> ok])]
  /\ interrupted' = (interrupted \/
                      (~ok /\ asked /\ v \in Group /\ t \in alive \ {Victim}))
  /\ UNCHANGED <<alive, asked, monVars, stop, error_msg, mainVars, resultsVars>>

-----------------------------------------------------------------------------
(***************************************************************************)
(* monitor(conn, in_data, out_data, vm)                                    *)
(***************************************************************************)
\* while in_data["stop_thread"] is False
Loop(v) ==
  /\ mon[v] = "loop"
  /\ mon' = [mon EXCEPT ![v] = IF stop[v] THEN "exited" ELSE "poll"]
  /\ UNCHANGED <<guestVars, offset, at, upto, edge, seen, stop, error_msg,
                 mainVars, resultsVars>>

\* The console is read: lines_offset < len(lines), the unfinished one counted.
Poll(v) ==
  /\ mon[v] = "poll" /\ v \in alive
  /\ \/ /\ offset[v] < Len(console[v]) + 1
        /\ mon' = [mon EXCEPT ![v] = "scan"]
        /\ at' = [at EXCEPT ![v] = offset[v] + 1]
        /\ upto' = [upto EXCEPT ![v] = Len(console[v])]
     \/ /\ offset[v] >= Len(console[v]) + 1
        /\ mon' = [mon EXCEPT ![v] = "loop"]
        /\ UNCHANGED <<at, upto>>
  /\ UNCHANGED <<guestVars, offset, edge, seen, stop, error_msg, mainVars,
                 resultsVars>>

\* Nova has no console to give: logged, and the loop goes on.
PollRaises(v) ==
  /\ mon[v] = "poll"
  /\ mon' = [mon EXCEPT ![v] = "loop"]
  /\ UNCHANGED <<guestVars, offset, at, upto, edge, seen, stop, error_msg,
                 mainVars, resultsVars>>

\* One line of vm_console_out_lines[lines_offset:-1].
ScanLine(v) ==
  /\ mon[v] = "scan" /\ at[v] <= upto[v]
  /\ error_msg' = [error_msg EXCEPT ![v] = @ \/ ~console[v][at[v]].ok]
  /\ at' = [at EXCEPT ![v] = @ + 1]
  /\ seen' = [seen EXCEPT ![v] = @ \cup {at[v]}]
  /\ UNCHANGED <<guestVars, mon, offset, upto, edge, stop, mainVars,
                 resultsVars>>

\* Mutant: lines_offset keeps the last complete line.
ScanEnds_LinesOffsetShort(v) ==
  /\ mon[v] = "scan" /\ at[v] > upto[v]
  /\ offset' = [offset EXCEPT ![v] = upto[v] - 1]
  /\ edge' = [edge EXCEPT ![v] = @ \cup {upto[v] + 1}]
  /\ mon' = [mon EXCEPT ![v] = "loop"]
  /\ UNCHANGED <<guestVars, at, upto, seen, stop, error_msg, mainVars,
                 resultsVars>>

\* Mutant: lines_offset is kept as an index from the end of the console.
ScanEnds_FromTheEnd(v) ==
  /\ mon[v] = "scan" /\ at[v] > upto[v]
  /\ offset' = [offset EXCEPT ![v] = upto[v] - Len(console[v]) - 1]
  /\ edge' = [edge EXCEPT ![v] = @ \cup {upto[v] + 1}]
  /\ mon' = [mon EXCEPT ![v] = "loop"]
  /\ UNCHANGED <<guestVars, at, upto, seen, stop, error_msg, mainVars,
                 resultsVars>>

\* lines_offset = len(vm_console_out_lines): past the unfinished line.
ScanEnds(v) ==
  /\ mon[v] = "scan" /\ at[v] > upto[v]
  /\ offset' = [offset EXCEPT ![v] = upto[v] + 1]
  /\ edge' = [edge EXCEPT ![v] = @ \cup {upto[v] + 1}]
  /\ mon' = [mon EXCEPT ![v] = "loop"]
  /\ UNCHANGED <<guestVars, at, upto, seen, stop, error_msg, mainVars,
                 resultsVars>>

Monitor(v) == Loop(v) \/ Poll(v) \/ PollRaises(v) \/ ScanLine(v) \/ ScanEnds(v)

-----------------------------------------------------------------------------
(***************************************************************************)
(* main, from the try on.                                                  *)
(***************************************************************************)
\* threads[i].start()
Start(v) ==
  /\ pc \in {"start", "start4"} /\ v \in todo
  /\ mon' = [mon EXCEPT ![v] = "loop"]
  /\ todo' = todo \ {v}
  /\ UNCHANGED <<guestVars, offset, at, upto, edge, seen, stop, error_msg, pc,
                 threads, err, exc, resultsVars>>

\* The exception is logged and goes on through the finally.
Raises ==
  /\ pc' = "finally" /\ todo' = threads /\ exc' = TRUE
  /\ UNCHANGED <<monVars, stop, error_msg, threads, err, resultsVars>>

\* A process that cannot be started.
StartRaises ==
  /\ pc \in {"start", "start4"} /\ todo # {}
  /\ Raises
  /\ UNCHANGED guestVars

\* Mutant: monitor_err_msg is not emptied before the second verdict.
Started_KeepsMessage ==
  /\ pc \in {"start", "start4"} /\ todo = {}
  /\ pc' = IF pc = "start" THEN "collect" ELSE "collect4"
  /\ todo' = threads
  /\ UNCHANGED <<guestVars, monVars, stop, error_msg, threads, err, exc,
                 resultsVars>>

\* wait_before_subtest is over: the messages are collected.
Started ==
  /\ pc \in {"start", "start4"} /\ todo = {}
  /\ pc' = IF pc = "start" THEN "collect" ELSE "collect4"
  /\ todo' = threads /\ err' = FALSE
  /\ UNCHANGED <<guestVars, monVars, stop, error_msg, threads, exc, resultsVars>>

\* A message is taken over and cleared.
Collect(v) ==
  /\ pc \in {"collect", "collect4"} /\ v \in todo
  /\ err' = (err \/ error_msg[v])
  /\ error_msg' = [error_msg EXCEPT ![v] = FALSE]
  /\ todo' = todo \ {v}
  /\ UNCHANGED <<guestVars, monVars, stop, pc, threads, exc, resultsVars>>

\* The first verdict; then thread_inputs[1]["stop_thread"] = True.
FirstVerdict ==
  /\ pc = "collect" /\ todo = {}
  /\ add_subtest("group", ~err)
  /\ stop' = [stop EXCEPT ![Victim] = TRUE]
  /\ pc' = "delete"
  /\ UNCHANGED <<guestVars, monVars, error_msg, todo, threads, err, exc>>

\* delete_instance(vm_2): nova agrees, and nobody waits for it.
DeleteVictim ==
  /\ pc = "delete"
  /\ asked' = TRUE
  /\ pc' = "stop" /\ todo' = threads
  /\ UNCHANGED <<alive, console, interrupted, monVars, stop, error_msg,
                 threads, err, exc, resultsVars>>

\* Nova, at its own pace.
NovaDeletes ==
  /\ asked /\ Victim \in alive
  /\ alive' = alive \ {Victim}
  /\ UNCHANGED <<asked, console, interrupted, monVars, stop, error_msg,
                 mainVars, resultsVars>>

\* raise Exception("Fail to delete instance vm_2.")
DeleteFails ==
  /\ pc = "delete"
  /\ Raises
  /\ UNCHANGED guestVars

\* Mutant: a monitor is passed over without its stop flag.
Stop_Forgets(v) ==
  /\ pc \in {"stop", "finally"} /\ v \in todo
  /\ todo' = todo \ {v}
  /\ UNCHANGED <<guestVars, monVars, stop, error_msg, pc, threads, err, exc,
                 resultsVars>>

\* thread_input["stop_thread"] = True, in the body and in the finally.
Stop(v) ==
  /\ pc \in {"stop", "finally"} /\ v \in todo
  /\ stop' = [stop EXCEPT ![v] = TRUE]
  /\ todo' = todo \ {v}
  /\ UNCHANGED <<guestVars, monVars, error_msg, pc, threads, err, exc,
                 resultsVars>>

\* join() of all returns; vm_4 is created and booted.
JoinAll ==
  /\ pc = "stop" /\ todo = {} /\ \A v \in threads : mon[v] = "exited"
  /\ threads' = {} /\ pc' = "create4"
  /\ UNCHANGED <<guestVars, monVars, stop, error_msg, todo, err, exc, resultsVars>>

CreateNewcomer ==
  /\ pc = "create4"
  /\ alive' = alive \cup {Newcomer}
  /\ threads' = {Newcomer} /\ todo' = {Newcomer} /\ pc' = "start4"
  /\ UNCHANGED <<asked, console, interrupted, monVars, stop, error_msg, err, exc,
                 resultsVars>>

CreateRaises ==
  /\ pc = "create4"
  /\ Raises
  /\ \/ UNCHANGED alive
     \/ alive' = alive \cup {Newcomer}
  /\ UNCHANGED <<asked, console, interrupted>>

\* "Check ping status of vm_1, vm_3 and vm_4."
SecondVerdict ==
  /\ pc = "collect4" /\ todo = {}
  /\ add_subtest("all", ~err)
  /\ pc' = "finally" /\ todo' = threads
  /\ UNCHANGED <<guestVars, monVars, stop, error_msg, threads, err, exc>>

\* Mutant: the finally sets the stop flags and waits for nobody.
FinallyJoin_NoJoin ==
  /\ pc = "finally" /\ todo = {}
  /\ pc' = "cleanup"
  /\ UNCHANGED <<guestVars, monVars, stop, error_msg, todo, threads, err, exc,
                 resultsVars>>

\* The finally has joined its monitors; the resources are cleaned up.
FinallyJoin ==
  /\ pc = "finally" /\ todo = {} /\ \A v \in threads : mon[v] = "exited"
  /\ pc' = "cleanup"
  /\ UNCHANGED <<guestVars, monVars, stop, error_msg, todo, threads, err, exc,
                 resultsVars>>

\* join() asserts that the process was started: an AssertionError leaves the
\* finally before the cleanup.  The monitors started first are joined before.
FinallyJoinRaises ==
  /\ pc = "finally" /\ todo = {}
  /\ \A v \in threads : mon[v] \in {"idle", "exited"}
  /\ \E v \in threads : mon[v] = "idle"
  /\ pc' = "not_cleaned" /\ exc' = TRUE
  /\ UNCHANGED <<guestVars, monVars, stop, error_msg, todo, threads, err,
                 resultsVars>>

\* cleanup_nova and the others: TestcaseLifecycle says what they leave.
Cleanup ==
  /\ pc = "cleanup"
  /\ alive' \in {{}, alive}
  /\ pc' = IF exc THEN "raised" ELSE "returned"
  /\ UNCHANGED <<asked, console, interrupted, monVars, stop, error_msg, todo, threads,
                 err, exc, resultsVars>>

Terminal == pc \in {"returned", "raised", "not_cleaned"}

Main ==
  \/ \E v \in VM : Start(v) \/ Collect(v) \/ Stop(v)
  \/ StartRaises \/ Started \/ FirstVerdict \/ DeleteVictim \/ DeleteFails
  \/ JoinAll \/ CreateNewcomer \/ CreateRaises \/ SecondVerdict
  \/ FinallyJoin \/ FinallyJoinRaises \/ Cleanup

Guests == \E v \in VM, t \in VM, ok \in BOOLEAN : PrintLine(v, t, ok)

Done == Terminal /\ UNCHANGED vars

Next == Guests \/ NovaDeletes \/ (\E v \in VM : Monitor(v)) \/ Main \/ Done

(***************************************************************************)
(* main and the monitors are processes that run; the guests need not.      *)
(***************************************************************************)
Spec ==
  Init /\ [][Next]_vars /\ WF_vars(Main) /\ \A v \in VM : WF_vars(Monitor(v))

-----------------------------------------------------------------------------
Line == [to : VM, ok : BOOLEAN]

TypeOK ==
  /\ ResultsTypeOK({"group", "all"})
  /\ alive \subseteq VM /\ asked \in BOOLEAN /\ interrupted \in BOOLEAN
  /\ console \in [VM -> Seq(Line)]
  /\ mon \in [VM -> {"idle", "loop", "poll", "scan", "exited"}]
  /\ offset \in [VM -> Nat] /\ at \in [VM -> Nat] /\ upto \in [VM -> Nat]
  /\ edge \in [VM -> SUBSET Nat] /\ seen \in [VM -> SUBSET Nat]
  /\ stop \in [VM -> BOOLEAN] /\ error_msg \in [VM -> BOOLEAN]
  /\ pc \in {"start", "collect", "delete", "stop", "create4", "start4",
             "collect4", "finally", "cleanup", "returned", "raised",
             "not_cleaned"}
  /\ todo \subseteq VM /\ threads \subseteq VM
  /\ err \in BOOLEAN /\ exc \in BOOLEAN

\* A ping of v failed after the lines the monitor ignores.
Failed(v) == \E i \in DOMAIN console[v] : i > Ignored /\ ~console[v][i].ok

Reported(name) == \E i \in DOMAIN details :
                     details[i] = [name |-> name, result |-> "FAIL"]

(***************************************************************************)
(* A failure is reported for a ping that failed, of an instance the        *)
(* verdict is about: messages are not carried from the first verdict into  *)
(* the second, nor taken from the lines at the beginning of the console.   *)
(***************************************************************************)
NoFalseAlarm ==
  /\ Reported("group") => \E v \in Group : Failed(v)
  /\ Reported("all") => Failed(Newcomer)

(***************************************************************************)
(* Of the lines a monitor is past, it has looked at every one but those    *)
(* that were unfinished when the console was read, and at none it was to   *)
(* ignore.  No line is looked at twice: a failure collected once is not    *)
(* found again.                                                            *)
(***************************************************************************)
LooksAtAllButUnfinished ==
  \A v \in VM :
    /\ seen[v] \cap 1..Ignored = {}
    /\ (Ignored + 1)..offset[v] \subseteq seen[v] \cup edge[v]
    /\ mon[v] = "scan" => seen[v] \cap at[v]..upto[v] = {}

(***************************************************************************)
(* No monitor runs once the cleanup has begun, or once main has failed to  *)
(* get there, whichever step of main raised.                               *)
(***************************************************************************)
MonitorsJoined ==
  pc \in {"cleanup", "returned", "raised", "not_cleaned"} =>
    \A v \in VM : mon[v] \in {"idle", "exited"}

\* main ends: every monitor it joins sees its stop flag, with a console to
\* read or without.
Ends == <>Terminal

(***************************************************************************)
(* testcase_10.py:32: "At the beginning of ping we might have some         *)
(* failures, so we ignore the first 10 pings", hence no other: a failed    *)
(* ping after those has been looked at once lines_offset is past its line. *)
(***************************************************************************)
OnlyTheFirstPingsIgnored ==
  \A v \in VM : \A i \in DOMAIN console[v] :
    Ignored < i /\ i <= offset[v] /\ ~console[v][i].ok => i \in seen[v]

(***************************************************************************)
(* docs/development/overview/index.rst:178-181: "VM_2 is deleted. Traffic  *)
(* is still flying between VM_1 and VM_3. A new VM, VM_4 is added to       *)
(* compute 1. Traffic is not interrupted and VM_4 can be reached as well." *)
(* The testcase passes only then.                                          *)
(***************************************************************************)
TrafficNotInterrupted ==
  pc = "returned" /\ test_result = "PASS" => ~interrupted
=============================================================================
