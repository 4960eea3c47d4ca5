----------------------------- MODULE OvsResync -----------------------------
(***************************************************************************)
(* testcase_11 and testcase_12: count the flows and groups of br-int on    *)
(* every compute node, boot two instances, cut the switches off from       *)
(* OpenDaylight, connect them again, count again.                          *)
(*                                                                         *)
(* main() and OpenDaylight run side by side: OpenDaylight programs a       *)
(* switch only while it is connected, at its own pace, and main waits a    *)
(* fixed time (wait_before_subtest) before it counts.  A dump goes from    *)
(* node to node.  Everything here is about numbers of lines: which flow is *)
(* which is not modelled, the code does not look either.  The resources    *)
(* of the two testcases are in TestcaseLifecycle.  Every compute node has  *)
(* its br-int from before the testcase to its end; the code would count no *)
(* line, not even the one of an empty dump, where ovs-vsctl shows none.    *)
(***************************************************************************)
EXTENDS Integers, Sequences

CONSTANTS
  NodeCount,     \* len(compute_nodes)
  Controllers,   \* what get-controller prints, all members of one cluster
  NoController,  \* the empty output
  Found,         \* the deployments a testcase may find: target, blocked, have
  VmGroups,      \* groups OpenDaylight adds for the two instances
  MaxExtra       \* bound: ARP and ICMP flows added after the VMs are up

\* compute_nodes, by their places in the list
Node == 1..NodeCount

Kinds  == {"flow", "group"}
Table  == [Kinds -> Nat]
Target == Controllers \cup {NoController}

ASSUME NodeAssumption == NodeCount \in Nat \ {0}
ASSUME ControllerAssumption == NoController \notin Controllers
ASSUME FoundAssumption ==
  Found \subseteq [target : [Node -> Target], blocked : [Node -> Nat],
                   have : [Node -> Table]]
ASSUME BoundAssumption == VmGroups \in Nat \ {0} /\ MaxExtra \in Nat

VARIABLES
  tc,        \* "tc11" or "tc12"
  pc,        \* the statement of Script main is at
  at,        \* the compute node a loop is at
  part,      \* the step of that statement's body
  status,    \* "running", "returned" or "raised"
  exc,       \* the exception the finally will raise again
  conn,      \* ovs_controller_conn
  lines,     \* [Marks -> [kind -> lines counted]]
  said,      \* [Checks -> "none", "PASS" or "FAIL"]
  target,    \* [Node -> Target]
  blocked,   \* [Node -> DROP rules for port 6653]
  have,      \* [Node -> Table], what the switch holds
  want,      \* what OpenDaylight wants it to hold
  host,      \* the node the instances are booted on, and whether they are
  extra,     \* flows OpenDaylight has added on its own
  start,     \* history: target, blocked and have before the testcase
  fault,     \* history: what went wrong: a command lost or raised, a clean-up refused
  late       \* history: a switch was counted while it was not in sync

place == <<pc, at, part>>
mainVars == <<tc, place, status, exc, conn, lines, said>>
ovsVars  == <<target, blocked>>
odlVars  == <<have, want, host, extra>>
vars == <<mainVars, ovsVars, odlVars, start, fault, late>>

-----------------------------------------------------------------------------
(***************************************************************************)
(* The two bodies.  A statement is one step, or a loop over the nodes.     *)
(***************************************************************************)
Do(op) == [op |-> op]
Report(name) == [op |-> "report", name |-> name]

Once(step) == [loop |-> FALSE, body |-> <<step>>]
ForEachNode(body) == [loop |-> TRUE, body |-> body]

\* get_ovs_flows or get_ovs_groups
Dump(kind, mark) ==
  ForEachNode(<<[op |-> "dump", kind |-> kind, mark |-> mark]>>)

\* Mutant: the controller is read when it is gone.
Script11_ReadsLate ==
  <<Dump("group", "initial"), Once(Do("boot")), Dump("group", "added"),
    Once(Report("new_group")), ForEachNode(<<Do("cut")>>),
    Once(Do("read")), Once(Do("cleanup")), ForEachNode(<<Do("set")>>),
    Dump("group", "resync_1"), Once(Report("group_deleted")), Once(Do("return"))>>

\* tc11: the finally is in the middle.
Script11 ==
  <<Dump("group", "initial"), Once(Do("boot")), Dump("group", "added"),
    Once(Report("new_group")), Once(Do("read")), ForEachNode(<<Do("cut")>>),
    Once(Do("cleanup")), ForEachNode(<<Do("set")>>),
    Dump("group", "resync_1"), Once(Report("group_deleted")), Once(Do("return"))>>

\* Mutant: the rule is on every node before it is deleted from the first.
Script12_AllAtOnce ==
  <<Dump("flow", "initial"), Dump("group", "initial"), Once(Do("boot")),
    Dump("flow", "added"), Dump("group", "added"),
    Once(Report("new_flows")), Once(Report("new_groups")), Once(Do("read")),
    ForEachNode(<<Do("cut"), Do("set")>>),
    Dump("flow", "resync_1"), Dump("group", "resync_1"),
    Once(Report("flows_1")), Once(Report("groups_1")),
    ForEachNode(<<Do("block")>>), ForEachNode(<<Do("unblock")>>),
    Dump("flow", "resync_2"), Dump("group", "resync_2"),
    Once(Report("flows_2")), Once(Report("groups_2")),
    Once(Do("cleanup")), Once(Do("return"))>>

\* tc12: cut off by del-controller, then by a firewall rule, one switch at a
\* time.
Script12 ==
  <<Dump("flow", "initial"), Dump("group", "initial"), Once(Do("boot")),
    Dump("flow", "added"), Dump("group", "added"),
    Once(Report("new_flows")), Once(Report("new_groups")), Once(Do("read")),
    ForEachNode(<<Do("cut"), Do("set")>>),
    Dump("flow", "resync_1"), Dump("group", "resync_1"),
    Once(Report("flows_1")), Once(Report("groups_1")),
    ForEachNode(<<Do("block"), Do("unblock")>>),
    Dump("flow", "resync_2"), Dump("group", "resync_2"),
    Once(Report("flows_2")), Once(Report("groups_2")),
    Once(Do("cleanup")), Once(Do("return"))>>

Marks  == {"initial", "added", "resync_1", "resync_2"}
Checks == {"new_group", "group_deleted", "new_flows", "new_groups",
           "flows_1", "groups_1", "flows_2", "groups_2"}

Script == [t \in {"tc11", "tc12"} |-> IF t = "tc11" THEN Script11 ELSE Script12]

Statement == Script[tc][pc]
Step == Statement.body[part]

CleanupAt == CHOOSE i \in DOMAIN Script[tc] : Script[tc][i] = Once(Do("cleanup"))

-----------------------------------------------------------------------------
\* A rule on OUTPUT drops what the switch sends to the controller.
Connected(n) == target[n] \in Controllers /\ blocked[n] = 0

\* The switches are in sync; an earlier testcase may have left one without a
\* controller or behind a rule.
Init ==
  /\ tc \in {"tc11", "tc12"} /\ pc = 1 /\ at = 1 /\ part = 1
  /\ status = "running" /\ exc = FALSE
  /\ conn = NoController
  /\ lines = [m \in Marks |-> [k \in Kinds |-> 0]]
  /\ said = [c \in Checks |-> "none"]
  /\ start \in Found
  /\ target = start.target /\ blocked = start.blocked
  /\ have = start.have /\ want = have
  /\ host \in [node : Node, up : {FALSE}] /\ extra = 0
  /\ fault = {} /\ late = FALSE

Running(op) == status = "running" /\ Step.op = op

\* The next step of the body, the first of it for the next node, or the next
\* statement.
NextStep ==
  \/ part < Len(Statement.body) /\ part' = part + 1 /\ UNCHANGED <<pc, at>>
  \/ /\ part = Len(Statement.body) /\ part' = 1
     /\ \/ Statement.loop /\ at < NodeCount /\ at' = at + 1 /\ UNCHANGED pc
        \/ ~(Statement.loop /\ at < NodeCount) /\ at' = 1 /\ pc' = pc + 1

\* After the finally of an exception nothing more is done.
Advance ==
  /\ \/ exc /\ status' = "raised" /\ UNCHANGED place
     \/ ~exc /\ NextStep /\ UNCHANGED status
  /\ UNCHANGED <<tc, exc>>

\* An exception before the end of the try enters the finally, a later one
\* leaves main.
Raise ==
  /\ \/ /\ pc < CleanupAt /\ pc' = CleanupAt /\ at' = 1 /\ part' = 1
        /\ exc' = TRUE /\ UNCHANGED status
     \/ pc >= CleanupAt /\ status' = "raised" /\ UNCHANGED <<place, exc>>
  /\ fault' = fault \cup {"raised"}
  /\ UNCHANGED <<tc, lines, said, conn, late>>

\* "".strip().split("\n") is one line, the empty one.
Lines(n) == IF n = 0 THEN 1 ELSE n

Count ==
  /\ Running("dump")
  /\ lines' = [lines EXCEPT ![Step.mark][Step.kind] =
                              @ + Lines(have[at][Step.kind])]
  /\ late' = (late \/ have[at] # want[at])
  /\ Advance
  /\ UNCHANGED <<conn, said, ovsVars, odlVars, start, fault>>

\* Nova boots both instances on one node and neutron tells OpenDaylight.
Boot ==
  /\ Running("boot")
  /\ host' = [host EXCEPT !.up = TRUE]
  /\ want' = [want EXCEPT ![host.node].flow = @ + 1,
                          ![host.node].group = @ + VmGroups]
  /\ Advance
  /\ UNCHANGED <<conn, lines, said, ovsVars, have, extra, start, fault, late>>

Diff(kind, a, b) == lines[b][kind] - lines[a][kind]

\* Mutant: added_ovs_groups is taken for a number of added groups.
Gone_Signed == lines["initial"].group <= lines["resync_1"].group

\* len(initial) - len(now) is not 0, is 0
Changed == lines["initial"].group # lines["added"].group
Gone == lines["initial"].group = lines["resync_1"].group

\* Mutant: as many flows as before.
Resynced_Exactly(kind, mark) == lines["added"][kind] = lines[mark][kind]

\* record_test_result
Resynced(kind, mark) ==
  \/ kind = "flow"  /\ lines["added"].flow <= lines[mark].flow
  \/ kind = "group" /\ lines["added"].group = lines[mark].group

Success(name) ==
  CASE name = "new_group"     -> Changed
    [] name = "group_deleted" -> Gone
    [] name = "new_flows"     -> Diff("flow", "initial", "added") > 0
    [] name = "new_groups"    -> Diff("group", "initial", "added") > 0
    [] name = "flows_1"       -> Resynced("flow", "resync_1")
    [] name = "groups_1"      -> Resynced("group", "resync_1")
    [] name = "flows_2"       -> Resynced("flow", "resync_2")
    [] name = "groups_2"      -> Resynced("group", "resync_2")

Check ==
  /\ Running("report")
  /\ said' = [said EXCEPT ![Step.name] = IF Success(Step.name) THEN "PASS" ELSE "FAIL"]
  /\ Advance
  /\ UNCHANGED <<conn, lines, ovsVars, odlVars, start, fault, late>>

\* get-controller on the first node, compute_nodes[0]
Read ==
  /\ Running("read")
  /\ conn' = target[1]
  /\ Advance
  /\ UNCHANGED <<lines, said, ovsVars, odlVars, start, fault, late>>

\* ovs-vsctl or iptables does as told, or the command is lost on its way and
\* nobody looks at what run_cmd returns.
Told(op, effect) ==
  /\ Running(op)
  /\ \/ effect /\ UNCHANGED fault
     \/ UNCHANGED ovsVars /\ fault' = fault \cup {"lost"}
  /\ Advance
  /\ UNCHANGED <<conn, lines, said, odlVars, start, late>>

\* del-controller, set-controller (with nothing to set it clears)
SetTarget(c) == target' = [target EXCEPT ![at] = c] /\ UNCHANGED blocked
SetRules(k)  == blocked' = [blocked EXCEPT ![at] = k] /\ UNCHANGED target

Cut == Told("cut", SetTarget(NoController))
Set == Told("set", SetTarget(conn))

\* iptables -A appends one more rule, -D deletes one.
Block == Told("block", SetRules(blocked[at] + 1))

\* Mutant: the rule is appended again.
Unblock_Appends == Told("unblock", SetRules(blocked[at] + 1))

\* Mutant: iptables -D of a rule that is not there.
Unblock_Unguarded == Told("unblock", SetRules(blocked[at] - 1))

Unblock == Told("unblock", blocked[at] > 0 /\ SetRules(blocked[at] - 1))

\* A command raises, carried out or not.
CommandRaises ==
  /\ status = "running" /\ Step.op \in {"cut", "set", "block", "unblock"}
  /\ \/ UNCHANGED ovsVars
     \/ Step.op = "cut" /\ SetTarget(NoController)
     \/ Step.op = "set" /\ SetTarget(conn)
     \/ Step.op = "block" /\ SetRules(blocked[at] + 1)
     \/ Step.op = "unblock" /\ blocked[at] > 0 /\ SetRules(blocked[at] - 1)
  /\ Raise
  /\ UNCHANGED <<odlVars, start>>

\* Nothing printed (None has no strip), an instance that does not boot.
CallRaises ==
  /\ status = "running" /\ Step.op \in {"dump", "boot", "read"}
  /\ Raise
  /\ UNCHANGED <<ovsVars, odlVars, start>>

\* The instances go, and with them what OpenDaylight wants for them.
Unwant ==
  /\ want' = IF ~host.up THEN want
             ELSE [want EXCEPT ![host.node].flow = @ - 1,
                               ![host.node].group = @ - VmGroups]
  /\ host' = [host EXCEPT !.up = FALSE]
  /\ UNCHANGED <<have, extra>>

\* cleanup_nova and the others, done, refused with False, or raised.
Cleanup ==
  /\ Running("cleanup")
  /\ \/ Unwant /\ Advance /\ UNCHANGED <<fault, conn, lines, said, late>>
     \/ UNCHANGED odlVars /\ Advance /\ fault' = fault \cup {"refused"}
        /\ UNCHANGED <<conn, lines, said, late>>
     \/ UNCHANGED odlVars /\ Raise
  /\ UNCHANGED <<ovsVars, start>>

Return ==
  /\ Running("return")
  /\ status' = "returned"
  /\ UNCHANGED <<tc, place, exc, conn, lines, said, ovsVars, odlVars, start, fault, late>>

-----------------------------------------------------------------------------
(***************************************************************************)
(* OpenDaylight.                                                           *)
(***************************************************************************)
Program(n) ==
  /\ Connected(n) /\ have[n] # want[n]
  /\ have' = [have EXCEPT ![n] = want[n]]
  /\ UNCHANGED <<mainVars, ovsVars, want, host, extra, start, fault, late>>

\* "ODL adds some more ARP/ICMP flows after VMs spawn up"
Learn(n) ==
  /\ host.up /\ extra < MaxExtra
  /\ want' = [want EXCEPT ![n].flow = @ + 1] /\ extra' = extra + 1
  /\ UNCHANGED <<mainVars, ovsVars, have, host, start, fault, late>>

Main ==
  \/ Count \/ Boot \/ Check \/ Read \/ Cut \/ Set \/ Block \/ Unblock
  \/ CommandRaises \/ CallRaises \/ Cleanup \/ Return

Done == status # "running" /\ UNCHANGED vars

Next == Main \/ (\E n \in Node : Program(n) \/ Learn(n)) \/ Done

\* main never blocks, and OpenDaylight programs a switch that stays connected.
Spec ==
  Init /\ [][Next]_vars /\ WF_vars(Main) /\ \A n \in Node : WF_vars(Program(n))

-----------------------------------------------------------------------------
(***************************************************************************)
(* Properties.                                                             *)
(***************************************************************************)
TypeOK ==
  /\ tc \in DOMAIN Script /\ pc \in DOMAIN Script[tc]
  /\ at \in Node /\ part \in DOMAIN Statement.body
  /\ status \in {"running", "returned", "raised"} /\ exc \in BOOLEAN
  /\ conn \in Target
  /\ lines \in [Marks -> Table]
  /\ said \in [Checks -> {"none", "PASS", "FAIL"}]
  /\ target \in [Node -> Target] /\ blocked \in [Node -> Nat]
  /\ have \in [Node -> Table] /\ want \in [Node -> Table]
  /\ host \in [node : Node, up : BOOLEAN] /\ extra \in 0..MaxExtra
  /\ start \in Found
  /\ fault \subseteq {"lost", "raised", "refused"} /\ late \in BOOLEAN

\* The testcase keeps this switch from its controller.
CutOff(n) ==
  \/ start.target[n] # NoController /\ target[n] = NoController
  \/ blocked[n] > start.blocked[n]

(***************************************************************************)
(* tc12 takes the switches off OpenDaylight one at a time: whenever it is   *)
(* looked at, and when a command in the middle of a loop raises, at most   *)
(* one compute node is without its controller or behind the firewall rule  *)
(* (unless run_cmd lost a command, or the first node had no controller to  *)
(* give to the others).                                                    *)
(***************************************************************************)
OneSwitchAtATime ==
  tc = "tc12" /\ "lost" \notin fault /\ start.target[1] # NoController =>
    \A m, n \in Node : CutOff(m) /\ CutOff(n) => m = n

(***************************************************************************)
(* A testcase that returns hands every switch back with the controller the *)
(* first compute node had (which is its own only where all are the same)   *)
(* and with as many firewall rules as it found; in tc11 the controller is  *)
(* read before the finally and set after it.                               *)
(***************************************************************************)
HandedBack ==
  status = "returned" /\ "lost" \notin fault =>
    \A n \in Node : /\ target[n] = start.target[1]
                     /\ blocked[n] = start.blocked[n]

(***************************************************************************)
(* What "Group was deleted from ovs" (tc11) shows: each switch holds the   *)
(* groups it held before, or, where that was none, at most one, because an *)
(* empty dump counts as a line.                                            *)
(***************************************************************************)
GroupsDeleted ==
  said["group_deleted"] = "PASS" /\ fault = {} =>
    \A n \in Node : have[n].group <= Lines(start.have[n].group)

(***************************************************************************)
(* If every fixed wait was long enough for OpenDaylight, and nothing       *)
(* failed, neither testcase reports a failure, whatever flows OpenDaylight *)
(* adds meanwhile and however many groups there were before.               *)
(***************************************************************************)
NoFalseAlarm ==
  status = "returned" /\ fault = {} /\ ~late => \A c \in Checks : said[c] # "FAIL"

(***************************************************************************)
(* After a testcase that returned, OpenDaylight gets every switch in sync  *)
(* again, unless a command was lost, the first compute node had no         *)
(* controller, or a rule of an earlier testcase is still in the way.       *)
(***************************************************************************)
LeftInSync ==
  [](/\ status = "returned" /\ "lost" \notin fault
     /\ start.target[1] # NoController
     /\ \A n \in Node : start.blocked[n] = 0
     => <>(\A n \in Node : have[n] = want[n]))
=============================================================================
