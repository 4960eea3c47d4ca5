# sdnvpn in TLA+

TLA+ models of the SDN VPN project of OPNFV, what TLC checks of them and what
TLAPS proves. Paths are relative to the repository; `U` is
`sdnvpn/lib/utils.py`, `O` is `sdnvpn/lib/openstack_utils.py`, `R` is
`sdnvpn/lib/results.py`, `Q` is `sdnvpn/lib/quagga.py`, `tcN` is
`sdnvpn/test/functest/testcase_N.py`, `ODL` is
`odl-pipeline/lib/odl_reinstaller/odl_reinstaller.py`.

## 1. The system

sdnvpn is a test suite and a tool, both in Python 2.

**The test suite** runs against an OpenStack cloud with OpenDaylight and the
BGPVPN service. A runner executes testcases one after the other; each creates
networks, instances and BGPVPNs, lets instances ping each other, reads their
consoles to see who reached whom, and deletes what it made. The program is
sequential but for the monitor processes of testcase_10; what it talks to is
not: nova builds and deletes instances at its own pace, neutron refuses what
something else is built on, guests write to their consoles all the time, and
nearly every call can raise.

**The tool** (odl-pipeline) replaces the OpenDaylight of a TripleO deployment
while every Open vSwitch of the deployment is connected to it.

| Part | State it keeps | Operations | Talks to | What makes it correct |
|---|---|---|---|---|
| Testcase bodies, `tc1`..`tc13` | the eight id lists, flags such as `quagga_vm` | create, append, delete, associate | neutron, nova, glance | every resource is noted, no id outlives its resource |
| Cleanup, `U:668-746` | position in a fixed order of loops | delete one id after the other, wait for instances | the same | the order respects what is built on what; a failure stops no more than it has to |
| `Results`, `R` | verdict, rows of the summary, failure count | `add_success`, `add_failure`, `compile_summary` | testcases | the three agree; a failure is never taken back |
| Console subtests, `R:38-170`, `U:214-327` | time left; on the guest, the probe in progress | poll the last lines of a console | nova, the guests | a verdict is about the network as it is now |
| Monitors, `tc10:27-58`, `tc10:150-275` | per monitor `lines_offset`, `stop_thread`, `error_msg` in managed dicts | start, scan, collect and clear, stop, join | main and up to three processes share the dicts | failures seen are reported, once, in the right verdict; nobody is joined for ever |
| Runner, `sdnvpn/test/functest/run_sdnvpn_tests.py` | quotas read, details, overall status | raise quotas, purge, loop, restore | neutron, nova, xtesting, testcases | quotas are put back; the exit status says what happened |
| ODL reinstaller, `ODL` | `odl_node`, the loop over nodes, attempts | stop, disconnect, install, wait, connect, validate | nodes over ssh | the installation is isolated; success means a working deployment |
| OVS resync, `tc11`, `tc12`, `U:787-930` | lines of flows and groups counted, the controller read | count, cut off, hand back, block, unblock, compare | compute nodes over ssh, whose switches OpenDaylight programs | switches are handed back; a verdict about groups is about the switches |
| BGP peering, `tc3`, `Q` | `fake_fip`, `quagga_vm`, `compute`, polls left | start a speaker, boot quagga, poll for Established, take all of it back | ODL (one node or a cluster), quagga instance | what was set up is taken back; a peering is the one that was asked for |
| Heat testcases, `tc1bis`, `tc2bis`, `tc4bis`, `tc8bis` | `stack_id`, `image_ids` | create stack, wait, update, delete and wait | heat | the stack goes before the image it was made from |
| Introspection, `odl-pipeline/lib/tripleo_introspector` | `node_info` | ask each node, write the pod configuration | nodes over ssh | the configuration is one the reinstaller can succeed with, or it fails |
| Wrappers `O`, ssh utilities, log gathering, configuration, test environment, scenario | none of their own | calls, copies, reads | | |

How they interact: the runner calls `main()` of each testcase and treats an
exception as a failed testcase; a testcase calls `U` for its subtests and its
cleanup and returns `Results.compile_summary()`; a cleanup that fails in the
middle returns False, which no testcase looks at, or raises, which replaces the
exception of the body. Quotas, and resources adopted by name, carry over from
one execution to the next.

Hard to test here: exceptions between a create call and its append; refusals in
the middle of a cleanup; a cloud an earlier execution left dirty; commands that
are lost without anyone looking; counts compared while OpenDaylight is still at
work; a console read while the guest writes and the network
changes; shared dictionaries read, cleared and abandoned in different orders;
executions killed half-way; a reinstallation started again after one that
failed. `PROJECT.json` lists each at its line, with the properties aimed at it.

## 2. Modules

| Module | Models | Composed with |
|---|---|---|
| `TestcaseLifecycle` | the skeleton every testcase shares, the finally with its cleanup functions, what OpenStack refuses, what is found by name | |
| `TestcaseScripts` | the bodies of the fifteen testcases and what can be left of each, as data | given to `TestcaseLifecycle` by `MCTestcaseLifecycle` |
| `SubtestReport` | abstract: subtests are reported one by one and none is taken back | |
| `OdlReplacement` | abstract: OpenDaylight is replaced as a whole, taken apart, installed once, linked again | |
| `Results` | `results.Results` | implements `SubtestReport` |
| `PingCheck` | console subtests, the guest and the changes of the network | extends `Results` |
| `VmMonitor` | main and the monitors of testcase_10 | extends `Results` |
| `SdnvpnRunner` | `SdnvpnFunctest.execute` over several executions | |
| `OdlReinstaller` | `ODLReInstaller.run` and `TripleOIntrospector.run` over several runs | implements `OdlReplacement` |
| `OvsResync` | testcase_11 and testcase_12 beside OpenDaylight and the switches | |
| `BgpPeering` | testcase_3 beside OpenDaylight, quagga and the compute node, over several executions | |
| `ResultsProofs` | what a report does, for the two modules that extend `Results` | extended by the next two |
| `PingCheckProofs`, `VmMonitorProofs`, `TestcaseLifecycleProofs`, `SdnvpnRunnerProofs`, `OdlReinstallerProofs`, `OvsResyncProofs`, `BgpPeeringProofs` | theorems about the module each is named after | |
| `MC*` | values of the constants for TLC | |

### TestcaseLifecycle

A body is a sequence of steps: `make` (a create call that raises on failure),
`try_make` (one that returns None), `wire` (join a router and a subnet),
`record` (append to an id list), `delete`, `forget` (remove from a list), `call`
and `check` (associations, waits, subtests) and `give_up` (tc3 without an ODL
node). At every step the action that succeeds and the one that raises are
enabled, the latter with the resource created or not. `Raise` goes to the
finally, or out of main when the step is before the `try` (`TryAt`) or is one
whose exception may leave the finally without what it uses before its first loop
(`Breaks`: tc3's unbound `compute`, tc10's process that was never started).

The finally is the sequence `Stages`: the one call some testcases make first
(tc3's bridge, tc13's routes), the loops of `cleanup_nova`, `cleanup_glance`,
the loops of `cleanup_neutron` in the order of the code, and the
`delete_stack_and_wait` of the Heat testcases, whose `cleanup_glance` comes
before it. `OnFailure` says what each does when a deletion fails: log and go on,
skip the other images, return (`cleanup_neutron`), or raise. OpenStack refuses
to delete what something existing is built on (`Needs`) and ids that no longer
exist, but for the calls that tolerate those (`MissingIsFine`). An instance or a
stack goes when nova or heat gets to it, or never; the waits may time out at any
moment, and the wait for an instance may raise out of the finally (`WaitRaises`). `NotedBlind` are ids noted for things that may not exist: a None image,
the bridge of tc3, the routes of tc13, the interface of a network that was
adopted. A Heat stack is one resource: what the template makes is heat's.

How a body is written can be read off without running it, and
`DisciplineAssumption` says what all fifteen have in common: what a body makes
and does not delete again it notes `NotesForGood` (never taken off the list, and
after the last step that makes it), and what a step leaves `Doubtful` (on a list
and perhaps not there) a later one `Settles`, by forgetting it or because it
cannot be passed without it. TLC evaluates it for the scripts.

A testcase starts on a cloud an earlier execution of it may have left dirty
(`Leftovers`). `create_network_full`, `get_or_create_flavor` and
`create_glance_image` go on with what they find by name (`Adopt`). A network,
subnet and router that are all there are taken for joined, whether or not they
are (`Found` at a `wire` step). An instance nobody looks for ("old") may still
stand on an adopted subnet.

### Results, PingCheck

`Results` keeps the verdict, the rows and the failure count that
`add_success` and `add_failure` change through `add_to_summary`.

In `PingCheck` the guest probes its targets in turn and prints one line each;
main follows a plan of changes of the network and of subtests. A line carries,
as history, the epoch of the network it was probed in. A poll looks at the last
`Window` complete lines and decides as the code does: OK anywhere in the window
before KO, whichever is later. The wait after a change is not a step: any
number of lines, also none, can be printed between two steps of main.

### VmMonitor

The monitor's loop is cut where it touches what others see: testing
`stop_thread`, reading the console, looking at one line, moving
`lines_offset`. main runs from the start of the monitors to the end of the
finally, with every step that raises. `edge` and `seen` are history: the lines
that were unfinished when they were read, and those that were looked at.

### SdnvpnRunner

One step per statement of `execute`. Any execution can raise before the loop or
be killed at any point, and the next starts on the quotas it finds. A
testcase is its outcome. The purge between the quotas and the loop goes over the
floating IPs, the ports of router interfaces and the routers (`PurgeFloatingIp`,
`PurgePort`, `PurgeRouter`), swallows every error, and can be left by an
exception of a listing. An execution meets a cloud in any state (`Clouds`).
Neutron refuses what is in use (`InUse`) and, whatever the state, the deletion
of an interface's port, which only `remove_interface_router` would take.

### OdlReinstaller

One step per command whose failure makes a difference, over the nodes in any
order of `DictOrder` (the pod configuration is a dict). `Raises` fails at any of
them; nothing is put back; `Restart` starts the tool again on what is left. A
switch gets its controller and its ports from OpenDaylight at any moment in
which its managers are set and one of them answers. Failures of `del-port` are
swallowed as in `ODL:207`.

Before a run the introspector may be run again (`Look`, one step per node): it
writes `pod`, the managers and the controller it found on each node, from a
deployment that an earlier run may have left half disconnected. A node without
managers then has nothing to be connected with (`NothingToConnect`), and one
whose controller was gone is satisfied by any.

### OvsResync

A testcase is a sequence of statements (`Script`): a step taken once
(`Once`), or a loop over the compute nodes with a body of one or two steps
(`ForEachNode`, `Dump`). main's place in it is the statement, the node and the
step of the body (`pc`, `at`, `part`); the nodes are their places in the list.
A switch is how many flows and groups it holds (`have`), OpenDaylight is how
many it wants there (`want`), and a count is the number of lines a dump has,
where an empty dump has one (`Lines`). OpenDaylight programs a switch only
while it is connected (`Program`), at its own pace, and may add flows of its own
once the instances are up (`Learn`). What `run_cmd` sends is carried out, is
lost with nobody looking at the result, or raises carried out or not. A
testcase may find switches an earlier one left without a controller or behind a
firewall rule (`Found`).

### BgpPeering

One step per step of main (`Steps`), from the search for the owner of the BGP
entity to the last command of the finally. A command has an effect only on the
owner; the owner may move, the command may be lost, and `FindOwner` may read
the `akka.conf` an earlier execution copied. The locals the finally looks at,
`fake_fip` and `quagga_vm`, and `compute`, which may be unbound, are modelled
(`Unbound` is the NameError). cloud-init ends, well or badly, whenever it does
(`QuaggaBoots`), the session of an able pair of speakers is up in one poll and
down in the next, and `Rerun` starts the testcase again on what is there. Of the
verdicts only those of the two waits are kept: the process list and the
configured FIB, which the two others read, follow the sessions at a pace of
their own, so `CheckBgpd` and `CheckFib` only go on.
`answers`, `lost` and `dirty` are history: what the polls saw, whether a command
had no effect, whether an earlier execution left something.

## 3. Runs

| Run | Question | Result |
|---|---|---|
| `lifecycle` | what do the fifteen testcases leave, on a clean or a dirty cloud, with an exception at any point? | holds |
| `ping` | when is a verdict about the present network; is each subtest reported? | holds |
| `ping_skipped` | does PASS mean that all subtests passed? | violated |
| `ping_stale` | do the last subtests of tc1 use the updated network? | violated |
| `monitor` | which lines do the monitors look at; are they stopped on every path? | holds |
| `monitor_missed` | are only the first pings ignored? | violated |
| `monitor_dropped` | does PASS of tc10 mean that traffic was not interrupted? | violated |
| `runner` | quotas, purge, details and exit status over two executions | holds |
| `reinstaller` | isolation, success, quagga, termination over two runs, with the introspector between them or not; is the whole a replacement? | holds |
| `reinstaller_ports` | is OpenDaylight started without pre-created ports only? | violated |
| `ovs_resync` | what is cut off when, what is handed back, what do tc11 and tc12 report? | holds |
| `bgp_peering` | what does tc3 take back, whose peering does it report, over two executions? | holds |

**What the properties say.**

- `QuietCleanupLeavesNothing`: when the lists are right and OpenStack fails no
  call, nothing is left. `QuietCleanupDeletesNoted`: whatever the body leaked,
  every noted resource goes but interfaces, subnets, routers and networks,
  which alone can be built upon. `NormalBodyNotesAll`: a body that runs to its
  end has noted all it made or adopted and nothing it deleted.
  `RefusedOnlyUnjoined` is about every moment of the cleanup: with right lists
  and no fault nothing is refused but an interface that was never joined, so
  that the order of the loops and the waits are right each by itself and not
  only in what is left at the end.
- `FreshVerdictsAreTrue`, `StaleOnlyWithinWindow`: verdicts of `PingCheck`.
  `EverySubtestReported`: unless the guest's userdata failed, each subtest
  behind main has one row, in the order of the plan, with its target and its
  result. `ReportSpec` is the refinement of `SubtestReport`,
  checked in `ping` and in `monitor`.
- `NoFalseAlarm`, `LooksAtAllButUnfinished`, `MonitorsJoined`: the monitors.
- `QuotasPutBack`, `PurgeLeavesJoinedRouters`, `ExitStatusIsTheOutcome`,
  `DetailsExplainTheExitStatus`: the runner. `QuotasPutBack` is about a cloud on
  which no execution was cut short and no call that puts a quota back failed:
  after either the quotas stay raised, and nothing in the code undoes it.
  `PurgeLeavesJoinedRouters` says what testcases meet of earlier ones: no
  floating IP, no gateway, and of the routers those that an interface still
  joins to a network, so the purge takes less than the comment above it asks for
  ("Clean up the stale routers", `run_sdnvpn_tests.py:73`). The `Leftovers` of
  `TestcaseLifecycle` have such routers. The last two together say what
  xtesting can conclude: a testcase that raised is missing from the details.
- `InstallIsIsolated`, `SwitchesFindOdl`, `QuaggaBack`: the reinstaller.
  `SwitchesFindOdl` is interesting after a failed run, which has stopped
  OpenDaylight: the next finds none, falls back on the first controller of the
  dict, and must not succeed where the managers name another.
  `ReplacementSpec` is the refinement of `OdlReplacement`: over all the runs,
  OpenDaylight and the managers of the switches are only taken away until one
  is installed where there is nothing of either, and only added to from then on.
- `OneSwitchAtATime`: tc12 never cuts off two compute nodes together.
  `HandedBack`: a testcase that returns gives every switch the controller of the
  first compute node and as many firewall rules as it had. `GroupsDeleted`:
  what "Group was deleted" means, given that an empty dump counts as a line.
  `NoFalseAlarm` (of `OvsResync`): when the fixed waits were long enough, no
  comparison fails. `LeftInSync`: OpenDaylight gets every switch in sync again.
- `BgpPutBack`: an execution that reaches the end of its finally has taken back
  neighbour, server, connection and bridge. `PassesAreOurs`: show-bgp
  does not say whose a session is; on a cluster that earlier executions left
  clean it is this one's. `WaitsReportWhatTheySaw`: the last
  poll counts.
- `Ends`, in the modules that wait for something: the program comes to its end;
  for the reinstaller, every one of its runs does.

**Bounds, and why they are enough.**

- `lifecycle`: the scripts are complete; `Leftovers` has, for the testcases that
  look by name, a network that is complete, one that lost its interface, one an
  unknown instance is still in, a router, a flavor, an image (not the second
  network of tc8, which shares the first one's router). `MaxFaults = 1`
  spontaneous failure in one cleanup: failures counted beyond it would only add
  combinations of effects that each occur alone, and timeouts of waits are not
  limited by it.
- `ping`: two targets, `Window = 3` (the code's is 4, used in `ping_stale`) and
  a plan of four subtests around two changes. The window is wider than one
  round of the targets and narrower than what the guest prints between the
  changes, so stale lines of both targets come and go. Polls per subtest: 1 or
  2, enough for a line to come after the first or never.
- `monitor`: a pair of instances of which one is deleted, and the newcomer;
  `Ignored = 1` of `MaxLines = 3` lines, so that there is a line that is
  ignored, one that is unfinished when read and one that follows.
  `monitor_dropped` takes the three instances of the testcase and one line each.
- `runner`: three enabled testcases around a disabled one, two executions; a
  third meets the quotas as the second did. Two routers, each with any of
  interface, gateway and floating IP, so that one can fail and the other not.
- `reinstaller`: two controllers and a compute node,
  OpenDaylight on none, one or both controllers, one node whose configuration
  names a controller; two of the ten attempts; two runs. The loops meet
  the compute node after one controller and before the other, hence before or
  after the one OpenDaylight is found on; the theorems are about every order.
- `ovs_resync`: two compute nodes, so that a command to one finds the other in
  either state. `VmGroups = 2`, since one group more would be the one line an
  empty dump has anyway; `MaxExtra = 1` flow of OpenDaylight's own. `MCFound`
  has sound deployments with and without groups, controllers that differ or are
  missing, and a rule left behind.
- `bgp_peering`: two nodes of OpenDaylight and one move of the owner, so that
  commands go astray from some step on; one poll of cloud-init, two of the
  peering, so that there is one that is last and one that is not; two
  executions, so that the second meets what the first left.

**Fairness, and why the code justifies it.** The program's own processes are
fair, and of what it talks to one controller. `WF(Body)` and `WF(Cleanup)`: main is one thread, each of its waits
counts its polls down, a REST call returns or raises. `WF(Main)` in `PingCheck`
and `VmMonitor`, `WF(Monitor(v))` in `VmMonitor`: each is a process that the
operating system runs and that sleeps for a fixed time between polls.
`WF(Tool)`: a command of the reinstaller returns. `WF(Step)` in `BgpPeering`:
main goes on; `Raises` is not part of `Step`, so nothing rests on an exception
that need not come. `WF(Main)` in `OvsResync` likewise, and `WF(Program(n))`: a
controller programs a switch that stays connected to it; without it no verdict
of tc11 and tc12 could be expected to be PASS. Nothing else is fair, neither
nova nor the guests nor OpenDaylight elsewhere: an instance may never go, a
console may never grow, NetVirt may never come up, and `Ends` holds all the
same. No liveness is claimed of the runner: it is a loop over a list, and that a
testcase ends is `Ends` of `TestcaseLifecycle`.

Deadlock is checked in every run; a program that is over stutters (`Done`).

## 4. What the code does otherwise than it says

1. `ping_skipped`: `get_ping_status_target_ip` and `check_ssh_output` return
   False without a row when the guest's userdata failed (`R:47`, `R:143`), and
   nobody looks at the value. The testcase passes, "All the subtests have
   passed" (`R:194`), with subtests that never took place.
2. `ping_stale`: vm_1 of tc1 has four targets, so the four lines a poll reads
   are a whole round of probes, which takes longer than the wait after a
   change. A subtest can be decided by a line about the network before.
3. `monitor_missed`: the scan stops before the unfinished line and
   `lines_offset` moves past it (`tc10:41`, `tc10:57`).
4. `monitor_dropped`: what fails between the first verdict of tc10 and the
   creation of vm_4 is dropped with the monitors (`tc10:198-204`).
5. `reinstaller_ports`: a failing `del-port` is taken for "No tunnel or patch
   ports configured" (`ODL:207`), though the deletion "is required" (`ODL:192`).

## 5. Proofs

All hold for every value of the constants that satisfies the modules' ASSUMEs,
which TLC evaluates for the instances above. The proof modules have one lemma
per part of the inductive invariant and one step per action in each.

**TestcaseLifecycleProofs**: `TypeCorrect`, `CleanupLeavesNothing`,
`CleanupDeletesNoted`, `NothingInTheWay`, `BodyNotesAll`, for every set of
scripts, resources, leftovers and faults. The assumption that matters is `OrderAssumption`: what is built on
something is deleted in an earlier loop than that something, which the order of
the loops must ensure for each script. The two properties speak of terminal
states and are not inductive. `FinallyInv` says for every moment of the finally
what can still exist: what has its loop, or its turn in the present loop, before
it (`StillDue`). A refusal is then impossible but for an interface that was
never there: the resource in the way would have a turn in an earlier loop
(`RefusedOrder`, `NothingInTheWay`). `NovaInv` (only instances and stacks are deleted
asynchronously) keeps `CloudDeletes` from disturbing the rest. Who made a
resource plays no part, so the theorems cover what is adopted. `BodyNotesAll`
speaks of the end of a body and rests on `DisciplineAssumption`: while a body
runs, what an earlier step noted for good is noted if it exists (`NotedInv`), and
for what is noted and does not exist a settling step is ahead (`SettledInv`).
At the end there is no step ahead. `AdvanceNotes` is the one lemma behind all
steps that go on: it says what a step may do to the lists and the cloud.

**SdnvpnRunnerProofs**: `TypeCorrect`, `RestoresQuotas`, `ExitStatusCorrect`,
`DetailsCorrect`, `PurgeLeavesOnlyJoined`, for every list of testcases, every number
of executions and of routers. Quotas, purge and loop do not touch each other, so
the invariant has a part for each: `QuotaInv` says at which statements the
quotas in force, or the saved ones, are the original ones; `PurgeInv` that each
loop of the purge has before it all it lists, that routers for which nothing
failed have no floating IP once the first loop is through, so that none of their
gateways is refused, and that only joined ones are behind the last; `LoopInv` that exactly the
enabled testcases before `next` have had their say and what status and details
make of that. `TestcaseStep` is the one lemma behind both ways a testcase can
end.

**OdlReinstallerProofs**: `TypeCorrect`, `Isolation`, `SuccessMeansReached`,
`QuaggaReturns`, `Replaces`, for every finite set of nodes, every order, any number of
attempts and runs. None of the properties says anything inside the loops over
the nodes. The sets `Stopped`, `Cut`, `Joined` and `Validated` say for every
`pc` and `at` how far each loop is; `IsolationInv` and `SwitchesInv` are claims
about those sets, `Prefixes` takes them from one node to the next, and that an
order reaches every node makes them claims about all nodes at the end of the
loop. That the chosen node is one the managers name follows from the first
switch found connected (`ReachedTheOne`): only the OpenDaylight just installed
runs. `DeploymentStep` shows that what the deployment does meanwhile takes
nothing back.

**BgpPeeringProofs**: `TypeCorrect`, `FinallyTakesBack`, `ReportsAreOurs`,
`WaitsAreRight`, for every number of OpenDaylight nodes, polls, moves of the
owner and executions. `Added` says that the locals the finally looks at tell of
everything that was added, `Gone` that what the finally is past is gone,
`Clean` that without a dirty history only this execution's neighbour is there,
`Waits` what has been said at each step of main.

**VmMonitorProofs**: `TypeCorrect`, `AllJoined`, `LooksOnce`, `AlarmsAreTrue`,
for every set of instances and consoles of any length. `ThreadsInv`: who runs is
on main's list. `CoverInv`: what lies before the offset was looked at, or was an
edge, and what was looked at lies before. `AlarmInv`: a message, wherever it is
between monitor, dictionary and main, comes from a failed ping.

**PingCheckProofs**: `TypeCorrect`, `FreshIsTrue`, `WaitIsEnough`, for every
plan, set of targets and window; `AllReported`. `TruthInv`: lines of the present
network say the truth about it. `RecentInv`: of the lines since a change only
the first can be of a probe begun before it. The last line of a verdict exists
because a set of indices has a greatest element, which is the one use of
well-foundedness. `ReportedInv`: the report has as many rows as subtests are
behind main, so the next row is the one its place in the plan calls for
(`RowOf`).

**OvsResyncProofs**: `TypeCorrect`, `OneAtATime`, `HandsBack`,
`GroupsAreDeleted`, `NoAlarms`, for every number of compute nodes, of groups, of
controllers and every set of deployments to find. The scripts are read once,
in the lemmas that say where main does what (`Places`) and where a step takes it
(`Moves`). `Base` has the types and what OpenDaylight wants of each switch: what
was found, and on the node of the instances theirs. `Switches` says what the
controller and the rules of every switch are at every place of main, which nodes
before and after `at` included; `Abandoned` what is left of that when a command
raised. From the first follow `HandedBack` and, with the second,
`OneSwitchAtATime`. The checks compare totals, and a total is a sum over the
nodes: `GroupBook` and `FlowBook` have one more term of the sums per node that
is counted, as sequences of partial sums whose existence is the invariant, so
that no recursive definition is needed. `GroupsAreDeleted` then is that two sums
whose terms are ordered one by one can only be equal term by term. `NoAlarms`
has a hypothesis, `Visible`: every deployment has flows on every node, and the
instances bring more than one group or every node has a group. The code needs
it: an empty dump counts as one line, so the first flow or the first group of a
switch makes no difference to a count. The deployments of the run satisfy it.

**Refinement**: `Refines` of `VmMonitorProofs` and of `PingCheckProofs` says that
the specification implements `SubtestReport` (`ReportSpec`). `ResultsProofs` shows that
`add_success` and `add_failure` are steps of it; every other action leaves the
`Results` alone. `Replaces` of `OdlReinstallerProofs` maps the nodes where
OpenDaylight runs, the switches with managers and the place in the run to the
three variables of `OdlReplacement`. One lemma takes each action to its step:
`InstallStep` needs the isolation of the installation, `Check` that all switches
are joined by then, and what the deployment does by itself is a stutter.

Only model-checked: `Ends` and `LeftInSync`, which are liveness under fairness,
out of reach of the provers; that the scripts of `TestcaseScripts` satisfy the
assumptions of `TestcaseLifecycle`, which TLC evaluates; and the violations of
section 4, which are counterexamples. Every invariant, action property and
refinement that a passing run checks is also a theorem.

## 6. Not modelled, and limits

- What a heat template makes. Which flow is which: the code only counts them.
- Text: the summary's layout, log lines, parsing of command output (a line is
  its meaning). Security groups are never deleted by any testcase and are
  no resources here. The four neutron quotas are one.
- What neutron does is external: it refuses to delete the port of a router
  interface directly (of a distributed router the purge does not even find one:
  its ports have another owner), a router that is in use, and a gateway that a
  floating IP goes through.
- In `OvsResync` every compute node has br-int throughout. Where `ovs-vsctl
  show` does not list it, the code counts no line for the node (`U:907`,
  `U:924`), before as after, and no comparison is about it.
- When OpenDaylight drops a prefix from its FIB, and where a bgpd runs after the
  BGP owner has moved: the verdicts that rest on them are not related to
  anything (`CheckFib`, `CheckBgpd`).
- Log gathering, configuration, the libvirt environment and the Ansible
  scenario: I/O or data without state of their own. Wrappers of `O` that no
  testcase calls, or that only read.
- The ssh utilities of odl-pipeline: a command is one step that takes effect or
  raises. The retry that `execute` documents
  (`odl-pipeline/lib/utils/processutils.py:117`) never happens, because the
  loop raises the first error again (line 232); no caller asks for it.
- An earlier execution of another testcase, or of the same one more than once:
  `Leftovers` is what one failed cleanup of the same testcase leaves. The lookup
  of an adopted image succeeds.
- The commands on the quagga instance itself: its configuration is part of
  cloud-init, which ends well or not.
- The runner's `result < 0` compares what `main` returns, a dict, with an int.
  The model has Python 2's ordering, in which no dict is less than an int: only
  the -1 of an exception is negative.
- In `OdlReinstaller` the managers of all nodes are the same, and OpenDaylight
  does not stop by itself.

## 7. Plan

Done: lifecycle with Heat and leftovers, results, console subtests, monitors,
runner, reinstaller with introspection, OVS resync, BGP peering; proofs about
all of them, and two abstract specifications with their refinements proved.

What would come next, in this order:

1. `SdnvpnRunner` and `TestcaseLifecycle` in one module, in which the leftovers
   of one execution are what the purge of the next one finds.
2. An abstract specification of the whole of a testcase (nothing of its own
   before and after, one verdict), which `TestcaseLifecycle` implements when
   its lists are right.
3. `BgpPeering` with a cluster that loses a node.
