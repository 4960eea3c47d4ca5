--------------------------- MODULE OdlReinstaller ---------------------------
(***************************************************************************)
(* ODLReInstaller.run (odl-pipeline): stop OpenDaylight wherever it runs,  *)
(* disconnect every Open vSwitch from it, install the new one on one node, *)
(* wait for it, reconnect the switches and validate them.  Any command can *)
(* raise, which ends the run with exit code 1 and puts nothing back; the   *)
(* tool can then be started again on the deployment as it was left, with   *)
(* the pod configuration as it is or as TripleOIntrospector.run writes it  *)
(* anew from that deployment.                                              *)
(*                                                                         *)
(* Abstractions.  bgpd and zrpcd are one service, quagga.  A switch has    *)
(* tunnel and patch ports or has none.  All switches are given the same    *)
(* managers.  Whether a switch is connected to a manager changes all the   *)
(* time: it is looked up, not stored.  The introspector visits the nodes   *)
(* in the order of the reinstaller.                                        *)
(***************************************************************************)
EXTENDS Naturals, FiniteSets

CONSTANTS
  Node,          \* the servers of the pod configuration
  Controller,    \* those with 'controller' in their host name
  Quagga,        \* those where bgpd and zrpcd are enabled
  AnyController, \* those whose switch had no controller at the first introspection
  Attempts,      \* how often the new OpenDaylight is asked whether it is up
  MaxRuns        \* bound: how often the tool is started
CONSTANT DictOrder \* the orders in which the dict of the pod may yield the nodes
CONSTANT Nobody    \* None

Count == Cardinality(Node)
Orders == {f \in [1..Count -> Node] : \A n \in Node : \E i \in 1..Count : f[i] = n}

ASSUME NodeAssumption == IsFiniteSet(Node) /\ Node # {} /\ Nobody \notin Node
ASSUME SubsetAssumption ==
  Controller \subseteq Node /\ Quagga \subseteq Node /\ AnyController \subseteq Node
ASSUME OrderAssumption == DictOrder # {} /\ DictOrder \subseteq Orders
ASSUME BoundAssumption == Attempts \in Nat \ {0} /\ MaxRuns \in Nat \ {0}

VARIABLES
  \* the deployment
  order,      \* the nodes in the order the pod configuration's dict yields them
  managers,   \* the managers of a switch: the nodes OpenDaylight was deployed on
  odl,        \* [Node -> state of OpenDaylight there]
  quagga,     \* nodes where bgpd and zrpcd run
  manager,    \* nodes whose switch has its OVSDB managers set
  ctl,        \* [Node -> the controller of br-int]
  ports,      \* nodes whose bridges have tunnel or patch ports
  \* the tools
  pod,        \* the pod configuration: [known, ctl], the nodes whose
              \* ovs-managers it has, and ovs-controller
  info,       \* node_info of the introspector, in the same form
  run, pc, at, first_controller, odl_node, counter,
  shown       \* did "ovs-vsctl show" have the controller connected

deployment == <<odl, quagga, manager, ctl, ports>>
locals == <<first_controller, odl_node, counter, shown>>
vars == <<order, managers, pod, info, deployment, run, pc, at, locals>>

node == order[at]

NoInfo == [known |-> {}, ctl |-> [n \in Node |-> "none"]]

Running(n) == odl[n] \in {"old", "starting", "new"}
Serving(n) == odl[n] \in {"old", "new"}

\* The switch has its managers set, and one of them answers.
Connected(n) == n \in manager /\ \E m \in managers : Serving(m)

Init ==
  /\ order \in DictOrder
  /\ managers \in SUBSET Controller
  /\ odl = [n \in Node |-> IF n \in managers THEN "old" ELSE "none"]
  /\ quagga = Quagga
  /\ manager = Node
  /\ ctl = [n \in Node |-> "configured"]
  /\ ports = Node
  /\ pod = [known |-> Node,
            ctl |-> [n \in Node |-> IF n \in AnyController THEN "none" ELSE "configured"]]
  /\ info = NoInfo
  /\ run = 1 /\ pc = "drop" /\ at = 1
  /\ first_controller = Nobody /\ odl_node = Nobody
  /\ counter = 1 /\ shown = FALSE

-----------------------------------------------------------------------------
\* The "for node in self.nodes" loops: on with the next node, or past the loop.
Loop(body, after) ==
  IF at < Count THEN at' = at + 1 /\ pc' = body ELSE at' = 1 /\ pc' = after

Fixed == UNCHANGED <<order, managers, pod, info, run>>

\* gen_node_info: get-controller and get-manager of one node.  The file is
\* written when all nodes have been visited.
Look ==
  /\ pc = "look"
  /\ LET seen == [known |-> IF node \in manager THEN info.known \union {node}
                                               ELSE info.known,
                  ctl |-> [info.ctl EXCEPT ![node] = ctl[node]]]
     IN  IF at < Count THEN info' = seen /\ UNCHANGED pod
                       ELSE pod' = seen /\ info' = NoInfo
  /\ Loop("look", "drop")
  /\ UNCHANGED <<order, managers, run, deployment, locals>>

\* Mutant: the loop forgets to stop at the last node.
DropController_TooFar ==
  /\ pc = "drop"
  /\ ctl' = [ctl EXCEPT ![node] = "none"]
  /\ at' = at + 1 /\ pc' = IF at <= Count THEN "drop" ELSE "detect"
  /\ Fixed /\ UNCHANGED <<odl, quagga, manager, ports, locals>>

DropController ==
  /\ pc = "drop"
  /\ ctl' = [ctl EXCEPT ![node] = "none"]
  /\ Loop("drop", "detect")
  /\ Fixed /\ UNCHANGED <<odl, quagga, manager, ports, locals>>

NoteController ==
  first_controller' =
    IF first_controller = Nobody /\ node \in Controller THEN node
                                                        ELSE first_controller

\* Mutant: OpenDaylight is looked for until it has been found.
Detect_FirstOnly ==
  /\ pc = "detect"
  /\ NoteController
  /\ IF Running(node) /\ odl_node = Nobody
     THEN odl_node' = node /\ odl' = [odl EXCEPT ![node] = "stopped"]
     ELSE UNCHANGED <<odl_node, odl>>
  /\ pc' = IF odl_node' = Nobody THEN "del-controller" ELSE "stop quagga"
  /\ Fixed
  /\ UNCHANGED <<quagga, manager, ctl, ports, at, counter, shown>>

\* As a container or as a service: it is stopped, and the node is the one.
Detect ==
  /\ pc = "detect"
  /\ NoteController
  /\ IF Running(node)
     THEN odl_node' = node /\ odl' = [odl EXCEPT ![node] = "stopped"]
     ELSE UNCHANGED <<odl_node, odl>>
  /\ pc' = IF odl_node' = Nobody THEN "del-controller" ELSE "stop quagga"
  /\ Fixed
  /\ UNCHANGED <<quagga, manager, ctl, ports, at, counter, shown>>

\* On this node, though the condition is about the node OpenDaylight was on.
StopQuagga ==
  /\ pc = "stop quagga"
  /\ quagga' = quagga \ {node}
  /\ pc' = "del-controller"
  /\ Fixed /\ UNCHANGED <<odl, manager, ctl, ports, at, locals>>

-----------------------------------------------------------------------------
\* disconnect_ovs
DelController ==
  /\ pc = "del-controller"
  /\ ctl' = [ctl EXCEPT ![node] = "none"]
  /\ pc' = "del-manager"
  /\ Fixed /\ UNCHANGED <<odl, quagga, manager, ports, at, locals>>

\* Mutant: a failure is taken for "no manager", as one to delete the ports is.
DelManager_Swallowed ==
  /\ pc = "del-manager"
  /\ manager' \in {manager, manager \ {node}}
  /\ pc' = "del-ports"
  /\ Fixed /\ UNCHANGED <<odl, quagga, ctl, ports, at, locals>>

DelManager ==
  /\ pc = "del-manager"
  /\ manager' = manager \ {node}
  /\ pc' = "del-ports"
  /\ Fixed /\ UNCHANGED <<odl, quagga, ctl, ports, at, locals>>

\* br-int, then br-ex; a failure to list or to delete a port is taken for
\* "no ports" of that bridge, and the loop goes on.
DelPorts ==
  /\ pc = "del-ports"
  /\ ports' \in {ports, ports \ {node}}
  /\ Loop("detect", "choose")
  /\ Fixed /\ UNCHANGED <<odl, quagga, manager, ctl, locals>>

-----------------------------------------------------------------------------
\* Without a controller to fall back on, reinstall_odl raises.
Choose ==
  /\ pc = "choose"
  /\ odl_node' = IF odl_node = Nobody THEN first_controller ELSE odl_node
  /\ pc' = IF odl_node' = Nobody THEN "error" ELSE "start quagga"
  /\ Fixed /\ UNCHANGED <<deployment, at, first_controller, counter, shown>>

\* Mutant: on the first controller, wherever OpenDaylight was.
StartQuagga_FirstController ==
  /\ pc = "start quagga"
  /\ quagga' = quagga \union ({first_controller} \intersect Quagga)
  /\ pc' = "remove"
  /\ Fixed /\ UNCHANGED <<odl, manager, ctl, ports, at, locals>>

\* _start_service_if_enabled
StartQuagga ==
  /\ pc = "start quagga"
  /\ quagga' = quagga \union ({odl_node} \intersect Quagga)
  /\ pc' = "remove"
  /\ Fixed /\ UNCHANGED <<odl, manager, ctl, ports, at, locals>>

\* rm -rf /opt/opendaylight, or yum remove; the new files are put in place.
Replace ==
  /\ pc = "remove"
  /\ odl' = [odl EXCEPT ![odl_node] = "stopped"]
  /\ pc' = "start"
  /\ Fixed /\ UNCHANGED <<quagga, manager, ctl, ports, at, locals>>

\* puppet apply: an exit code other than 2 raises, whatever has been started.
StartOdl ==
  /\ pc = "start"
  /\ odl' = [odl EXCEPT ![odl_node] = "starting"]
  /\ pc' \in {"wait", "error"}
  /\ Fixed /\ UNCHANGED <<quagga, manager, ctl, ports, at, locals>>

\* curl --fail .../diagstatus
PollSucceeds ==
  /\ pc = "wait" /\ odl[odl_node] = "new"
  /\ pc' = "connect"
  /\ Fixed /\ UNCHANGED <<deployment, at, locals>>

\* Mutant: the attempts are not counted.
PollFails_NotCounted ==
  /\ pc = "wait"
  /\ pc' = IF counter < Attempts THEN "wait" ELSE "connect"
  /\ Fixed /\ UNCHANGED <<deployment, at, locals>>

\* After the last attempt the run goes on, with a warning.
PollFails ==
  /\ pc = "wait"
  /\ counter' = counter + 1
  /\ pc' = IF counter < Attempts THEN "wait" ELSE "connect"
  /\ Fixed
  /\ UNCHANGED <<deployment, at, first_controller, odl_node, shown>>

-----------------------------------------------------------------------------
\* set-manager; there is nothing to set it to when the introspector found no
\* managers on the node, and ovs-vsctl fails.
ConnectOvs ==
  /\ pc = "connect" /\ node \in pod.known
  /\ manager' = manager \union {node}
  /\ Loop("connect", "show")
  /\ Fixed /\ UNCHANGED <<odl, quagga, ctl, ports, locals>>

\* validate_ovs: one "ovs-vsctl show", for the manager and the controller.
Show ==
  /\ pc = "show"
  /\ shown' \in (IF ctl[node] = "none" THEN {FALSE} ELSE BOOLEAN)
  /\ pc' = IF Connected(node) THEN "check" ELSE "error"
  /\ Fixed /\ UNCHANGED <<deployment, at, first_controller, odl_node, counter>>

Accepted(n) == IF pod.ctl[n] = "none" THEN ctl[n] # "none" ELSE ctl[n] = pod.ctl[n]

\* Mutant: any controller will do.
Check_AnyController ==
  /\ pc = "check"
  /\ IF ctl[node] # "none" /\ shown THEN Loop("show", "success")
                                     ELSE pc' = "error" /\ UNCHANGED at
  /\ Fixed /\ UNCHANGED <<deployment, locals>>

\* The controller is read anew; that it is connected, from the old output.
Check ==
  /\ pc = "check"
  /\ IF Accepted(node) /\ shown THEN Loop("show", "success")
                                ELSE pc' = "error" /\ UNCHANGED at
  /\ Fixed /\ UNCHANGED <<deployment, locals>>

Terminal == pc \in {"success", "error"}

\* Any other command of the run fails.
Raises ==
  /\ ~Terminal /\ pc # "wait"
  /\ pc' = "error" /\ info' = NoInfo
  /\ UNCHANGED <<order, managers, pod, run, deployment, at, locals>>

NothingToConnect ==
  /\ pc = "connect" /\ node \notin pod.known
  /\ pc' = "error"
  /\ Fixed /\ UNCHANGED <<deployment, at, locals>>

\* The tool is started again, the introspector before it or not.
Restart ==
  /\ Terminal /\ run < MaxRuns
  /\ run' = run + 1 /\ pc' \in {"drop", "look"} /\ at' = 1
  /\ first_controller' = Nobody /\ odl_node' = Nobody
  /\ counter' = 1 /\ shown' = FALSE
  /\ UNCHANGED <<order, managers, pod, info, deployment>>

-----------------------------------------------------------------------------
\* What the deployment does by itself.
ToolIdle == UNCHANGED <<order, managers, pod, info, run, pc, at, locals>>

OdlComesUp(n) ==
  /\ odl[n] = "starting"
  /\ odl' = [odl EXCEPT ![n] = "new"]
  /\ ToolIdle /\ UNCHANGED <<quagga, manager, ctl, ports>>

\* OpenDaylight sets up the switch that is connected to it.
OdlSetsUp(n) ==
  /\ Connected(n) /\ ctl[n] = "none"
  /\ \E c \in {"configured", "other"} : ctl' = [ctl EXCEPT ![n] = c]
  /\ ports' = ports \union {n}
  /\ ToolIdle /\ UNCHANGED <<odl, quagga, manager>>

Tool ==
  \/ Look \/ DropController \/ Detect \/ StopQuagga
  \/ DelController \/ DelManager \/ DelPorts
  \/ Choose \/ StartQuagga \/ Replace \/ StartOdl \/ PollSucceeds \/ PollFails
  \/ ConnectOvs \/ NothingToConnect \/ Show \/ Check

Deployment ==
  \E n \in Node : OdlComesUp(n) \/ OdlSetsUp(n)

Done == Terminal /\ run = MaxRuns /\ UNCHANGED vars

Next == Tool \/ Raises \/ Restart \/ Deployment \/ Done

\* Every command returns; nothing is promised of the deployment.
Spec == Init /\ [][Next]_vars /\ WF_vars(Tool)

-----------------------------------------------------------------------------
TypeOK ==
  /\ order \in DictOrder /\ managers \subseteq Controller
  /\ odl \in [Node -> {"none", "old", "stopped", "starting", "new"}]
  /\ quagga \subseteq Node /\ manager \subseteq Node
  /\ ctl \in [Node -> {"none", "configured", "other"}]
  /\ ports \subseteq Node
  /\ pod \in [known : SUBSET Node, ctl : [Node -> {"none", "configured", "other"}]]
  /\ info \in [known : SUBSET Node, ctl : [Node -> {"none", "configured", "other"}]]
  /\ run \in 1..MaxRuns /\ at \in 1..Count
  /\ pc \in {"look", "drop", "detect", "stop quagga", "del-controller", "del-manager",
             "del-ports", "choose", "start quagga", "remove", "start",
             "wait", "connect", "show", "check", "success", "error"}
  /\ first_controller \in Controller \union {Nobody}
  /\ odl_node \in Node \union {Nobody}
  /\ counter \in 1..(Attempts + 1) /\ shown \in BOOLEAN

(***************************************************************************)
(* While the new OpenDaylight is put in place none runs anywhere, and no   *)
(* switch has a manager to connect to: in whatever order the nodes come,   *)
(* on however many of them it ran, and wherever an earlier run gave up.    *)
(***************************************************************************)
InstallIsIsolated ==
  pc \in {"start quagga", "remove", "start"} =>
    /\ \A n \in Node : ~Running(n)
    /\ manager = {}

(***************************************************************************)
(* A successful run leaves one OpenDaylight, on a node the managers of the *)
(* switches name, and every switch with its managers set and a controller  *)
(* the pod configuration allows.  A run after one that failed falls back   *)
(* on the first controller, which the managers need not name: such a run   *)
(* must not succeed.                                                       *)
(***************************************************************************)
SwitchesFindOdl ==
  pc = "success" =>
    /\ {n \in Node : Running(n)} = {odl_node} /\ odl_node \in managers
    /\ manager = Node /\ \A n \in Node : Accepted(n)

(***************************************************************************)
(* bgpd and zrpcd run again on the node of the new OpenDaylight when the   *)
(* switches are reconnected to it, whichever run stopped them.             *)
(***************************************************************************)
QuaggaBack ==
  pc \in {"connect", "show", "check", "success"} /\ odl_node \in Quagga =>
    odl_node \in quagga

(***************************************************************************)
(* The loops, commands and retries above are a replacement of OpenDaylight *)
(* as a whole: what serves and what is linked change in no other order     *)
(* than OdlReplacement has them, over all the runs of the tool.            *)
(***************************************************************************)
Phase ==
  CASE pc = "success" -> "succeeded"
    [] pc = "error" -> "failed"
    [] pc \in {"wait", "connect", "show", "check"} -> "together"
    [] OTHER -> "apart"

Replacement == INSTANCE OdlReplacement WITH
  serving <- {n \in Node : Running(n)}, linked <- manager, phase <- Phase

ReplacementSpec == Replacement!Spec

\* Every run of the tool comes to its end, up or not.
Ends == []<>Terminal

(***************************************************************************)
(* disconnect_ovs says that deleting the tunnel and patch ports is         *)
(* required, because OpenDaylight fails to reconcile pre-created ports: it *)
(* is never started next to some.                                          *)
(***************************************************************************)
NoPortsLeftForOdl == pc = "start" => ports = {}
=============================================================================
