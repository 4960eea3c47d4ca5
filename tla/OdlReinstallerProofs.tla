------------------------ MODULE OdlReinstallerProofs ------------------------
(***************************************************************************)
(* What a reinstallation relies on and leaves, for every deployment,       *)
(* every order of the nodes and however often the tools are started.       *)
(*                                                                         *)
(* Each loop over the nodes establishes its claim node by node (Stopped,   *)
(* Cut, Joined, Validated say how far it is), and the claim must survive   *)
(* what OpenDaylight does meanwhile until the end of the run.              *)
(***************************************************************************)
EXTENDS OdlReinstaller, FiniteSetTheorems, TLAPS

\* The node of every index before i, and that index too if the step is done.
Before(i) == {order[j] : j \in 1..(i - 1)}
Upto(i) == {order[j] : j \in 1..i}

Past == {"wait", "connect", "show", "check", "success"}

\* The nodes on which OpenDaylight has been stopped by this run.
Stopped ==
  CASE pc = "detect" -> Before(at)
    [] pc \in {"stop quagga", "del-controller", "del-manager", "del-ports"} -> Upto(at)
    [] pc \in {"choose", "start quagga", "remove", "start"} -> Node
    [] pc \in Past -> Node \ {odl_node}
    [] OTHER -> {}

\* The nodes whose switch has been cut off, and not been connected again.
Cut ==
  CASE pc \in {"detect", "stop quagga", "del-controller", "del-manager"} -> Before(at)
    [] pc = "del-ports" -> Upto(at)
    [] pc \in {"choose", "start quagga", "remove", "start", "wait"} -> Node
    [] OTHER -> {}

\* The nodes whose switch has been connected again.
Joined ==
  CASE pc = "connect" -> Before(at)
    [] pc \in {"show", "check", "success"} -> Node
    [] OTHER -> {}

\* The nodes whose switch has been validated.
Validated ==
  CASE pc \in {"show", "check"} -> Before(at)
    [] pc = "success" -> Node
    [] OTHER -> {}

\* The attempts are counted from 1.
CounterInv ==
  /\ pc \notin Past \union {"error"} => counter = 1
  /\ pc = "wait" => counter <= Attempts

IsolationInv ==
  /\ \A n \in Stopped : ~Running(n)
  /\ Cut \intersect manager = {}

ChosenInv ==
  /\ pc \in Past \union {"start quagga", "remove", "start"} => odl_node \in Node
  /\ pc \in Past => Running(odl_node)

\* The loop that reconnects the switches begins with the first node.
Install == {"choose", "start quagga", "remove", "start", "wait"}

SwitchesInv ==
  /\ pc \in Install => Before(at) = {}
  /\ Joined \subseteq manager
  /\ \A n \in Validated : Accepted(n)
  /\ pc = "check" \/ Validated # {} => odl_node \in managers

QuaggaInv ==
  pc \in Past \union {"remove", "start"} /\ odl_node \in Quagga =>
    odl_node \in quagga

IInv ==
  TypeOK /\ CounterInv /\ IsolationInv /\ ChosenInv /\ SwitchesInv /\ QuaggaInv

-----------------------------------------------------------------------------
LEMMA CountType == Count \in Nat \ {0}
<1>1. Cardinality(Node) \in Nat /\ (Cardinality(Node) = 0 <=> Node = {})
  BY FS_CardinalityType, FS_EmptySet, NodeAssumption
<1>. QED
  BY <1>1, NodeAssumption DEF Count

LEMMA Prefixes ==
  ASSUME NEW f, NEW i \in Nat \ {0}
  PROVE  {f[j] : j \in 1..i} = {f[j] : j \in 1..(i - 1)} \union {f[i]}
<1>1. 1..i = 1..(i - 1) \union {i}
  OBVIOUS
<1>. QED
  BY <1>1, Zenon

LEMMA Index ==
  ASSUME TypeOK
  PROVE  at \in Nat \ {0} /\ at <= Count /\ order \in Orders
<1>1. at \in 1..Count /\ order \in DictOrder
  BY DEF TypeOK
<1>. QED
  BY <1>1, CountType, OrderAssumption

LEMMA NodeAt ==
  ASSUME TypeOK
  PROVE  node \in Node /\ Upto(at) = Before(at) \union {node}
<1>1. node \in Node
  BY Index DEF node, Orders
<1>2. Upto(at) = Before(at) \union {node}
  BY Index, Prefixes, Zenon DEF Upto, Before, node
<1>. QED
  BY <1>1, <1>2

LEMMA InNode ==
  ASSUME TypeOK
  PROVE  Before(at) \subseteq Node /\ Upto(at) \subseteq Node
<1>1. \A j \in 1..Count : order[j] \in Node
  BY Index DEF Orders
<1>2. 1..(at - 1) \subseteq 1..Count /\ 1..at \subseteq 1..Count
  BY Index, CountType
<1>. QED
  BY <1>1, <1>2, Zenon DEF Before, Upto

\* A loop goes on with the next node, or has visited all of them.
LEMMA LoopStep ==
  ASSUME TypeOK, NEW body, NEW after, Loop(body, after), order' = order
  PROVE  /\ at' \in 1..Count
         /\ \/ pc' = body /\ Before(at)' = Upto(at)
            \/ pc' = after /\ Upto(at) = Node /\ Before(at)' = {}
<1>1. Before(at)' = {order[j] : j \in 1..(at' - 1)}
  BY Zenon DEF Before
<1>2. CASE at < Count
  <2>1. at' = at + 1 /\ pc' = body
    BY <1>2 DEF Loop
  <2>2. at' - 1 = at
    BY <2>1, Index
  <2>3. Before(at)' = Upto(at)
    BY <1>1, <2>2, Zenon DEF Upto
  <2>4. at + 1 \in 1..Count
    BY <1>2, Index, CountType
  <2>. QED
    BY <2>1, <2>3, <2>4, Zenon
<1>3. CASE ~(at < Count)
  <2>1. at' = 1 /\ pc' = after
    BY <1>3 DEF Loop
  <2>2. at = Count
    BY <1>3, Index, CountType
  <2>3. Upto(at) = Node
    BY <2>2, Index DEF Orders, Upto
  <2>4. {order[j] : j \in 1..(1 - 1)} = {}
    OBVIOUS
  <2>5. Before(at)' = {}
    BY <1>1, <2>1, <2>4, Zenon
  <2>6. 1 \in 1..Count
    BY CountType
  <2>. QED
    BY <2>1, <2>3, <2>5, <2>6, Zenon
<1>. QED
  BY <1>2, <1>3

-----------------------------------------------------------------------------
LEMMA NoInfoType ==
  NoInfo \in [known : SUBSET Node, ctl : [Node -> {"none", "configured", "other"}]]
BY DEF NoInfo

LEMMA TypeStep == TypeOK /\ CounterInv /\ [Next]_vars => TypeOK'
<1>. SUFFICES ASSUME TypeOK, CounterInv, [Next]_vars PROVE TypeOK'
  OBVIOUS
<1>. USE NodeAt, SubsetAssumption, BoundAssumption
     DEF deployment, locals, Fixed
<1>1. CASE Look
  <2>1. at' \in 1..Count /\ pc' \in {"look", "drop"}
    BY <1>1, LoopStep DEF Look
  <2>2. /\ pod' \in [known : SUBSET Node, ctl : [Node -> {"none", "configured", "other"}]]
        /\ info' \in [known : SUBSET Node, ctl : [Node -> {"none", "configured", "other"}]]
    BY <1>1 DEF Look, NoInfo, TypeOK
  <2>. QED
    BY <1>1, <2>1, <2>2 DEF Look, TypeOK
<1>2. CASE DropController
  <2>1. at' \in 1..Count /\ pc' \in {"drop", "detect"}
    BY <1>2, LoopStep DEF DropController
  <2>. QED
    BY <1>2, <2>1 DEF DropController, TypeOK
<1>3. CASE Detect
  BY <1>3 DEF Detect, NoteController, TypeOK
<1>4. CASE StopQuagga \/ DelController \/ DelManager
  BY <1>4 DEF StopQuagga, DelController, DelManager, TypeOK
<1>5. CASE DelPorts
  <2>1. at' \in 1..Count /\ pc' \in {"detect", "choose"}
    BY <1>5, LoopStep DEF DelPorts
  <2>. QED
    BY <1>5, <2>1 DEF DelPorts, TypeOK
<1>6. CASE Choose \/ StartQuagga
  BY <1>6 DEF Choose, StartQuagga, TypeOK
<1>16. CASE Replace
  BY <1>16 DEF Replace, TypeOK
<1>17. CASE StartOdl
  BY <1>17 DEF StartOdl, TypeOK
<1>7. CASE PollSucceeds
  BY <1>7 DEF PollSucceeds, TypeOK
<1>8. CASE PollFails
  <2>1. counter <= Attempts
    BY <1>8 DEF PollFails, CounterInv
  <2>2. counter' \in 1..(Attempts + 1)
    BY <1>8, <2>1 DEF PollFails, TypeOK
  <2>. QED
    BY <1>8, <2>2 DEF PollFails, TypeOK
<1>9. CASE ConnectOvs
  <2>1. at' \in 1..Count /\ pc' \in {"connect", "show"}
    BY <1>9, LoopStep DEF ConnectOvs
  <2>. QED
    BY <1>9, <2>1 DEF ConnectOvs, TypeOK
<1>10. CASE NothingToConnect \/ Raises
  BY <1>10, NoInfoType DEF NothingToConnect, Raises, TypeOK
<1>11. CASE Show
  BY <1>11 DEF Show, TypeOK
<1>12. CASE Check
  <2>1. CASE Loop("show", "success")
    <3>1. at' \in 1..Count /\ pc' \in {"show", "success"}
      BY <1>12, <2>1, LoopStep DEF Check
    <3>. QED
      BY <1>12, <3>1 DEF Check, TypeOK
  <2>2. CASE pc' = "error" /\ UNCHANGED at
    BY <1>12, <2>2 DEF Check, TypeOK
  <2>. QED
    BY <1>12, <2>1, <2>2 DEF Check
<1>13. CASE Restart
  <2>1. run \in 1..MaxRuns /\ run < MaxRuns /\ run' = run + 1
    BY <1>13 DEF Restart, TypeOK
  <2>2. run' \in 1..MaxRuns
    BY <2>1
  <2>3. 1 \in 1..Count /\ 1 \in 1..(Attempts + 1)
    BY CountType
  <2>. QED
    BY <1>13, <2>2, <2>3 DEF Restart, TypeOK
<1>14. ASSUME NEW n \in Node, OdlComesUp(n) \/ OdlSetsUp(n)
       PROVE  TypeOK'
  <2>1. CASE OdlComesUp(n)
    BY <2>1 DEF OdlComesUp, ToolIdle, TypeOK
  <2>2. CASE OdlSetsUp(n)
    <3>1. PICK c \in {"configured", "other"} : ctl' = [ctl EXCEPT ![n] = c]
      BY <2>2 DEF OdlSetsUp
    <3>2. ctl' \in [Node -> {"none", "configured", "other"}]
      BY <3>1 DEF TypeOK
    <3>. QED
      BY <2>2, <3>2 DEF OdlSetsUp, ToolIdle, TypeOK
  <2>. QED
    BY <1>14, <2>1, <2>2
<1>15. CASE UNCHANGED vars
  BY <1>15 DEF vars, TypeOK
<1>. QED
  BY <1>1, <1>2, <1>3, <1>4, <1>5, <1>6, <1>7, <1>8, <1>9, <1>10, <1>11,
     <1>12, <1>13, <1>14, <1>15, <1>16, <1>17 DEF Next, Tool, Deployment, Done

-----------------------------------------------------------------------------
LEMMA CounterStep == TypeOK /\ CounterInv /\ [Next]_vars => CounterInv'
<1>. SUFFICES ASSUME TypeOK, CounterInv, [Next]_vars PROVE CounterInv'
  OBVIOUS
<1>. USE DEF CounterInv, Past, Fixed, locals
<1>1. CASE Look \/ DropController \/ DelPorts \/ ConnectOvs
  BY <1>1 DEF Look, DropController, DelPorts, ConnectOvs, Loop
<1>2. CASE Detect \/ StopQuagga \/ DelController \/ DelManager
  BY <1>2 DEF Detect, StopQuagga, DelController, DelManager
<1>3. CASE Choose \/ StartQuagga \/ Replace
  BY <1>3 DEF Choose, StartQuagga, Replace
<1>4. CASE StartOdl
  BY <1>4, BoundAssumption DEF StartOdl
<1>5. CASE PollSucceeds
  BY <1>5 DEF PollSucceeds
<1>6. CASE PollFails
  <2>1. counter \in Nat /\ counter' = counter + 1 /\ Attempts \in Nat
    BY <1>6, BoundAssumption DEF PollFails, TypeOK
  <2>. QED
    BY <1>6, <2>1 DEF PollFails
<1>7. CASE Show \/ Check
  BY <1>7 DEF Show, Check, Loop
<1>8. CASE NothingToConnect \/ Raises \/ Restart
  BY <1>8 DEF NothingToConnect, Raises, Restart
<1>9. CASE Deployment
  BY <1>9 DEF Deployment, OdlComesUp, OdlSetsUp, ToolIdle
<1>10. CASE UNCHANGED vars
  BY <1>10 DEF vars
<1>. QED
  BY <1>1, <1>2, <1>3, <1>4, <1>5, <1>6, <1>7, <1>8, <1>9, <1>10
  DEF Next, Tool, Done

-----------------------------------------------------------------------------
LEMMA SameNodes ==
  ASSUME order' = order, at' = at
  PROVE  Before(at)' = Before(at) /\ Upto(at)' = Upto(at) /\ node' = node
BY DEF Before, Upto, node

\* What the deployment does stops no claim from being true.
LEMMA DeploymentStep ==
  ASSUME TypeOK, Deployment
  PROVE  /\ UNCHANGED <<order, managers, pod, info, run, pc, at, locals, manager, quagga>>
         /\ \A n \in Node : Running(n)' <=> Running(n)
         /\ \A n \in Node : Accepted(n) => Accepted(n)'
<1>. PICK n \in Node : OdlComesUp(n) \/ OdlSetsUp(n)
  BY DEF Deployment
<1>1. CASE OdlComesUp(n)
  <2>1. odl[n] = "starting" /\ odl' = [odl EXCEPT ![n] = "new"]
    BY <1>1 DEF OdlComesUp
  <2>2. \A m \in Node : Running(m)' <=> Running(m)
    BY <2>1 DEF Running, TypeOK
  <2>. QED
    BY <1>1, <2>2 DEF OdlComesUp, ToolIdle, Accepted
<1>2. CASE OdlSetsUp(n)
  <2>1. PICK c \in {"configured", "other"} : ctl' = [ctl EXCEPT ![n] = c]
    BY <1>2 DEF OdlSetsUp
  <2>2. \A m \in Node : Accepted(m) => Accepted(m)'
    BY <1>2, <2>1 DEF Accepted, OdlSetsUp, ToolIdle, TypeOK
  <2>. QED
    BY <1>2, <2>2 DEF OdlSetsUp, ToolIdle, Running
<1>. QED
  BY <1>1, <1>2

LEMMA IsolationStep == TypeOK /\ IsolationInv /\ [Next]_vars => IsolationInv'
<1>. SUFFICES ASSUME TypeOK, IsolationInv, [Next]_vars PROVE IsolationInv'
  OBVIOUS
<1>. USE NodeAt DEF Past, Fixed, locals
<1>1. CASE Look
  BY <1>1 DEF Look, Loop, IsolationInv, Stopped, Cut
<1>2. CASE DropController
  <2>1. pc' = "drop" \/ (pc' = "detect" /\ Before(at)' = {})
    BY <1>2, LoopStep DEF DropController
  <2>. QED
    BY <2>1 DEF IsolationInv, Stopped, Cut
<1>3. CASE Detect
  <2>1. pc' \in {"stop quagga", "del-controller"}
    BY <1>3 DEF Detect
  <2>2. \A n \in Upto(at) : ~Running(n)'
    <3>1. \A n \in Before(at) : ~Running(n)
      BY <1>3 DEF Detect, IsolationInv, Stopped
    <3>2. CASE Running(node)
      BY <1>3, <3>1, <3>2, InNode DEF Detect, Running, TypeOK
    <3>3. CASE ~Running(node)
      BY <1>3, <3>1, <3>3 DEF Detect, Running
    <3>. QED
      BY <3>2, <3>3
  <2>3. Before(at)' = Before(at) /\ Upto(at)' = Upto(at)
    BY <1>3, SameNodes DEF Detect
  <2>. QED
    BY <1>3, <2>1, <2>2, <2>3 DEF Detect, IsolationInv, Stopped, Cut
<1>4. CASE StopQuagga \/ DelController
  <2>1. Before(at)' = Before(at) /\ Upto(at)' = Upto(at)
    BY <1>4, SameNodes DEF StopQuagga, DelController
  <2>. QED
    BY <1>4, <2>1
    DEF StopQuagga, DelController, IsolationInv, Stopped, Cut, Running
<1>5. CASE DelManager
  <2>1. Before(at)' = Before(at) /\ Upto(at)' = Upto(at)
    BY <1>5, SameNodes DEF DelManager
  <2>. QED
    BY <1>5, <2>1 DEF DelManager, IsolationInv, Stopped, Cut, Running
<1>6. CASE DelPorts
  <2>1. \/ pc' = "detect" /\ Before(at)' = Upto(at)
        \/ pc' = "choose" /\ Upto(at) = Node
    BY <1>6, LoopStep DEF DelPorts
  <2>. QED
    BY <1>6, <2>1 DEF DelPorts, IsolationInv, Stopped, Cut, Running
<1>7. CASE Choose \/ StartQuagga
  BY <1>7 DEF Choose, StartQuagga, deployment, IsolationInv, Stopped, Cut, Running
<1>8. CASE Replace
  BY <1>8 DEF Replace, IsolationInv, Stopped, Cut, Running, TypeOK
<1>9. CASE StartOdl
  BY <1>9 DEF StartOdl, IsolationInv, Stopped, Cut, Running, TypeOK
<1>10. CASE PollSucceeds \/ PollFails
  BY <1>10
  DEF PollSucceeds, PollFails, deployment, IsolationInv, Stopped, Cut, Running
<1>11. CASE ConnectOvs \/ NothingToConnect
  BY <1>11 DEF ConnectOvs, NothingToConnect, Loop, deployment,
               IsolationInv, Stopped, Cut, Running
<1>12. CASE Show \/ Check
  BY <1>12 DEF Show, Check, Loop, deployment, IsolationInv, Stopped, Cut, Running
<1>13. CASE Raises \/ Restart
  BY <1>13 DEF Raises, Restart, IsolationInv, Stopped, Cut
<1>14. CASE Deployment
  <2>1. Stopped' = Stopped /\ Cut' = Cut /\ manager' = manager
    BY <1>14, DeploymentStep, SameNodes DEF Stopped, Cut
  <2>2. Stopped \subseteq Node
    BY InNode DEF Stopped
  <2>. QED
    BY <1>14, <2>1, <2>2, DeploymentStep DEF IsolationInv
<1>15. CASE UNCHANGED vars
  <2>1. Stopped' = Stopped /\ Cut' = Cut
    BY <1>15, SameNodes DEF vars, Stopped, Cut
  <2>. QED
    BY <1>15, <2>1 DEF vars, deployment, IsolationInv, Running
<1>. QED
  BY <1>1, <1>2, <1>3, <1>4, <1>5, <1>6, <1>7, <1>8, <1>9, <1>10, <1>11,
     <1>12, <1>13, <1>14, <1>15 DEF Next, Tool, Done

-----------------------------------------------------------------------------
LEMMA ChosenStep == TypeOK /\ ChosenInv /\ [Next]_vars => ChosenInv'
<1>. SUFFICES ASSUME TypeOK, ChosenInv, [Next]_vars PROVE ChosenInv'
  OBVIOUS
<1>. USE DEF Past, Fixed, locals, deployment
<1>1. CASE Look \/ DropController \/ DelPorts
  BY <1>1 DEF Look, DropController, DelPorts, Loop, ChosenInv
<1>2. CASE Detect \/ StopQuagga \/ DelController \/ DelManager
  BY <1>2 DEF Detect, StopQuagga, DelController, DelManager, ChosenInv
<1>3. CASE Choose
  BY <1>3, SubsetAssumption DEF Choose, ChosenInv, TypeOK
<1>4. CASE StartQuagga \/ Replace
  BY <1>4 DEF StartQuagga, Replace, ChosenInv
<1>5. CASE StartOdl
  BY <1>5 DEF StartOdl, ChosenInv, Running, TypeOK
<1>6. CASE PollSucceeds \/ PollFails
  BY <1>6 DEF PollSucceeds, PollFails, ChosenInv, Running
<1>7. CASE ConnectOvs \/ NothingToConnect
  BY <1>7 DEF ConnectOvs, NothingToConnect, Loop, ChosenInv, Running
<1>8. CASE Show \/ Check
  BY <1>8 DEF Show, Check, Loop, ChosenInv, Running
<1>9. CASE Raises \/ Restart
  BY <1>9 DEF Raises, Restart, ChosenInv
<1>10. CASE Deployment
  BY <1>10, DeploymentStep DEF ChosenInv
<1>11. CASE UNCHANGED vars
  BY <1>11 DEF vars, ChosenInv, Running
<1>. QED
  BY <1>1, <1>2, <1>3, <1>4, <1>5, <1>6, <1>7, <1>8, <1>9, <1>10, <1>11
  DEF Next, Tool, Done

\* Only the node of this run can be the manager that a switch has reached.
LEMMA ReachedTheOne ==
  ASSUME TypeOK, IsolationInv, pc = "show", NEW n \in Node, Connected(n)
  PROVE  odl_node \in managers
<1>1. PICK m \in managers : Serving(m)
  BY DEF Connected
<1>2. m \in Node /\ Running(m)
  BY <1>1, SubsetAssumption DEF TypeOK, Serving, Running
<1>3. m \notin Node \ {odl_node}
  BY <1>2 DEF IsolationInv, Stopped, Past
<1>. QED
  BY <1>1, <1>2, <1>3

LEMMA SwitchesStep ==
  TypeOK /\ IsolationInv /\ SwitchesInv /\ [Next]_vars => SwitchesInv'
<1>. SUFFICES ASSUME TypeOK, IsolationInv, SwitchesInv, [Next]_vars
              PROVE  SwitchesInv'
  OBVIOUS
<1>. USE NodeAt DEF Fixed, locals, deployment, Install
<1>1. CASE Look \/ DropController
  BY <1>1 DEF Look, DropController, Loop, SwitchesInv, Joined, Validated
<1>12. CASE DelPorts
  <2>1. pc' = "detect" \/ (pc' = "choose" /\ Before(at)' = {})
    BY <1>12, LoopStep DEF DelPorts
  <2>. QED
    BY <1>12, <2>1 DEF DelPorts, SwitchesInv, Joined, Validated
<1>2. CASE Detect \/ StopQuagga \/ DelController \/ DelManager
  BY <1>2 DEF Detect, StopQuagga, DelController, DelManager,
              SwitchesInv, Joined, Validated
<1>3. CASE Choose \/ StartQuagga \/ Replace
  BY <1>3, SameNodes DEF Choose, StartQuagga, Replace, SwitchesInv, Joined, Validated
<1>4. CASE StartOdl
  BY <1>4, SameNodes DEF StartOdl, SwitchesInv, Joined, Validated
<1>5. CASE PollSucceeds \/ PollFails
  <2>1. pc' \in {"wait", "connect"} /\ Before(at)' = Before(at)
    BY <1>5, SameNodes DEF PollSucceeds, PollFails
  <2>2. Before(at) = {}
    BY <1>5 DEF PollSucceeds, PollFails, SwitchesInv
  <2>. QED
    BY <1>5, <2>1, <2>2 DEF PollSucceeds, PollFails, SwitchesInv, Joined, Validated
<1>6. CASE ConnectOvs
  <2>1. \/ pc' = "connect" /\ Before(at)' = Upto(at)
        \/ pc' = "show" /\ Upto(at) = Node /\ Before(at)' = {}
    BY <1>6, LoopStep DEF ConnectOvs
  <2>. QED
    BY <1>6, <2>1 DEF ConnectOvs, SwitchesInv, Joined, Validated
<1>7. CASE Show
  <2>1. Before(at)' = Before(at) /\ pc' \in {"check", "error"}
    BY <1>7, SameNodes DEF Show
  <2>2. pc' = "check" => odl_node \in managers
    BY <1>7, ReachedTheOne DEF Show
  <2>. QED
    BY <1>7, <2>1, <2>2 DEF Show, SwitchesInv, Joined, Validated, Accepted
<1>8. CASE Check
  <2>1. CASE Accepted(node) /\ shown
    <3>1. \/ pc' = "show" /\ Before(at)' = Upto(at)
          \/ pc' = "success" /\ Upto(at) = Node /\ Before(at)' = {}
      BY <1>8, <2>1, LoopStep DEF Check
    <3>2. \A n \in Upto(at) : Accepted(n)'
      BY <1>8, <2>1 DEF Check, SwitchesInv, Validated, Accepted
    <3>. QED
      BY <1>8, <3>1, <3>2 DEF Check, SwitchesInv, Joined, Validated
  <2>2. CASE ~(Accepted(node) /\ shown)
    BY <1>8, <2>2 DEF Check, SwitchesInv, Joined, Validated
  <2>. QED
    BY <2>1, <2>2
<1>9. CASE NothingToConnect \/ Raises \/ Restart
  BY <1>9 DEF NothingToConnect, Raises, Restart, SwitchesInv, Joined, Validated
<1>10. CASE Deployment
  <2>1. Joined' = Joined /\ Validated' = Validated
    BY <1>10, DeploymentStep, SameNodes DEF Joined, Validated
  <2>2. Validated \subseteq Node
    BY InNode DEF Validated
  <2>. QED
    BY <1>10, <2>1, <2>2, DeploymentStep, SameNodes DEF SwitchesInv
<1>11. CASE UNCHANGED vars
  <2>1. Joined' = Joined /\ Validated' = Validated
    BY <1>11, SameNodes DEF vars, Joined, Validated
  <2>. QED
    BY <1>11, <2>1, SameNodes DEF vars, SwitchesInv, Accepted
<1>. QED
  BY <1>1, <1>2, <1>3, <1>4, <1>5, <1>6, <1>7, <1>8, <1>9, <1>10, <1>11,
     <1>12
  DEF Next, Tool, Done

-----------------------------------------------------------------------------
LEMMA QuaggaStep == TypeOK /\ QuaggaInv /\ [Next]_vars => QuaggaInv'
<1>. SUFFICES ASSUME TypeOK, QuaggaInv, [Next]_vars PROVE QuaggaInv'
  OBVIOUS
<1>. USE DEF Past, Fixed, locals, deployment
<1>1. CASE Look \/ DropController \/ DelPorts
  BY <1>1 DEF Look, DropController, DelPorts, Loop, QuaggaInv
<1>2. CASE Detect \/ StopQuagga \/ DelController \/ DelManager
  BY <1>2 DEF Detect, StopQuagga, DelController, DelManager, QuaggaInv
<1>3. CASE Choose \/ StartQuagga
  BY <1>3 DEF Choose, StartQuagga, QuaggaInv
<1>4. CASE Replace \/ StartOdl
  BY <1>4 DEF Replace, StartOdl, QuaggaInv
<1>5. CASE PollSucceeds \/ PollFails
  BY <1>5 DEF PollSucceeds, PollFails, QuaggaInv
<1>6. CASE ConnectOvs \/ NothingToConnect
  BY <1>6 DEF ConnectOvs, NothingToConnect, Loop, QuaggaInv
<1>7. CASE Show
  BY <1>7 DEF Show, QuaggaInv
<1>11. CASE Check
  BY <1>11 DEF Check, Loop, QuaggaInv
<1>8. CASE Raises \/ Restart
  BY <1>8 DEF Raises, Restart, QuaggaInv
<1>9. CASE Deployment
  BY <1>9, DeploymentStep DEF QuaggaInv
<1>10. CASE UNCHANGED vars
  BY <1>10 DEF vars, QuaggaInv
<1>. QED
  BY <1>1, <1>2, <1>3, <1>4, <1>5, <1>6, <1>7, <1>8, <1>9, <1>10, <1>11
  DEF Next, Tool, Done

-----------------------------------------------------------------------------
LEMMA InitIInv == Init => IInv
<1>. SUFFICES ASSUME Init PROVE IInv
  OBVIOUS
<1>1. 1 \in 1..MaxRuns /\ 1 \in 1..Count /\ 1 \in 1..(Attempts + 1)
  BY BoundAssumption, CountType
<1>2. pod \in [known : SUBSET Node, ctl : [Node -> {"none", "configured", "other"}]]
  BY DEF Init
<1>3. TypeOK
  BY <1>1, <1>2, NoInfoType, SubsetAssumption DEF Init, TypeOK
<1>4. CounterInv /\ IsolationInv
  BY DEF Init, CounterInv, IsolationInv, Stopped, Cut, Past
<1>5. ChosenInv /\ SwitchesInv /\ QuaggaInv
  BY DEF Init, ChosenInv, SwitchesInv, Joined, Validated, QuaggaInv, Past, Install
<1>. QED
  BY <1>3, <1>4, <1>5 DEF IInv

LEMMA Inductive == Spec => []IInv
<1>1. IInv /\ [Next]_vars => IInv'
  <2>. SUFFICES ASSUME IInv, [Next]_vars PROVE IInv'
    OBVIOUS
  <2>1. TypeOK' /\ CounterInv' /\ IsolationInv'
    BY TypeStep, CounterStep, IsolationStep DEF IInv
  <2>2. ChosenInv' /\ SwitchesInv' /\ QuaggaInv'
    BY ChosenStep, SwitchesStep, QuaggaStep DEF IInv
  <2>. QED
    BY <2>1, <2>2 DEF IInv
<1>. QED
  BY <1>1, InitIInv, PTL DEF Spec

\* The variables of ODLReInstaller.run and of the deployment keep their types:
\* the loops over the nodes stay in range and the attempts are bounded.
THEOREM TypeCorrect == Spec => []TypeOK
<1>1. IInv => TypeOK
  BY DEF IInv
<1>. QED
  BY <1>1, Inductive, PTL

\* The new OpenDaylight is put in place while none runs and no switch has a
\* manager, in every deployment and after any number of broken-off runs.
THEOREM Isolation == Spec => []InstallIsIsolated
<1>1. IInv => InstallIsIsolated
  <2>. SUFFICES ASSUME IInv, pc \in {"start quagga", "remove", "start"}
                PROVE  (\A n \in Node : ~Running(n)) /\ manager = {}
    BY DEF InstallIsIsolated
  <2>1. Stopped = Node /\ Cut = Node
    BY DEF Stopped, Cut, Past
  <2>. QED
    BY <2>1 DEF IInv, IsolationInv, TypeOK
<1>. QED
  BY <1>1, Inductive, PTL

\* What exit code 0 of the reinstaller means: validate_ovs has seen every
\* switch reach the one OpenDaylight there is.
THEOREM SuccessMeansReached == Spec => []SwitchesFindOdl
<1>1. IInv => SwitchesFindOdl
  <2>. SUFFICES ASSUME IInv, pc = "success"
                PROVE  /\ {n \in Node : Running(n)} = {odl_node}
                       /\ odl_node \in managers
                       /\ manager = Node /\ \A n \in Node : Accepted(n)
    BY DEF SwitchesFindOdl
  <2>1. Stopped = Node \ {odl_node} /\ Joined = Node /\ Validated = Node
    BY DEF Stopped, Joined, Validated, Past
  <2>2. odl_node \in Node /\ Running(odl_node)
    BY DEF IInv, ChosenInv, Past
  <2>3. {n \in Node : Running(n)} = {odl_node}
    BY <2>1, <2>2 DEF IInv, IsolationInv
  <2>4. manager = Node
    BY <2>1 DEF IInv, SwitchesInv, TypeOK
  <2>5. odl_node \in managers /\ \A n \in Node : Accepted(n)
    BY <2>1, NodeAssumption DEF IInv, SwitchesInv
  <2>. QED
    BY <2>3, <2>4, <2>5
<1>. QED
  BY <1>1, Inductive, PTL

\* bgpd and zrpcd are back on the node of the new OpenDaylight before the
\* switches are, even when an earlier run had stopped them and given up.
THEOREM QuaggaReturns == Spec => []QuaggaBack
<1>1. IInv => QuaggaBack
  BY DEF IInv, QuaggaInv, QuaggaBack, Past
<1>. QED
  BY <1>1, Inductive, PTL

-----------------------------------------------------------------------------
(***************************************************************************)
(* The refinement: each step is the step of OdlReplacement that its place  *)
(* in the run calls for, or changes nothing that OdlReplacement sees.      *)
(***************************************************************************)
OnNodes == {n \in Node : Running(n)}

Seen == <<OnNodes, manager, Phase>>

\* Before the installation, what takes apart is a step of it or a stutter.
LEMMA ApartStep ==
  ASSUME Phase = "apart", Phase' = "apart",
         OnNodes' \subseteq OnNodes, manager' \subseteq manager
  PROVE  Replacement!TakeApart
BY DEF Replacement!TakeApart, OnNodes

\* A step that moves no OpenDaylight and no manager is one of the phase alone.
LEMMA PhaseStep ==
  ASSUME OnNodes' = OnNodes, manager' = manager,
         \/ Phase' = Phase
         \/ Phase \in {"apart", "together"} /\ Phase' = "failed"
         \/ Phase = "together" /\ manager = Node /\ Phase' = "succeeded"
         \/ Phase \in {"succeeded", "failed"} /\ Phase' = "apart"
  PROVE  [Replacement!Next]_Seen
BY DEF Seen, OnNodes, Replacement!Next, Replacement!Fail, Replacement!Succeed,
       Replacement!Retry

\* OpenDaylight is installed where none runs and no switch is linked.
LEMMA InstallStep == IInv /\ StartOdl => Replacement!Install
<1>. SUFFICES ASSUME IInv, StartOdl PROVE Replacement!Install
  OBVIOUS
<1>1. pc = "start" /\ odl' = [odl EXCEPT ![odl_node] = "starting"]
      /\ pc' \in {"wait", "error"} /\ manager' = manager
  BY DEF StartOdl
<1>2. Stopped = Node /\ Cut = Node
  BY <1>1 DEF Stopped, Cut, Past
<1>3. (\A n \in Node : ~Running(n)) /\ manager = {}
  BY <1>2 DEF IInv, IsolationInv, TypeOK
<1>4. odl_node \in Node /\ odl \in [Node -> {"none", "old", "stopped", "starting", "new"}]
  BY <1>1 DEF IInv, ChosenInv, TypeOK
<1>5. {n \in Node : Running(n)'} = {odl_node}
  BY <1>1, <1>3, <1>4 DEF Running
<1>6. Phase = "apart" /\ Phase' \in {"together", "failed"}
  BY <1>1 DEF Phase
<1>. QED
  BY <1>1, <1>3, <1>4, <1>5, <1>6 DEF Replacement!Install

LEMMA ReplacementStep == IInv /\ [Next]_vars => [Replacement!Next]_Seen
<1>. SUFFICES ASSUME IInv, [Next]_vars PROVE [Replacement!Next]_Seen
  OBVIOUS
<1>. USE DEF Fixed, locals, deployment
<1>0. TypeOK
  BY DEF IInv
<1>1. odl' = odl => OnNodes' = OnNodes
  BY DEF OnNodes, Running
<1>2. CASE Look \/ DropController
  <2>1. Phase = "apart" /\ Phase' = "apart" /\ UNCHANGED <<odl, manager>>
    BY <1>2 DEF Look, DropController, Loop, Phase
  <2>. QED
    BY <1>1, <2>1, PhaseStep
<1>3. CASE Detect
  <2>1. Phase = "apart" /\ Phase' = "apart" /\ manager' = manager
    BY <1>3 DEF Detect, Phase
  <2>2. OnNodes' \subseteq OnNodes
    BY <1>0, <1>3, NodeAt DEF Detect, OnNodes, Running, TypeOK
  <2>. QED
    BY <2>1, <2>2, ApartStep DEF Replacement!Next
<1>4. CASE DelManager
  <2>1. /\ Phase = "apart" /\ Phase' = "apart" /\ odl' = odl
        /\ manager' \subseteq manager
    BY <1>4 DEF DelManager, Phase
  <2>. QED
    BY <1>1, <2>1, ApartStep DEF Replacement!Next
<1>5. CASE StopQuagga \/ DelController \/ StartQuagga
  <2>1. Phase = "apart" /\ Phase' = "apart" /\ UNCHANGED <<odl, manager>>
    BY <1>5 DEF StopQuagga, DelController, StartQuagga, Phase
  <2>. QED
    BY <1>1, <2>1, PhaseStep
<1>6. CASE DelPorts \/ Choose
  <2>1. /\ Phase = "apart" /\ Phase' \in {"apart", "failed"}
        /\ UNCHANGED <<odl, manager>>
    BY <1>6 DEF DelPorts, Choose, Loop, Phase
  <2>. QED
    BY <1>1, <2>1, PhaseStep
<1>7. CASE Replace
  <2>1. Phase = "apart" /\ Phase' = "apart" /\ manager' = manager
    BY <1>7 DEF Replace, Phase
  <2>2. OnNodes' \subseteq OnNodes
    BY <1>0, <1>7 DEF Replace, OnNodes, Running, TypeOK
  <2>. QED
    BY <2>1, <2>2, ApartStep DEF Replacement!Next
<1>8. CASE StartOdl
  BY <1>8, InstallStep DEF Replacement!Next
<1>9. CASE PollSucceeds \/ PollFails
  <2>1. Phase = "together" /\ Phase' = "together" /\ UNCHANGED <<odl, manager>>
    BY <1>9 DEF PollSucceeds, PollFails, Phase
  <2>. QED
    BY <1>1, <2>1, PhaseStep
<1>10. CASE ConnectOvs
  <2>1. /\ Phase = "together" /\ Phase' = "together" /\ odl' = odl
        /\ manager' = manager \union {node}
    BY <1>10 DEF ConnectOvs, Loop, Phase
  <2>2. manager \subseteq manager' /\ manager' \subseteq Node
    BY <1>0, <2>1, NodeAt DEF TypeOK
  <2>3. Replacement!Link
    BY <1>1, <2>1, <2>2 DEF Replacement!Link, OnNodes
  <2>. QED
    BY <2>3 DEF Replacement!Next
<1>11. CASE Show \/ NothingToConnect
  <2>1. /\ Phase = "together" /\ Phase' \in {"together", "failed"}
        /\ UNCHANGED <<odl, manager>>
    BY <1>11 DEF Show, NothingToConnect, Phase
  <2>. QED
    BY <1>1, <2>1, PhaseStep
<1>12. CASE Check
  <2>1. /\ Phase = "together" /\ Phase' \in {"together", "succeeded", "failed"}
        /\ UNCHANGED <<odl, manager>>
    BY <1>12 DEF Check, Loop, Phase
  <2>2. manager = Node
    BY <1>12 DEF Check, IInv, SwitchesInv, Joined, TypeOK
  <2>. QED
    BY <1>1, <2>1, <2>2, PhaseStep
<1>13. CASE Raises
  <2>1. /\ Phase \in {"apart", "together"} /\ Phase' = "failed"
        /\ UNCHANGED <<odl, manager>>
    BY <1>13 DEF Raises, Terminal, Phase
  <2>. QED
    BY <1>1, <2>1, PhaseStep
<1>14. CASE Restart
  <2>1. /\ Phase \in {"succeeded", "failed"} /\ Phase' = "apart"
        /\ UNCHANGED <<odl, manager>>
    BY <1>14 DEF Restart, Terminal, Phase
  <2>. QED
    BY <1>1, <2>1, PhaseStep
<1>15. CASE Deployment
  <2>1. Phase' = Phase /\ manager' = manager /\ \A n \in Node : Running(n)' <=> Running(n)
    BY <1>0, <1>15, DeploymentStep DEF Phase
  <2>2. OnNodes' = OnNodes
    BY <2>1 DEF OnNodes
  <2>. QED
    BY <2>1, <2>2, PhaseStep
<1>16. CASE UNCHANGED vars
  <2>1. Phase' = Phase /\ UNCHANGED <<odl, manager>>
    BY <1>16 DEF vars, Phase
  <2>. QED
    BY <1>1, <2>1, PhaseStep
<1>. QED
  BY <1>2, <1>3, <1>4, <1>5, <1>6, <1>7, <1>8, <1>9, <1>10, <1>11, <1>12,
     <1>13, <1>14, <1>15, <1>16 DEF Next, Tool, Done

\* All that ODLReInstaller.run does to OpenDaylight and to the managers of the
\* switches, command by command and run after run, is a replacement: apart,
\* one installation when nothing serves or is linked, together.
THEOREM Replaces == Spec => ReplacementSpec
<1>1. Init => Replacement!Init
  BY DEF Init, Replacement!Init, Phase
<1>2. IInv /\ [Next]_vars =>
        [Replacement!Next]_<<{n \in Node : Running(n)}, manager, Phase>>
  BY ReplacementStep DEF Seen, OnNodes
<1>. QED
  BY <1>1, <1>2, Inductive, PTL DEF Spec, ReplacementSpec, Replacement!Spec
=============================================================================
