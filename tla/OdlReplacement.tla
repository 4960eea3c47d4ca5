--------------------------- MODULE OdlReplacement ---------------------------
(***************************************************************************)
(* What a reinstallation promises of a deployment, whatever the nodes, the *)
(* services and the commands are: it first takes apart what is there and   *)
(* connects nothing; one new OpenDaylight is installed when none serves    *)
(* and no switch is linked; from then on switches are only linked, and     *)
(* success means all of them are.  It may fail at any moment, and what it  *)
(* has done by then is what the next one starts from.                      *)
(***************************************************************************)
CONSTANT Node

VARIABLES
  serving,  \* the nodes where OpenDaylight runs
  linked,   \* the nodes whose switch has managers to connect to
  phase     \* "apart" or "together", "succeeded" or "failed"

Init == serving \subseteq Node /\ linked = Node /\ phase = "apart"

TakeApart ==
  /\ phase = "apart"
  /\ serving' \subseteq serving /\ linked' \subseteq linked
  /\ UNCHANGED phase

\* An installation that fails may have started OpenDaylight or not.
Install ==
  /\ phase = "apart" /\ serving = {} /\ linked = {}
  /\ \E n \in Node : serving' = {n}
  /\ phase' \in {"together", "failed"}
  /\ UNCHANGED linked

Link ==
  /\ phase = "together"
  /\ linked \subseteq linked' /\ linked' \subseteq Node
  /\ UNCHANGED <<serving, phase>>

Succeed ==
  /\ phase = "together" /\ linked = Node
  /\ phase' = "succeeded"
  /\ UNCHANGED <<serving, linked>>

Fail ==
  /\ phase \in {"apart", "together"}
  /\ phase' = "failed"
  /\ UNCHANGED <<serving, linked>>

Retry ==
  /\ phase \in {"succeeded", "failed"}
  /\ phase' = "apart"
  /\ UNCHANGED <<serving, linked>>

Next == TakeApart \/ Install \/ Link \/ Succeed \/ Fail \/ Retry

Spec == Init /\ [][Next]_<<serving, linked, phase>>
=============================================================================
