----------------------------- MODULE MCOvsResync -----------------------------
(***************************************************************************)
(* OvsResync on two compute nodes: a sound deployment with or without      *)
(* groups on each, one with a controller of its own on each node, and what *)
(* tc11 (no controller) and tc12 (a rule) leave when they break off.       *)
(***************************************************************************)
EXTENDS OvsResync

CONSTANTS c1, c2

MCControllers == {c1, c2}

Holds(g) == [flow |-> 1, group |-> g]
Deployment(t, b, h) == [target |-> t, blocked |-> b, have |-> h]

MCFound ==
  {Deployment(<<c1, c1>>, <<0, 0>>, <<Holds(g), Holds(h)>>) : g, h \in 0..1}
  \cup {Deployment(t, <<0, 0>>, <<Holds(0), Holds(0)>>) :
          t \in {<<c1, c2>>, <<c1, NoController>>, <<NoController, c1>>}}
  \cup {Deployment(<<c1, c1>>, b, <<Holds(0), Holds(0)>>) :
          b \in {<<1, 0>>, <<0, 1>>}}
=============================================================================
