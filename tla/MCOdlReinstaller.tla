-------------------------- MODULE MCOdlReinstaller --------------------------
(* Two controllers and a compute node; OpenDaylight on any of the former.  *)
EXTENDS OdlReinstaller

CONSTANTS c0, c1, compute

MCNode == {c0, c1, compute}
MCController == {c0, c1}

\* The compute node comes after one controller and before the other, so that
\* the loop meets it before or after the node that OpenDaylight is found on.
MCDictOrder == {<<c0, compute, c1>>}
=============================================================================
