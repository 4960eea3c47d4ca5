---------------------------- MODULE MCVmMonitor ----------------------------
(***************************************************************************)
(* testcase_10 with the instances that matter to a question.               *)
(***************************************************************************)
EXTENDS VmMonitor

\* vm_1 pings vm_2; vm_2 has no userdata and pings nobody.
PairPings == [v \in VM |-> CASE v = "vm1" -> {"vm2"}
                             [] v = "vm2" -> {}
                             [] v = "vm4" -> {"vm1"}]

\* The pings of testcase_10: u1, u3 and u4.
AllPings == [v \in VM |-> CASE v = "vm1" -> {"vm2"}
                            [] v = "vm2" -> {}
                            [] v = "vm3" -> {"vm1", "vm2"}
                            [] v = "vm4" -> {"vm1", "vm3"}]
=============================================================================
