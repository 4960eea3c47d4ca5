---------------------------- MODULE MCPingCheck ----------------------------
(***************************************************************************)
(* testcase_1's vm_1: subtests before and after the VPN is re-created, one *)
(* of them by ssh as in testcase_2.                                        *)
(***************************************************************************)
EXTENDS PingCheck

MCTarget == <<"vm2", "vm4">>

Subtest(op, to, expected, timeout) ==
  [op |-> op, to |-> to, expected |-> expected, timeout |-> timeout]

Change == Subtest("change", MCTarget[1], "PASS", 1)

MCPlan == <<Subtest("ping", "vm2", "PASS", 2), Subtest("ping", "vm4", "FAIL", 1),
            Change, Subtest("ping", "vm4", "PASS", 2),
            Change, Subtest("ssh", "vm2", "FAIL", 2)>>

MCNetworks == {{"vm2"}, {"vm2", "vm4"}, {}}

-----------------------------------------------------------------------------
\* vm_1 of testcase_1 as it is: four targets, and the VPN re-created between
\* "cannot ping" and "can ping" of vm_4 (the two subtests on vm_4 alone).
Tc1Target == <<"vm2", "vm3", "vm4", "vm5">>

Tc1Plan == <<Subtest("ping", "vm4", "FAIL", 30), Change,
             Subtest("ping", "vm4", "PASS", 30)>>

Tc1Networks == {{"vm2", "vm3"}, {"vm2", "vm3", "vm4", "vm5"}}
=============================================================================
