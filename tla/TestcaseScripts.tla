-------------------------- MODULE TestcaseScripts --------------------------
(***************************************************************************)
(* What each testcase creates, notes, checks and deletes, in the order of  *)
(* its main().  These are the values TestcaseLifecycle's constants have in *)
(* the repository.  Only calls that touch the id lists, that create or     *)
(* delete something, or that can end the body are steps; a run of waits    *)
(* and associations is one Call, a subtest one Check.  What comes before a  *)
(* try that is the first to create anything is left out.                   *)
(***************************************************************************)
EXTENDS Sequences

Instances == {"vm1", "vm2", "vm3", "vm4", "vm5"}
Images    == {"img1", "img2"}

AllRes ==
  Instances \cup Images \cup
  {"net1", "net2", "sub1", "sub2", "rtr1", "rtr2", "if1", "if2",
   "vpn1", "vpn2", "fip1", "fip2", "flv", "br", "routes", "stk", "old"}

AllKind ==
  [r \in AllRes |->
     CASE r \in Instances \cup {"old"} -> "instance"
       [] r \in Images             -> "image"
       [] r \in {"net1", "net2"}   -> "network"
       [] r \in {"sub1", "sub2"}   -> "subnet"
       [] r \in {"rtr1", "rtr2"}   -> "router"
       [] r \in {"if1", "if2"}     -> "interface"
       [] r \in {"vpn1", "vpn2"}   -> "bgpvpn"
       [] r \in {"fip1", "fip2"}   -> "floatingip"
       [] r = "flv"                -> "flavor"
       [] r = "br"                 -> "bridge"
       [] r = "routes"             -> "route"
       [] r = "stk"                -> "stack"]

AllTestcase == {"tc1", "tc2", "tc3", "tc4", "tc7", "tc8", "tc9", "tc10",
                "tc11", "tc12", "tc13", "tc1bis", "tc2bis", "tc4bis", "tc8bis"}

-----------------------------------------------------------------------------
Make(r)    == [op |-> "make",     res |-> {r}]
Wire(r)    == [op |-> "wire",     res |-> {r}]
TryMake(r) == [op |-> "try_make", res |-> {r}]
Record(S)  == [op |-> "record",   res |-> S]
Delete(r)  == [op |-> "delete",   res |-> {r}]
Forget(r)  == [op |-> "forget",   res |-> {r}]
Call       == [op |-> "call",     res |-> {}]
Check      == [op |-> "check",    res |-> {}]
GiveUp     == [op |-> "give_up",  res |-> {}]

\* create_network: os_utils.create_network_full makes the four in this order,
\* gives up at the first that fails, and create_network then raises.  What it
\* finds by name it does not make; what it finds complete it does not wire.
FullNetwork(net, sub, rtr, if) == <<Make(net), Make(sub), Make(rtr), Wire(if)>>

\* create_net and create_subnet of both networks (tc1, tc2).
TwoNetworks == <<Make("net1"), Make("sub1"), Make("net2"), Make("sub2"),
                 Record({"net1", "net2", "sub1", "sub2"})>>

Image == <<TryMake("img1"), Record({"img1"})>>

\* tc1: VPN with eRT<>iRT, re-created with eRT=iRT.
Script1 ==
  Image \o TwoNetworks \o
  <<Make("vm2"), Make("vm3"), Make("vm5"), Make("vm4"), Make("vm1"),
    Record(Instances), Make("vpn1"), Record({"vpn1"}),
    Call, Check, Check, Check, Call, Check,
    Delete("vpn1"), Forget("vpn1"), Make("vpn2"), Record({"vpn2"}),
    Call, Check, Check>>

\* tc2: tenant separation, two VPNs, VM2 and VM4 with the same address.
Script2 ==
  Image \o TwoNetworks \o
  <<Make("vm2"), Make("vm4"), Make("vm1"), Record({"vm1", "vm2", "vm4"}),
    Make("vpn1"), Record({"vpn1"}), Call, Check,
    Make("vpn2"), Record({"vpn2"}), Call, Check>>

\* tc3: peering with a quagga instance.  Its try begins after the checks of
\* zrpcd, the BGP entity owner and bgpd (TryAt3).  From vm1 on, the finally
\* begins with detach_instance_from_ext_br.
Script3 ==
  <<Call, GiveUp, Check, Call, Make("flv"), Record({"flv"})>> \o Image \o
  FullNetwork("net1", "sub1", "rtr1", "if1") \o
  FullNetwork("net2", "sub2", "rtr2", "if2") \o
  <<Record({"if1", "if2", "net1", "net2", "rtr1", "rtr2", "sub1", "sub2"}),
    TryMake("img2"), Record({"img2"}), Make("fip1"), Record({"fip1"}), Call,
    Make("vm1"), Record({"vm1", "br"}), TryMake("fip2"), Record({"fip2"}),
    Make("br"), Check, Check, Make("vpn1"), Record({"vpn1"}),
    Make("vm2"), Record({"vm2"}), Call, Check>>

\* tc4: router association, then re-created VPN.
Script4 ==
  Image \o FullNetwork("net1", "sub1", "rtr1", "if1") \o
  <<Make("net2"), Make("sub2"),
    Record({"if1", "net1", "net2", "rtr1", "sub1", "sub2"}),
    Make("vm2"), Make("vm3"), Make("vm5"), Make("vm4"), Make("vm1"),
    Record(Instances), Make("vpn1"), Record({"vpn1"}),
    Call, Check, Check, Check, Call, Check,
    Delete("vpn1"), Forget("vpn1"), Make("vpn2"), Record({"vpn2"}), Call>>

\* tc7: floating IP and network association.
Script7 ==
  Image \o FullNetwork("net1", "sub1", "rtr1", "if1") \o
  FullNetwork("net2", "sub2", "rtr2", "if2") \o
  <<Record({"if1", "if2", "net1", "net2", "rtr1", "rtr2", "sub1", "sub2"}),
    Make("vm2"), Make("vm1"), Record({"vm1", "vm2"}),
    Make("vpn1"), Record({"vpn1"}), Call, Check,
    Make("fip1"), Check, Record({"fip1"})>>

\* tc8: floating IP and router; both subnets hang on router_1, and the VPN
\* is commented out.
Script8 ==
  Image \o FullNetwork("net1", "sub1", "rtr1", "if1") \o
  <<Make("net2"), Make("sub2"), Wire("if2"),
    Record({"if1", "if2", "net1", "net2", "rtr1", "sub1", "sub2"}),
    Make("vm2"), Make("vm1"), Record({"vm1", "vm2"}), Check,
    Make("fip1"), Check, Record({"fip1"})>>

TryAt3 == 5

\* tc9: the fail mode of every br-int.  There is nothing to create and no try.
Script9 == <<Call, GiveUp, Check>>

TryAt9 == 4

\* tc10: its try begins after everything is created (TryAt10).
Script10 ==
  Image \o
  <<Make("net1"), Make("sub1"), Record({"net1", "sub1"}),
    Make("vm2"), Make("vm1"), Make("vm3"), Record({"vm1", "vm3"}), Call,
    Check, Delete("vm2"), Make("vm4"), Record({"vm4"}), Call, Check>>

TryAt10 == 11

\* tc11 and tc12: two instances, then the OVS of the compute nodes is
\* disconnected and reconnected (that part is not about resources).
ScriptOvs(checks) ==
  Image \o
  <<Make("net1"), Make("sub1"), Record({"net1", "sub1"}),
    Make("vm2"), Make("vm1"), Record({"vm1", "vm2"}), Call>> \o checks

Script11 == ScriptOvs(<<Check, Call>>)
Script12 == ScriptOvs(<<Check, Check, Call, Check, Call, Check>>)

\* tc13: vm3 boots from the second image, and router_1 gets two extra routes.
Script13 ==
  Image \o <<Make("flv"), Record({"flv"})>> \o
  FullNetwork("net1", "sub1", "rtr1", "if1") \o
  <<Record({"if1", "net1", "sub1", "rtr1", "routes"}),
    Make("vm1"), Make("vm2"), TryMake("img2"), Record({"img2"}), Make("vm3"),
    Record({"vm1", "vm2", "vm3"}), Make("vpn1"), Record({"vpn1"}),
    Call, Make("routes"), Check>>

\* create_stack and its id in stack_id.
StackMade == <<Make("stk"), Record({"stk"})>>

\* wait_stack_for_status: a stack that fails is waited out, and still there.
StackComplete == <<Call>>

\* The ids of its networks and its instances are read from its outputs; one
\* that is missing makes the body raise.
StackOutputs == <<Call>>

Stack == StackMade \o StackComplete \o StackOutputs

\* tc1bis and tc4bis: tc1 and tc4 with one stack for everything but the VPN.
ScriptBis(last) ==
  Image \o Stack \o
  <<Make("vpn1"), Record({"vpn1"}), Call, Check, Call, Check,
    Delete("vpn1"), Forget("vpn1"), Make("vpn2"), Record({"vpn2"}), Call>> \o last

Script1bis == ScriptBis(<<Check>>)
Script4bis == ScriptBis(<<>>)

\* tc2bis: two VPNs.
Script2bis ==
  Image \o Stack \o
  <<Make("vpn1"), Record({"vpn1"}), Call, Check,
    Make("vpn2"), Record({"vpn2"}), Call, Check>>

\* update_stack, whose False nobody looks at, and the wait for its end.
StackUpdated == <<Call>> \o StackComplete \o <<Call>>

\* tc8bis: the stack is updated with a floating IP.
Script8bis ==
  Image \o Stack \o
  <<Make("vpn1"), Record({"vpn1"}), Call, Check>> \o StackUpdated \o <<Check>>

AllScript ==
  [t \in AllTestcase |->
     CASE t = "tc1"  -> Script1  [] t = "tc2"  -> Script2
       [] t = "tc3"  -> Script3  [] t = "tc4"  -> Script4
       [] t = "tc7"  -> Script7  [] t = "tc8"  -> Script8
       [] t = "tc9"  -> Script9
       [] t = "tc10" -> Script10 [] t = "tc11" -> Script11
       [] t = "tc12" -> Script12 [] t = "tc13" -> Script13
       [] t = "tc1bis" -> Script1bis [] t = "tc4bis" -> Script4bis
       [] t = "tc2bis" -> Script2bis [] t = "tc8bis" -> Script8bis]

AllTryAt == [t \in AllTestcase |-> CASE t = "tc3"  -> TryAt3
                                     [] t = "tc9"  -> TryAt9
                                     [] t = "tc10" -> TryAt10
                                     [] OTHER      -> 1]

\* tc3 may have found no compute node when it has quagga_vm, until the bridge
\* is attached; tc10 starts its monitor processes in its two checks.
Breaks3 ==
  {i \in DOMAIN Script3 :
     Script3[i] \in {Record({"vm1", "br"}), TryMake("fip2"), Record({"fip2"}), Make("br")}}

Breaks10 == {i \in DOMAIN Script10 : Script10[i] = Check}

AllBreaks == [t \in AllTestcase |-> CASE t = "tc3"  -> Breaks3
                                      [] t = "tc10" -> Breaks10
                                      [] OTHER      -> {}]

-----------------------------------------------------------------------------
(***************************************************************************)
(* What is built on what.                                                  *)
(***************************************************************************)
\* Instances of network 2, and instances booted from the second image.
OnNet2 == [t \in AllTestcase |-> CASE t \in {"tc1", "tc4"} -> {"vm4", "vm5"}
                                   [] t = "tc2"            -> {"vm4"}
                                   [] t = "tc3"            -> {"vm1"}
                                   [] t \in {"tc7", "tc8"} -> {"vm2"}
                                   [] OTHER                -> {}]

FromImage2 == [t \in AllTestcase |-> CASE t = "tc3"  -> {"vm1"}
                                       [] t = "tc13" -> {"vm3"}
                                       [] OTHER      -> {}]

AllNeeds ==
  [t \in AllTestcase |-> [r \in AllRes |->
     CASE r = "sub1" -> {"net1"}
       [] r = "sub2" -> {"net2"}
       [] r = "if1"  -> {"rtr1", "sub1"}
       [] r = "if2"  -> {IF t = "tc8" THEN "rtr1" ELSE "rtr2", "sub2"}
       [] r = "routes" -> {"if1"}
       [] r = "stk" -> {"img1"}  \* image_n: custom_constraint glance.image
       [] r = "old" -> {"sub1"}
       [] r \in Instances -> {IF r \in OnNet2[t] THEN "sub2" ELSE "sub1",
                              IF r \in FromImage2[t] THEN "img2" ELSE "img1"}
       [] OTHER -> {}]]

(***************************************************************************)
(* What a failed cleanup of the same testcase can have left and its calls  *)
(* find by name: a network whose subnet was refused, because an instance   *)
(* ("old", which nobody looks for) was in it or for no reason, when its    *)
(* interface was already gone or not; a router; the flavor; the image.     *)
(* The runner's purge has taken the router, unless it is still joined to   *)
(* the network (PurgeLeavesJoinedRouters of SdnvpnRunner) or the purge too *)
(* failed; a joined router has lost its gateway, which nothing here asks.  *)
(* (Not tc8's second network: it is wired to the router of the first.)     *)
(***************************************************************************)
LeftNetwork == {"net1", "sub1", "rtr1"}

AllLeftovers ==
  [t \in AllTestcase |->
     {{}} \cup
     CASE t \in {"tc7", "tc8"} -> {LeftNetwork \cup {"if1", "img1"}, LeftNetwork,
                                  {"net1", "sub1", "old"}, {"rtr1"}}
       [] t = "tc3"  -> {LeftNetwork \cup {"if1"}, {"flv"}}
       [] t = "tc4"  -> {{"rtr1"}}
       [] t = "tc13" -> {LeftNetwork \cup {"flv"}}
       [] t \in {"tc11", "tc1bis"} -> {{"img1"}}
       [] OTHER      -> {}]
=============================================================================
