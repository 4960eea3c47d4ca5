------------------------- MODULE TestcaseLifecycle -------------------------
(***************************************************************************)
(* One sdnvpn functest testcase as an owner of OpenStack resources.        *)
(*                                                                         *)
(* Every testcase_N.py has the same skeleton: inside a try it creates      *)
(* images, networks, instances, BGPVPNs ..., and notes their ids in lists  *)
(* as it goes; an exception is logged and raised again; the finally hands  *)
(* the lists to cleanup_nova, cleanup_glance and cleanup_neutron, whose    *)
(* return values nobody looks at.  What one testcase does is data (Script, *)
(* see TestcaseScripts); this module is the skeleton, the three cleanup    *)
(* functions, and as much of OpenStack as decides whether a deletion is    *)
(* carried out.                                                            *)
(*                                                                         *)
(* Abstractions.  The eight id lists are one set, told apart by Kind; the  *)
(* order inside one list is any order.  A heat stack is one resource: what *)
(* heat makes of the template comes and goes with it.  The gateway of a    *)
(* router is part of the router (remove_gateway_router cannot block        *)
(* anything), the extra routes of tc13's router are one resource.  A       *)
(* floating IP holds nothing back: its port goes with the instance.  A     *)
(* security group is never deleted by any testcase, so it is not a         *)
(* resource here.  What an earlier execution left and this one would not   *)
(* look for by its name is no resource of this one's.                      *)
(***************************************************************************)
EXTENDS Naturals, Sequences

CONSTANTS
  Res,       \* every resource a script mentions
  Kind,      \* [Res -> Kinds]
  Testcase,  \* the testcases
  Script,    \* [Testcase -> Seq(Step)], the body of each testcase
  TryAt,     \* [Testcase -> Nat], the first step inside the try
  Breaks,    \* [Testcase -> SUBSET Nat], the steps whose exception may leave
             \* unset what the finally uses before its first loop
  Needs,     \* [Testcase -> [Res -> SUBSET Res]], what a resource is built on
  Leftovers, \* [Testcase -> SUBSET SUBSET Res], what an earlier execution left
  MaxFaults  \* bound: API calls of one cleanup that fail for no reason of ours

(***************************************************************************)
(* The order of the finally: tc3's detach_instance_from_ext_br or tc13's   *)
(* update_router_no_extra_route, the flavors and instances of              *)
(* cleanup_nova, cleanup_glance, the loops of cleanup_neutron, and the     *)
(* delete_stack_and_wait of the testcases whose resources are a stack.     *)
(***************************************************************************)
Stages == <<"bridge", "route", "flavor", "instance", "image", "floatingip",
            "bgpvpn", "interface", "subnet", "router", "network", "stack">>

Kinds == {Stages[i] : i \in 1..Len(Stages)}

StageOf(k) == CHOOSE i \in 1..Len(Stages) : Stages[i] = k

Ops == {"make", "try_make", "wire", "record", "delete", "forget", "call",
        "check", "give_up"}

Step == [op : Ops, res : SUBSET Res]

\* What a failed deletion does to the rest of the cleanup.
\*   continue  logged, the loop goes on (routes, instances, router interfaces,
\*             the stack, around which there is a try)
\*   skip      cleanup_glance returns False: the other images are skipped
\*   return    cleanup_neutron returns False: its other loops are skipped
\*   raise     nothing catches it: the exception leaves the finally
OnFailure(k) ==
  CASE k \in {"route", "instance", "interface", "stack"} -> "continue"
    [] k = "image" -> "skip"
    [] k \in {"floatingip", "subnet", "router", "network"} -> "return"
    [] k \in {"bridge", "flavor", "bgpvpn"} -> "raise"

\* Deleting an id that no longer exists is no error for these kinds: no call
\* of theirs says ignore_missing=False, routes=[] clears any routes, and a
\* stack that is not found counts as deleted.
MissingIsFine == {"instance", "floatingip", "flavor", "bridge", "route", "stack"}

\* Nova and heat only agree to delete these; the cleanup waits for it, with
\* wait_for_instance_delete and delete_stack_and_wait.
Slow == {"instance", "stack"}

\* The id is noted even when there is no such thing: create_glance_image
\* returns None and the None is appended; tc3 arms the detach once quagga_vm
\* is set, before the bridge exists; tc13 clears the routes of every router
\* in router_ids; the router and the subnet of an interface are noted whether
\* or not create_network_full has joined them.
NotedBlind == {"image", "bridge", "route", "interface"}

\* Noting too many of these ends no loop.
MissingIsHarmless == MissingIsFine \cup {"interface"}

\* What others are built on, and OpenStack then refuses to delete.
Built == {"interface", "subnet", "router", "network"}

ASSUME KindAssumption == Kind \in [Res -> Kinds]
ASSUME ScriptAssumption == Script \in [Testcase -> Seq(Step)]
ASSUME TryAtAssumption == TryAt \in [Testcase -> Nat]
ASSUME BreaksAssumption == Breaks \in [Testcase -> SUBSET Nat]
ASSUME NeedsAssumption == Needs \in [Testcase -> [Res -> SUBSET Res]]
ASSUME LeftoversAssumption == Leftovers \in [Testcase -> SUBSET (SUBSET Res)]
ASSUME MaxFaultsAssumption == MaxFaults \in Nat \ {0}

\* The finally deletes what is built on something before that something;
\* glance does not mind the other order.
ASSUME OrderAssumption ==
  \A t \in Testcase, x \in Res : \A p \in Needs[t][x] :
     \/ Kind[p] = "image"
     \/ Kind[p] \in Built /\ StageOf(Kind[x]) < StageOf(Kind[p])

\* What the steps of the body with these operations are about.
Mentioned(t, ops) ==
  UNION {Script[t][i].res : i \in {j \in DOMAIN Script[t] :
                                    Script[t][j].op \in ops}}

(***************************************************************************)
(* How the bodies are written, which only has to be read, not run.         *)
(***************************************************************************)
Makes == {"make", "try_make", "wire"}

\* Step i notes r once and for all: r exists by then if it ever will, or is
\* noted whether it exists or not.
NotesForGood(t, i, r) ==
  /\ Script[t][i].op = "record" /\ r \in Script[t][i].res
  /\ r \notin Mentioned(t, {"forget"})
  /\ \/ Kind[r] \in NotedBlind
     \/ \A j \in DOMAIN Script[t] :
          r \in Script[t][j].res /\ Script[t][j].op \in Makes => j < i

\* Step i takes r off its list, or cannot be passed without r: it makes what
\* is built on r and was never left.
Settles(t, i, r) ==
  \/ Script[t][i].op = "forget" /\ r \in Script[t][i].res
  \/ /\ Script[t][i].op = "make"
     /\ \E x \in Res : /\ Script[t][i].res = {x} /\ r \in Needs[t][x]
                       /\ \A L \in Leftovers[t] : x \notin L

\* After step i a list may hold r though there is no r, where that would end a
\* loop.
Doubtful(t, i, r) ==
  /\ Kind[r] \notin MissingIsHarmless
  /\ \/ Script[t][i].op = "delete"
     \/ Script[t][i].op = "record" /\ Kind[r] \in NotedBlind

\* What the body does not delete again it notes for good; what is doubtful it
\* settles later.
ASSUME DisciplineAssumption ==
  \A t \in Testcase :
    /\ \A r \in Mentioned(t, Makes) \ Mentioned(t, {"delete"}) :
         \E i \in DOMAIN Script[t] : NotesForGood(t, i, r)
    /\ \A i \in DOMAIN Script[t] : \A r \in Script[t][i].res :
         Doubtful(t, i, r) => \E j \in DOMAIN Script[t] : j > i /\ Settles(t, j, r)

VARIABLES
  tc,        \* the testcase that runs
  phase,     \* "body", "finally", "returned" (main returned) or "raised"
  pos,       \* next step of the body
  left,      \* what an earlier execution has left
  cloud,     \* the resources that exist
  deleting,  \* what nova or heat has agreed to delete and that still exists
  ids,       \* the ids in the testcase's lists
  exc,       \* an exception is on its way out
  verdict,   \* Results.test_result
  stage,     \* next loop of the finally
  todo,      \* ids this loop has not handled yet
  lost,      \* history: what existed and was not noted when the body ended
  stale,     \* history: what was noted and did not exist when the body ended,
             \* of the kinds for which that ends a loop
  faults     \* API calls of the cleanup that failed, and waits that timed out

vars == <<tc, phase, pos, left, cloud, deleting, ids, exc, verdict, stage, todo,
          lost, stale, faults>>

bodyVars == <<tc, pos, left, ids, verdict, lost, stale>>
cleanupVars == <<stage, todo, lost, stale, faults>>

IdsOf(k) == {r \in ids : Kind[r] = k}

\* Neutron refuses to delete what something else is built on; glance does not.
Pinned(r) == Kind[r] # "image" /\ \E x \in cloud : r \in Needs[tc][x]

Terminal == phase \in {"returned", "raised"}

Init ==
  /\ tc \in Testcase
  /\ phase = "body" /\ pos = 1 /\ verdict = "PASS" /\ exc = FALSE
  /\ left \in Leftovers[tc] /\ cloud = left
  /\ deleting = {} /\ ids = {}
  /\ stage = 1 /\ todo = {} /\ lost = {} /\ stale = {} /\ faults = 0

-----------------------------------------------------------------------------
(***************************************************************************)
(* The body.                                                               *)
(***************************************************************************)
InBody == phase = "body" /\ pos <= Len(Script[tc])

At(ops) == InBody /\ Script[tc][pos].op \in ops

Advance == pos' = pos + 1 /\ UNCHANGED <<tc, left, phase, exc, cleanupVars>>

\* The finally begins, with the first of its loops.
EnterFinally ==
  /\ phase' = "finally"
  /\ todo' = IdsOf(Stages[1])
  /\ lost' = cloud' \ ids
  /\ stale' = {r \in ids \ cloud' : Kind[r] \notin MissingIsHarmless}

\* An exception: the finally begins or, before the try, main is left at once.
\* So it is when the finally raises before its first loop: a NameError for
\* tc3's compute, the join of a process of tc10's that was never started.
Raise ==
  /\ exc' = TRUE
  /\ \/ pos >= TryAt[tc] /\ EnterFinally
     \/ /\ pos < TryAt[tc] \/ pos \in Breaks[tc]
        /\ phase' = "raised"
        /\ lost' = cloud'
        /\ UNCHANGED <<todo, stale>>
  /\ UNCHANGED <<tc, pos, left, ids, verdict, stage, faults>>

\* There is one of that name; or the network, the subnet and the router are
\* all there, and create_network_full does not ask whether they are joined.
Found(r) ==
  \/ r \in left
  \/ At({"wire"}) /\ Needs[tc][r] \subseteq left

\* create_network_full, get_or_create_flavor and create_glance_image go on
\* with what they find.
Adopt(r) ==
  /\ At(Makes) /\ r \in Script[tc][pos].res
  /\ Found(r)
  /\ Advance
  /\ UNCHANGED <<cloud, deleting, ids, verdict>>

\* The call succeeds; what it builds on must be there.
MakeOk(r) ==
  /\ At(Makes) /\ r \in Script[tc][pos].res
  /\ ~Found(r)
  /\ Needs[tc][r] \subseteq cloud
  /\ cloud' = cloud \cup {r}
  /\ Advance
  /\ UNCHANGED <<deleting, ids, verdict>>

\* create_glance_image and attach_floating_ip (tc3) return None, and the body
\* goes on without the resource.
MakeYieldsNone(r) ==
  /\ At({"try_make"}) /\ r \in Script[tc][pos].res
  /\ ~Found(r)
  /\ Advance
  /\ UNCHANGED <<cloud, deleting, ids, verdict>>

\* The call raises.  The resource may exist all the same: an instance that
\* went to ERROR or took longer than VM_BOOT_TIMEOUT, a reply that was lost.
\* Of what is found only the look for it raises, the one for a network first.
MakeRaises(r) ==
  /\ At({"make", "wire"}) /\ r \in Script[tc][pos].res
  /\ Found(r) => Kind[r] \in {"network", "flavor"}
  /\ \/ cloud' = cloud
     \/ Needs[tc][r] \subseteq cloud /\ cloud' = cloud \cup {r}
  /\ Raise
  /\ UNCHANGED deleting

\* Mutant: xxx_ids = [...] where there was an extend.
Record_Replaces ==
  /\ At({"record"})
  /\ ids' = {r \in Script[tc][pos].res : r \in cloud \/ Kind[r] \in NotedBlind}
  /\ Advance
  /\ UNCHANGED <<cloud, deleting, verdict>>

\* xxx_ids.append(...), xxx_ids.extend([...])
Record ==
  /\ At({"record"})
  /\ ids' = ids \cup {r \in Script[tc][pos].res :
                        r \in cloud \/ Kind[r] \in NotedBlind}
  /\ Advance
  /\ UNCHANGED <<cloud, deleting, verdict>>

\* A deletion inside the body: a BGPVPN goes at once, an instance (tc10)
\* whenever nova gets to it, and nobody waits for it.
Delete(r) ==
  /\ At({"delete"}) /\ r \in Script[tc][pos].res
  /\ \/ Kind[r] \in Slow /\ deleting' = deleting \cup {r} /\ UNCHANGED cloud
     \/ Kind[r] \notin Slow /\ cloud' = cloud \ {r} /\ UNCHANGED deleting
  /\ Advance
  /\ UNCHANGED <<ids, verdict>>

\* The deletion raises, carried out or not.
DeleteRaises(r) ==
  /\ At({"delete"}) /\ r \in Script[tc][pos].res
  /\ \/ cloud' = cloud
     \/ Kind[r] \notin Slow /\ cloud' = cloud \ {r}
  /\ Raise
  /\ UNCHANGED deleting

\* bgpvpn_ids.remove(bgpvpn_id)
Forget ==
  /\ At({"forget"})
  /\ ids' = ids \ Script[tc][pos].res
  /\ Advance
  /\ UNCHANGED <<cloud, deleting, verdict>>

\* Mutant: a subtest that breaks off leaves a third verdict.
Call_Unresolved ==
  /\ At({"call", "check", "give_up"})
  /\ verdict' \in IF At({"check"}) THEN {verdict, "ERROR"} ELSE {verdict}
  /\ Advance
  /\ UNCHANGED <<cloud, deleting, ids>>

\* Associations, bounded waits, subtests: a subtest may fail and the body
\* goes on, any of them may raise.
Call ==
  /\ At({"call", "check", "give_up"})
  /\ verdict' \in IF At({"check"}) THEN {verdict, "FAIL"} ELSE {verdict}
  /\ Advance
  /\ UNCHANGED <<cloud, deleting, ids>>

\* No OpenDaylight node is found: a failure and a return before the try.
GiveUp ==
  /\ At({"give_up"}) /\ pos < TryAt[tc]
  /\ phase' = "returned" /\ verdict' = "FAIL"
  /\ lost' = cloud
  /\ UNCHANGED <<tc, pos, left, cloud, deleting, ids, exc, stage, todo, stale,
                 faults>>

CallRaises ==
  /\ At({"call", "check", "record", "give_up"})
  /\ cloud' = cloud
  /\ Raise
  /\ UNCHANGED deleting

BodyEnds ==
  /\ phase = "body" /\ pos > Len(Script[tc])
  /\ cloud' = cloud
  /\ EnterFinally
  /\ UNCHANGED <<tc, pos, left, deleting, ids, exc, verdict, stage, faults>>

-----------------------------------------------------------------------------
(***************************************************************************)
(* The finally.                                                            *)
(***************************************************************************)
\* main returns compile_summary(), unless the body's exception goes on.
Leave == phase' = IF exc THEN "raised" ELSE "returned"

\* This loop is through: the next one begins, or the cleanup is over.
NextStage ==
  /\ phase = "finally" /\ todo = {}
  /\ \/ /\ stage < Len(Stages)
        /\ stage' = stage + 1
        /\ todo' = IdsOf(Stages[stage + 1])
        /\ UNCHANGED phase
     \/ /\ stage = Len(Stages)
        /\ Leave
        /\ UNCHANGED <<stage, todo>>
  /\ UNCHANGED <<bodyVars, cloud, deleting, exc, faults>>

\* The loop is done with r.
Handled(r) == todo' = todo \ {r} /\ UNCHANGED <<phase, stage, exc>>

\* The deletion of r failed.
Failed(r) ==
  \/ OnFailure(Kind[r]) = "continue" /\ Handled(r)
  \/ /\ OnFailure(Kind[r]) = "skip"
     /\ todo' = {} /\ UNCHANGED <<phase, stage, exc>>
  \/ /\ OnFailure(Kind[r]) = "return"
     /\ stage' = StageOf("stack") /\ todo' = IdsOf("stack")
     /\ UNCHANGED <<phase, exc>>
  \/ /\ OnFailure(Kind[r]) = "raise"
     /\ todo' = {} /\ phase' = "raised" /\ exc' = TRUE /\ UNCHANGED stage

\* The loops handle one id after the other: while the cleanup polls for one
\* resource, no other deletion is asked for.
Handling(r) ==
  /\ phase = "finally" /\ r \in todo
  /\ todo \cap deleting \subseteq {r}

\* A wait may always time out: the count stops at MaxFaults, the waits do not.
CountFault == faults' = IF faults < MaxFaults THEN faults + 1 ELSE faults

\* Mutant: the loop returns after its first id, as
\* update_router_no_extra_route does.
Deleted_ReturnsEarly(r) ==
  /\ Handling(r)
  /\ \/ Kind[r] \notin Slow /\ r \in cloud /\ ~Pinned(r)
     \/ r \notin cloud /\ Kind[r] \in MissingIsFine
  /\ cloud' = cloud \ {r}
  /\ todo' = {}
  /\ UNCHANGED <<bodyVars, phase, stage, exc, deleting, faults>>

\* The deletion is carried out at once, or there was nothing left to delete.
Deleted(r) ==
  /\ Handling(r)
  /\ \/ Kind[r] \notin Slow /\ r \in cloud /\ ~Pinned(r)
     \/ r \notin cloud /\ Kind[r] \in MissingIsFine
  /\ cloud' = cloud \ {r}
  /\ Handled(r)
  /\ UNCHANGED <<bodyVars, deleting, faults>>

\* Mutant: nobody waits for the instance or the stack to disappear.
Accepted_NoWait(r) ==
  /\ Handling(r) /\ Kind[r] \in Slow /\ r \in cloud \ deleting
  /\ deleting' = deleting \cup {r}
  /\ Handled(r)
  /\ UNCHANGED <<bodyVars, cloud, faults>>

\* The service agrees to delete: wait_for_instance_delete or the polling of
\* delete_stack_and_wait begins.
Accepted(r) ==
  /\ Handling(r) /\ Kind[r] \in Slow /\ r \in cloud \ deleting
  /\ deleting' = deleting \cup {r}
  /\ UNCHANGED <<bodyVars, phase, stage, exc, todo, cloud, faults>>

\* Mutant: wait_for_instance_delete counts no tries.
WaitTimesOut_Never(r) ==
  /\ FALSE
  /\ CountFault
  /\ Handled(r)
  /\ UNCHANGED <<bodyVars, cloud, deleting>>

\* The polls are used up, 30 for an instance, 12 for a stack: logged.
WaitTimesOut(r) ==
  /\ Handling(r) /\ r \in deleting
  /\ CountFault
  /\ Handled(r)
  /\ UNCHANGED <<bodyVars, cloud, deleting>>

\* get_instances returns None, or raises as its pages are fetched: out of
\* wait_for_instance_delete and of the finally.  (The polling of a stack has
\* a try around it.)
WaitRaises(r) ==
  /\ Handling(r) /\ r \in deleting /\ Kind[r] = "instance"
  /\ faults < MaxFaults /\ CountFault
  /\ todo' = {} /\ phase' = "raised" /\ exc' = TRUE
  /\ UNCHANGED <<bodyVars, stage, cloud, deleting>>

\* OpenStack refuses: something is built on r, or there is no r.
Refused(r) ==
  /\ Handling(r)
  /\ \/ r \in cloud /\ Pinned(r)
     \/ r \notin cloud /\ Kind[r] \notin MissingIsFine
  /\ Failed(r)
  /\ UNCHANGED <<bodyVars, cloud, deleting, faults>>

\* The call fails for a reason of its own.
CallFails(r) ==
  /\ Handling(r) /\ r \notin deleting /\ faults < MaxFaults
  /\ CountFault
  /\ Failed(r)
  /\ UNCHANGED <<bodyVars, cloud, deleting>>

\* Nova or heat, at its own pace.
CloudDeletes(r) ==
  /\ r \in deleting
  /\ deleting' = deleting \ {r}
  /\ cloud' = cloud \ {r}
  /\ UNCHANGED <<bodyVars, phase, stage, exc, todo, faults>>

-----------------------------------------------------------------------------
\* What the next step of the body is about.
AtHand == IF InBody THEN Script[tc][pos].res ELSE {}

Body ==
  \/ \E r \in AtHand : Adopt(r) \/ MakeOk(r) \/ MakeYieldsNone(r) \/ MakeRaises(r)
  \/ \E r \in AtHand : Delete(r) \/ DeleteRaises(r)
  \/ Record \/ Forget \/ Call \/ CallRaises \/ GiveUp \/ BodyEnds

Cleanup ==
  \/ NextStage
  \/ \E r \in todo : Deleted(r) \/ Accepted(r) \/ WaitTimesOut(r)
  \/ \E r \in todo : WaitRaises(r) \/ Refused(r) \/ CallFails(r)

Done == Terminal /\ UNCHANGED vars

Next == Body \/ Cleanup \/ (\E r \in deleting : CloudDeletes(r)) \/ Done

(***************************************************************************)
(* main() is one thread that is never stuck in a call: every wait of the   *)
(* body and of the cleanup counts down its tries.  Nova and heat are not   *)
(* fair: they may keep what they have agreed to delete.                    *)
(***************************************************************************)
Spec == Init /\ [][Next]_vars /\ WF_vars(Body) /\ WF_vars(Cleanup)

-----------------------------------------------------------------------------
(***************************************************************************)
(* Properties.                                                             *)
(***************************************************************************)
TypeOK ==
  /\ tc \in Testcase
  /\ phase \in {"body", "finally", "returned", "raised"}
  /\ pos \in Nat \ {0}
  /\ left \subseteq Res /\ cloud \subseteq Res /\ deleting \subseteq Res /\ ids \subseteq Res
  /\ exc \in BOOLEAN /\ verdict \in {"PASS", "FAIL"}
  /\ stage \in 1..Len(Stages) /\ todo \subseteq Res
  /\ lost \subseteq Res /\ stale \subseteq Res
  /\ faults \in 0..MaxFaults

\* The loops of the finally were entered (an exception before the try skips
\* them), no call of the cleanup failed for a reason of its own, and no wait
\* timed out.
QuietCleanup == Terminal /\ lost \cap ids = {} /\ faults = 0

(***************************************************************************)
(* A cleanup without a fault of OpenStack's leaves nothing behind when the *)
(* lists were right: everything that existed was noted (lost) and          *)
(* everything noted existed (stale).  What an earlier execution left goes  *)
(* with the rest, once it has been adopted.  This is about the order of    *)
(* the loops of cleanup_nova, cleanup_glance and cleanup_neutron and about *)
(* waiting for nova: one deletion refused because something still stands   *)
(* on the resource ends cleanup_neutron with the rest undeleted.           *)
(***************************************************************************)
QuietCleanupLeavesNothing ==
  QuietCleanup /\ lost = {} /\ stale = {} => cloud = {}

(***************************************************************************)
(* Whatever the body lost, a quiet cleanup deletes every noted resource    *)
(* nothing is built on: routes, instances, floating IPs, BGPVPNs, flavors, *)
(* stacks.                                                                 *)
(* A leak can hold back interfaces, subnets, routers and networks only.    *)
(***************************************************************************)
QuietCleanupDeletesNoted ==
  QuietCleanup /\ stale = {} =>
    \A r \in ids \cap cloud : Kind[r] \in Built

(***************************************************************************)
(* A body that ran to its end has noted everything it made or adopted,     *)
(* whatever was left to adopt, and notes nothing it deleted, however many  *)
(* steps lie between a create call and its append (the VPN deleted and     *)
(* re-created in tc1 and tc4, vm_2 of tc10 which is never noted because    *)
(* the body deletes it).                                                   *)
(***************************************************************************)
NormalBodyNotesAll ==
  phase # "body" /\ pos > Len(Script[tc]) =>
    /\ lost \cap Mentioned(tc, Makes) \subseteq Mentioned(tc, {"delete"})
    /\ stale = {}

(***************************************************************************)
(* With right lists and no fault of its own OpenStack refuses the cleanup  *)
(* nothing but an interface that was never joined: what stands on a        *)
(* resource is gone, not only asked to go, when the turn of the resource   *)
(* comes.  One refusal in between is what ends cleanup_neutron.            *)
(***************************************************************************)
RefusedOnlyUnjoined ==
  [][lost = {} /\ stale = {} /\ faults = 0 =>
       \A r \in todo : Refused(r) => r \notin cloud /\ Kind[r] = "interface"]_vars

\* A testcase ends, whatever nova does: no wait is unbounded.
Ends == <>Terminal
=============================================================================
