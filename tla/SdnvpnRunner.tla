---------------------------- MODULE SdnvpnRunner ----------------------------
(***************************************************************************)
(* SdnvpnFunctest.execute: one execution reads the quotas of the tenant,   *)
(* raises them, clears stale floating IPs and routers, runs the enabled    *)
(* testcases in order and puts the quotas back.  An execution can be cut   *)
(* short, by an exception outside the loop of testcases or by the process  *)
(* being killed, and another one may follow on the same cloud.             *)
(*                                                                         *)
(* Abstractions.  The four neutron quotas are one ("network"), set by one  *)
(* call; the nova quota class is the other ("compute").  A testcase is its *)
(* outcome (TestcaseLifecycle and the subtests say how it comes about).    *)
(* What the purge deletes is named by the router it belongs to: the router *)
(* itself, its gateway, the port of its interface, the floating IP that    *)
(* goes through it.                                                        *)
(***************************************************************************)
EXTENDS Naturals, Sequences

CONSTANTS
  Order,      \* Seq([name, enabled]), config.yaml's testcases by their order
  Router,     \* the routers an execution may find
  MaxRuns     \* bound: executions on this cloud

Config == [name : STRING, enabled : BOOLEAN]

ASSUME OrderAssumption == Order \in Seq(Config)
ASSUME MaxRunsAssumption == MaxRuns \in Nat \ {0}

Pools == {"network", "compute"}
Quotas == {"original", "unlimited"}

\* The collections the purge goes over.
Parts == {"floatingip", "interface", "gateway", "router"}

\* A floating IP goes through the gateway of a router.
Clouds ==
  {s \in [Parts -> SUBSET Router] :
     /\ s["floatingip"] \subseteq s["gateway"]
     /\ s["gateway"] \cup s["interface"] \subseteq s["router"]}

Index == 1..Len(Order)
Enabled == {i \in Index : Order[i].enabled}

VARIABLES
  run,            \* which execution this is
  pc,             \* the next statement, or how the execution ended
  quota,          \* [Pools -> Quotas], what is in force in the cloud
  saved,          \* [Pools -> Quotas], what this execution has read
  stale,          \* [Parts -> SUBSET Router], what is left of earlier testcases
  todo,           \* what the present loop of the purge has not come to yet
  next,           \* next testcase of the loop
  overall_status, \* "PASS" or "FAIL"
  details,        \* [Index -> status reported to xtesting, or "none"]
  outcome,        \* history: [Index -> how the testcase went, or "none"]
  cut,            \* history: some execution on this cloud was cut short
  restoreFailed,  \* history: some call that puts a quota back has failed
  failed          \* history: [SUBSET Router] of which a deletion that neutron
                  \* would have granted failed in this execution's purge

vars == <<run, pc, quota, saved, stale, todo, next, overall_status, details,
          outcome, cut, restoreFailed, failed>>

purgeVars == <<stale, todo, failed>>
loopVars == <<next, overall_status, details, outcome>>
history == <<cut, restoreFailed>>

Fresh == /\ next = 1 /\ overall_status = "PASS"
         /\ details = [i \in Index |-> "none"]
         /\ outcome = [i \in Index |-> "none"]

Init ==
  /\ run = 1 /\ pc = "read"
  /\ quota = [p \in Pools |-> "original"] /\ saved = quota
  /\ stale \in Clouds /\ todo = {} /\ failed = {}
  /\ Fresh
  /\ cut = FALSE /\ restoreFailed = FALSE

Terminal == pc \in {"EX_OK", "EX_RUN_ERROR", "raised", "killed"}

-----------------------------------------------------------------------------
\* get_neutron_quota, get_nova_instances_quota
ReadQuotas ==
  /\ pc = "read"
  /\ saved' = quota
  /\ pc' = "raise network"
  /\ UNCHANGED <<run, purgeVars, quota, loopVars, history>>

\* Mutant: the quotas are read once they have been raised.
RaiseNetwork_ReadsLate ==
  /\ pc = "raise network"
  /\ quota' = [quota EXCEPT !["network"] = "unlimited"]
  /\ saved' = quota'
  /\ pc' = "flavor"
  /\ UNCHANGED <<run, purgeVars, loopVars, history>>

\* update_nw_subnet_port_quota returns False on an error and nobody looks.
RaiseNetwork ==
  /\ pc = "raise network"
  /\ quota' \in {quota, [quota EXCEPT !["network"] = "unlimited"]}
  /\ pc' = "flavor"
  /\ UNCHANGED <<run, purgeVars, saved, loopVars, history>>

CreateDefaultFlavor ==
  /\ pc = "flavor"
  /\ pc' = "raise compute"
  /\ UNCHANGED <<run, purgeVars, quota, saved, loopVars, history>>

RaiseCompute ==
  /\ pc = "raise compute"
  /\ quota' \in {quota, [quota EXCEPT !["compute"] = "unlimited"]}
  /\ pc' = "floatingip" /\ todo' = stale["floatingip"]
  /\ UNCHANGED <<run, saved, stale, loopVars, history, failed>>

-----------------------------------------------------------------------------
(***************************************************************************)
(* The purge, three loops; each deletion catches its exceptions.  Neutron  *)
(* refuses to take the gateway from a router that a floating IP goes       *)
(* through, to delete a router with such a gateway or with an interface,   *)
(* and to delete the port of an interface: only remove_interface_router    *)
(* would take that, and the purge does not call it.                        *)
(***************************************************************************)
After == [floatingip |-> "interface", interface |-> "router", router |-> "loop"]

\* This loop is through; the next one lists what it goes over.
PurgeNext ==
  /\ pc \in DOMAIN After /\ todo = {}
  /\ pc' = After[pc]
  /\ todo' = IF After[pc] \in Parts THEN stale[After[pc]] ELSE {}
  /\ UNCHANGED <<run, quota, saved, stale, loopVars, history, failed>>

\* delete_floating_ip
PurgeFloatingIp(r) ==
  /\ pc = "floatingip" /\ r \in todo
  /\ todo' = todo \ {r}
  /\ \/ stale' = [stale EXCEPT !["floatingip"] = @ \ {r}] /\ UNCHANGED failed
     \/ failed' = failed \cup {r} /\ UNCHANGED stale
  /\ UNCHANGED <<run, pc, quota, saved, loopVars, history>>

\* delete_neutron_port of an interface: refused, and the error is swallowed.
PurgePort(r) ==
  /\ pc = "interface" /\ r \in todo
  /\ todo' = todo \ {r}
  /\ UNCHANGED <<run, pc, quota, saved, stale, failed, loopVars, history>>

InUse(r) == r \in stale["floatingip"] \cup stale["interface"]

WithoutGateway(r) ==
  IF r \in stale["floatingip"] THEN stale
                               ELSE [stale EXCEPT !["gateway"] = @ \ {r}]

\* Mutant: a router that cannot be deleted is left as it is.
PurgeRouter_OrLeaves(r) ==
  /\ pc = "router" /\ r \in todo
  /\ todo' = todo \ {r}
  /\ \/ ~InUse(r) /\ UNCHANGED failed
        /\ stale' = [stale EXCEPT !["router"] = @ \ {r}, !["gateway"] = @ \ {r}]
     \/ InUse(r) /\ UNCHANGED <<failed, stale>>
     \/ failed' = failed \cup {r} /\ UNCHANGED stale
  /\ UNCHANGED <<run, pc, quota, saved, loopVars, history>>

\* remove_gateway_router and delete_neutron_router, which is called whether
\* the gateway went or not.
PurgeRouter(r) ==
  /\ pc = "router" /\ r \in todo
  /\ todo' = todo \ {r}
  /\ \/ ~InUse(r) /\ UNCHANGED failed
        /\ stale' = [stale EXCEPT !["router"] = @ \ {r}, !["gateway"] = @ \ {r}]
     \/ InUse(r) /\ UNCHANGED failed /\ stale' = WithoutGateway(r)
     \/ failed' = failed \cup {r} /\ stale' \in {stale, WithoutGateway(r)}
  /\ UNCHANGED <<run, pc, quota, saved, loopVars, history>>

\* Statements an exception leaves execute from: nothing puts the quotas back.
\* A list is fetched page by page, so its loop may raise in the middle, and
\* get_floating_ips may return None instead of one.
Raises ==
  /\ pc \in {"read", "flavor"} \cup DOMAIN After
  /\ pc' = "raised" /\ cut' = TRUE
  /\ UNCHANGED <<run, quota, saved, purgeVars, loopVars, restoreFailed>>

-----------------------------------------------------------------------------
AtTestcase == pc = "loop" /\ next \in Index

SkipDisabled ==
  /\ AtTestcase /\ ~Order[next].enabled
  /\ next' = next + 1
  /\ UNCHANGED <<run, purgeVars, pc, quota, saved, overall_status, details, outcome,
                 history>>

\* Mutant: the status is passed on to xtesting only.
TestcaseReturns_OnlyDetails(status) ==
  /\ AtTestcase /\ Order[next].enabled
  /\ outcome' = [outcome EXCEPT ![next] = status]
  /\ details' = [details EXCEPT ![next] = status]
  /\ next' = next + 1
  /\ UNCHANGED <<run, purgeVars, pc, quota, saved, overall_status, history>>

\* main returns compile_summary().
TestcaseReturns(status) ==
  /\ AtTestcase /\ Order[next].enabled
  /\ outcome' = [outcome EXCEPT ![next] = status]
  /\ details' = [details EXCEPT ![next] = status]
  /\ overall_status' = IF status = "FAIL" THEN "FAIL" ELSE overall_status
  /\ next' = next + 1
  /\ UNCHANGED <<run, purgeVars, pc, quota, saved, history>>

\* Mutant: an exception is logged, the verdict is left alone.
TestcaseRaises_OnlyLogged ==
  /\ AtTestcase /\ Order[next].enabled
  /\ outcome' = [outcome EXCEPT ![next] = "exception"]
  /\ next' = next + 1
  /\ UNCHANGED <<run, purgeVars, pc, quota, saved, overall_status, details,
                 history>>

\* Mutant: the details have an entry of their own kind for an exception.
TestcaseRaises_Reported ==
  /\ AtTestcase /\ Order[next].enabled
  /\ outcome' = [outcome EXCEPT ![next] = "exception"]
  /\ details' = [details EXCEPT ![next] = "exception"]
  /\ overall_status' = "FAIL"
  /\ next' = next + 1
  /\ UNCHANGED <<run, purgeVars, pc, quota, saved, history>>

\* The import or main raises: result = -1, and details gets no entry.
TestcaseRaises ==
  /\ AtTestcase /\ Order[next].enabled
  /\ outcome' = [outcome EXCEPT ![next] = "exception"]
  /\ overall_status' = "FAIL"
  /\ next' = next + 1
  /\ UNCHANGED <<run, purgeVars, pc, quota, saved, details, history>>

LoopEnds ==
  /\ pc = "loop" /\ next \notin Index
  /\ pc' = "restore network"
  /\ UNCHANGED <<run, purgeVars, quota, saved, loopVars, history>>

-----------------------------------------------------------------------------
\* Puts the quota of one pool back, or fails and returns False.
PutBack(p) ==
  \/ quota' = [quota EXCEPT ![p] = saved[p]] /\ UNCHANGED restoreFailed
  \/ restoreFailed' = TRUE /\ UNCHANGED quota

RestoreNetwork ==
  /\ pc = "restore network"
  /\ PutBack("network")
  /\ pc' = "restore compute"
  /\ UNCHANGED <<run, purgeVars, saved, loopVars, cut>>

RestoreCompute ==
  /\ pc = "restore compute"
  /\ PutBack("compute")
  /\ pc' = "gather"
  /\ UNCHANGED <<run, purgeVars, saved, loopVars, cut>>

\* gather_logs cannot raise past its try; then the exit status.
Return ==
  /\ pc = "gather"
  /\ pc' = IF overall_status = "PASS" THEN "EX_OK" ELSE "EX_RUN_ERROR"
  /\ UNCHANGED <<run, purgeVars, quota, saved, loopVars, history>>

\* The process is killed.
Killed ==
  /\ ~Terminal
  /\ pc' = "killed" /\ cut' = TRUE
  /\ UNCHANGED <<run, purgeVars, quota, saved, loopVars, restoreFailed>>

\* The next execution, on the cloud the last one left: what its testcases made
\* and did not delete is stale now.
Rerun ==
  /\ Terminal /\ run < MaxRuns
  /\ run' = run + 1 /\ pc' = "read"
  /\ stale' \in Clouds /\ todo' = {} /\ failed' = {}
  /\ next' = 1 /\ overall_status' = "PASS"
  /\ details' = [i \in Index |-> "none"]
  /\ outcome' = [i \in Index |-> "none"]
  /\ UNCHANGED <<quota, saved, history>>

Execute ==
  \/ ReadQuotas \/ RaiseNetwork \/ CreateDefaultFlavor \/ RaiseCompute
  \/ PurgeNext
  \/ \E r \in todo : PurgeFloatingIp(r) \/ PurgePort(r) \/ PurgeRouter(r)
  \/ SkipDisabled \/ TestcaseRaises \/ LoopEnds
  \/ \E status \in {"PASS", "FAIL"} : TestcaseReturns(status)
  \/ RestoreNetwork \/ RestoreCompute \/ Return

Done == Terminal /\ run = MaxRuns /\ UNCHANGED vars

Next == Execute \/ Raises \/ Killed \/ Rerun \/ Done

Spec == Init /\ [][Next]_vars

-----------------------------------------------------------------------------
TypeOK ==
  /\ run \in 1..MaxRuns
  /\ pc \in {"read", "raise network", "flavor", "raise compute",
             "floatingip", "interface", "router", "loop",
             "restore network", "restore compute", "gather",
             "EX_OK", "EX_RUN_ERROR", "raised", "killed"}
  /\ quota \in [Pools -> Quotas] /\ saved \in [Pools -> Quotas]
  /\ stale \in [Parts -> SUBSET Router] /\ todo \subseteq Router
  /\ failed \subseteq Router
  /\ next \in 1..(Len(Order) + 1)
  /\ overall_status \in {"PASS", "FAIL"}
  /\ details \in [Index -> {"none", "PASS", "FAIL"}]
  /\ outcome \in [Index -> {"none", "PASS", "FAIL", "exception"}]
  /\ cut \in BOOLEAN /\ restoreFailed \in BOOLEAN

Returned == pc \in {"EX_OK", "EX_RUN_ERROR"}

(***************************************************************************)
(* Executions that were never cut short leave the quotas as the first one  *)
(* found them, whatever the testcases did and however many of them raised. *)
(* One that was cut short is remembered: the next one reads the raised     *)
(* quotas and puts those back.                                             *)
(***************************************************************************)
QuotasPutBack ==
  Returned /\ ~cut /\ ~restoreFailed => quota = [p \in Pools |-> "original"]

(***************************************************************************)
(* What the testcases find of earlier ones.  Of each router for which no   *)
(* deletion failed for a reason of its own: no floating IP and no gateway; *)
(* the router itself exactly if an interface joins it to a network, which  *)
(* the purge cannot undo.  So a failure stays with its own router, the     *)
(* floating IPs are gone in time for the gateways to be taken, also from   *)
(* the routers that have to stay, and the router create_network_full looks *)
(* up by name may be there on every execution after a failed cleanup.      *)
(***************************************************************************)
PurgeLeavesJoinedRouters ==
  pc = "loop" =>
    \A r \in Router \ failed :
      /\ r \notin stale["floatingip"] \cup stale["gateway"]
      /\ r \in stale["router"] <=> r \in stale["interface"]

(***************************************************************************)
(* The exit status is EX_OK exactly when every enabled testcase was run    *)
(* and passed: a testcase that raised counts, though details has nothing   *)
(* to say of it, and stops none of those after it.                         *)
(***************************************************************************)
ExitStatusIsTheOutcome ==
  Returned =>
    /\ \A i \in Enabled : outcome[i] # "none"
    /\ pc = "EX_OK" <=> \A i \in Enabled : outcome[i] = "PASS"

(***************************************************************************)
(* What xtesting is told of the testcases explains the exit status: an     *)
(* EX_RUN_ERROR has a FAIL among the details, or a testcase that is        *)
(* missing from them.                                                      *)
(***************************************************************************)
DetailsExplainTheExitStatus ==
  Returned =>
    (pc = "EX_RUN_ERROR" <=> \E i \in Enabled : details[i] # "PASS")
=============================================================================
