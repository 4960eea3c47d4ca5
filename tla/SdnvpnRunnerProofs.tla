------------------------- MODULE SdnvpnRunnerProofs -------------------------
(***************************************************************************)
(* What an execution of the runner leaves and reports, for every list of   *)
(* testcases and every number of executions on one cloud.                  *)
(*                                                                         *)
(* The quotas, the purge and the loop do not touch each other, so each has *)
(* an invariant of its own.  QuotaInv says where in execute the quotas are *)
(* the original ones and where the saved ones are; PurgeInv what can still *)
(* be stale in each loop of the purge, and of which routers; LoopInv that  *)
(* the testcases before next, and no others, have had their say.           *)
(***************************************************************************)
EXTENDS SdnvpnRunner, TLAPS

Original == [p \in Pools |-> "original"]

QuotaInv ==
  ~cut /\ ~restoreFailed =>
    /\ pc \notin {"raised", "killed"}
    /\ pc \in {"read", "raise network", "gather", "EX_OK", "EX_RUN_ERROR"}
         => quota = Original
    /\ pc # "read" => saved = Original
    /\ pc = "restore compute" => quota["network"] = "original"

\* What the present loop deletes is before it, or its deletion failed; what is
\* past its loop is gone, but for the routers an interface holds.
PurgeInv ==
  /\ stale["floatingip"] \subseteq stale["gateway"]
  /\ stale["gateway"] \cup stale["interface"] \subseteq stale["router"]
  /\ pc = "floatingip" => stale["floatingip"] \subseteq todo \cup failed
  /\ pc \in {"interface", "router", "loop"} => stale["floatingip"] \subseteq failed
  /\ pc = "router" =>
       /\ stale["gateway"] \subseteq todo \cup failed
       /\ stale["router"] \subseteq todo \cup failed \cup stale["interface"]
  /\ pc = "loop" =>
       /\ stale["gateway"] \subseteq failed
       /\ stale["router"] \subseteq failed \cup stale["interface"]

AfterLoop == {"restore network", "restore compute", "gather", "EX_OK",
              "EX_RUN_ERROR"}

LoopInv ==
  /\ \A i \in Index : i >= next => outcome[i] = "none"
  /\ \A i \in Enabled : i < next => outcome[i] # "none"
  /\ \A i \in Index : details[i] = IF outcome[i] = "exception" THEN "none"
                                                               ELSE outcome[i]
  /\ overall_status = "PASS" <=>
       \A i \in Enabled : outcome[i] \in {"none", "PASS"}
  /\ pc \in AfterLoop => next \notin Index
  /\ pc = "EX_OK" => overall_status = "PASS"
  /\ pc = "EX_RUN_ERROR" => overall_status = "FAIL"

IInv == TypeOK /\ QuotaInv /\ PurgeInv /\ LoopInv

LEMMA LenOrder == Len(Order) \in Nat /\ Enabled \subseteq Index
BY OrderAssumption DEF Enabled

\* There is room for another run, and for its loop to start.
LEMMA NextRun ==
  ASSUME NEW r \in 1..MaxRuns, r < MaxRuns
  PROVE  r + 1 \in 1..MaxRuns /\ 1 \in 1..(Len(Order) + 1)
BY LenOrder, MaxRunsAssumption

\* The loops of the purge and what comes after each.
LEMMA PurgePlaces ==
  /\ DOMAIN After = {"floatingip", "interface", "router"}
  /\ After["floatingip"] = "interface" /\ After["interface"] = "router"
  /\ After["router"] = "loop"
  /\ Parts = {"floatingip", "interface", "gateway", "router"}
BY DEF After, Parts

-----------------------------------------------------------------------------
\* The statements of execute, and what can happen to it.
LEMMA TypeStep == TypeOK /\ [Next]_vars => TypeOK'
<1>. SUFFICES ASSUME TypeOK, [Next]_vars PROVE TypeOK'
  OBVIOUS
<1>. USE DEF TypeOK, loopVars, history, purgeVars
<1>1. CASE ReadQuotas \/ CreateDefaultFlavor \/ LoopEnds \/ Return
  BY <1>1 DEF ReadQuotas, CreateDefaultFlavor, LoopEnds, Return
<1>2. CASE RaiseNetwork \/ RaiseCompute
  BY <1>2 DEF RaiseNetwork, RaiseCompute, Pools, Quotas, Parts
<1>3. CASE SkipDisabled
  BY <1>3, LenOrder DEF SkipDisabled, AtTestcase, Index
<1>4. ASSUME NEW status \in {"PASS", "FAIL"}, TestcaseReturns(status)
      PROVE  TypeOK'
  BY <1>4, LenOrder DEF TestcaseReturns, AtTestcase, Index
<1>5. CASE TestcaseRaises
  BY <1>5, LenOrder DEF TestcaseRaises, AtTestcase, Index
<1>6. CASE RestoreNetwork \/ RestoreCompute
  BY <1>6 DEF RestoreNetwork, RestoreCompute, PutBack, Pools
<1>7. CASE Raises \/ Killed
  BY <1>7 DEF Raises, Killed
<1>8. CASE Rerun
  <2>1. run' \in 1..MaxRuns /\ next' \in 1..(Len(Order) + 1)
    BY <1>8, NextRun DEF Rerun
  <2>2. /\ details' \in [Index -> {"none", "PASS", "FAIL"}]
        /\ outcome' \in [Index -> {"none", "PASS", "FAIL", "exception"}]
    BY <1>8 DEF Rerun
  <2>3. stale' \in [Parts -> SUBSET Router]
    BY <1>8 DEF Rerun, Clouds
  <2>. QED
    BY <1>8, <2>1, <2>2, <2>3 DEF Rerun
<1>9. CASE PurgeNext
  BY <1>9, PurgePlaces DEF PurgeNext
<1>10. ASSUME NEW r \in todo, PurgeFloatingIp(r) \/ PurgePort(r) PROVE TypeOK'
  BY <1>10 DEF PurgeFloatingIp, PurgePort, Parts
<1>11. ASSUME NEW r \in todo, PurgeRouter(r) PROVE TypeOK'
  <2>1. stale' \in [Parts -> SUBSET Router]
    BY <1>11 DEF PurgeRouter, WithoutGateway, Parts
  <2>. QED
    BY <1>11, <2>1 DEF PurgeRouter
<1>12. CASE UNCHANGED vars
  BY <1>12 DEF vars
<1>. QED
  BY <1>1, <1>2, <1>3, <1>4, <1>5, <1>6, <1>7, <1>8, <1>9, <1>10, <1>11, <1>12
  DEF Next, Execute, Done

\* The original quotas are in force, or saved, until they are put back.
LEMMA QuotaStep == TypeOK /\ QuotaInv /\ [Next]_vars => QuotaInv'
<1>. SUFFICES ASSUME TypeOK, QuotaInv, [Next]_vars PROVE QuotaInv'
  OBVIOUS
<1>. USE DEF QuotaInv, history
<1>1. CASE ReadQuotas \/ CreateDefaultFlavor \/ LoopEnds
  BY <1>1 DEF ReadQuotas, CreateDefaultFlavor, LoopEnds
<1>2. CASE RaiseNetwork \/ RaiseCompute
  BY <1>2 DEF RaiseNetwork, RaiseCompute
<1>3. ASSUME NEW status \in {"PASS", "FAIL"},
             SkipDisabled \/ TestcaseReturns(status) \/ TestcaseRaises
      PROVE  QuotaInv'
  BY <1>3 DEF SkipDisabled, TestcaseReturns, TestcaseRaises, AtTestcase
<1>4. CASE RestoreNetwork
  <2>1. CASE restoreFailed'
    BY <2>1
  <2>2. CASE quota' = [quota EXCEPT !["network"] = saved["network"]]
             /\ UNCHANGED restoreFailed /\ ~cut' /\ ~restoreFailed'
    <3>1. saved = Original
      BY <1>4, <2>2 DEF RestoreNetwork
    <3>2. quota'["network"] = "original"
      BY <2>2, <3>1 DEF Original, Pools, TypeOK
    <3>. QED
      BY <1>4, <2>2, <3>1, <3>2 DEF RestoreNetwork
  <2>. QED
    BY <1>4, <2>1, <2>2 DEF RestoreNetwork, PutBack
<1>5. CASE RestoreCompute
  <2>1. CASE restoreFailed'
    BY <2>1
  <2>2. CASE quota' = [quota EXCEPT !["compute"] = saved["compute"]]
             /\ UNCHANGED restoreFailed /\ ~cut' /\ ~restoreFailed'
    <3>1. quota["network"] = "original" /\ saved["compute"] = "original"
      BY <1>5, <2>2 DEF RestoreCompute, Original, Pools
    <3>2. quota' = Original
      BY <2>2, <3>1 DEF Original, Pools, TypeOK
    <3>. QED
      BY <1>5, <2>2, <3>2 DEF RestoreCompute
  <2>. QED
    BY <1>5, <2>1, <2>2 DEF RestoreCompute, PutBack
<1>6. CASE Return
  BY <1>6 DEF Return
<1>7. CASE Raises \/ Killed
  BY <1>7 DEF Raises, Killed
<1>8. CASE Rerun
  BY <1>8 DEF Rerun, Terminal
<1>9. CASE PurgeNext
  BY <1>9, PurgePlaces DEF PurgeNext
<1>10. ASSUME NEW r \in todo,
              PurgeFloatingIp(r) \/ PurgePort(r) \/ PurgeRouter(r)
       PROVE  QuotaInv'
  BY <1>10 DEF PurgeFloatingIp, PurgePort, PurgeRouter
<1>11. CASE UNCHANGED vars
  BY <1>11 DEF vars
<1>. QED
  BY <1>1, <1>2, <1>3, <1>4, <1>5, <1>6, <1>7, <1>8, <1>9, <1>10, <1>11
  DEF Next, Execute, Done

-----------------------------------------------------------------------------
(***************************************************************************)
(* The purge.                                                              *)
(***************************************************************************)
\* Steps outside the purge, and into its first loop.
LEMMA OutsidePurge ==
  ASSUME PurgeInv, UNCHANGED <<stale, failed>>,
         pc' \in DOMAIN After \cup {"loop"} => pc' = pc /\ UNCHANGED todo
  PROVE  PurgeInv'
BY PurgePlaces DEF PurgeInv

\* Each loop deletes what it comes to, unless that fails or an interface holds
\* it: no floating IP holds a gateway any more when the routers are gone over.
LEMMA PurgeStep == TypeOK /\ PurgeInv /\ [Next]_vars => PurgeInv'
<1>. SUFFICES ASSUME TypeOK, PurgeInv, [Next]_vars PROVE PurgeInv'
  OBVIOUS
<1>. USE DEF purgeVars
<1>1. CASE ReadQuotas \/ RaiseNetwork \/ CreateDefaultFlavor \/ Raises \/ Killed
  BY <1>1, OutsidePurge, PurgePlaces
  DEF ReadQuotas, RaiseNetwork, CreateDefaultFlavor, Raises, Killed
<1>2. CASE RaiseCompute
  BY <1>2 DEF RaiseCompute, PurgeInv
<1>3. CASE PurgeNext
  BY <1>3, PurgePlaces DEF PurgeNext, PurgeInv
<1>4. ASSUME NEW r \in todo, PurgeFloatingIp(r) PROVE PurgeInv'
  <2>1. pc = "floatingip" /\ pc' = pc /\ todo' = todo \ {r}
    BY <1>4 DEF PurgeFloatingIp
  <2>2. CASE failed' = failed \cup {r} /\ UNCHANGED stale
    BY <2>1, <2>2 DEF PurgeInv
  <2>3. CASE stale' = [stale EXCEPT !["floatingip"] = @ \ {r}] /\ UNCHANGED failed
    <3>1. /\ stale'["floatingip"] = stale["floatingip"] \ {r}
          /\ \A k \in Parts : k # "floatingip" => stale'[k] = stale[k]
      BY <2>3 DEF TypeOK, Parts
    <3>. QED
      BY <2>1, <2>3, <3>1 DEF PurgeInv, Parts
  <2>. QED
    BY <1>4, <2>2, <2>3 DEF PurgeFloatingIp
<1>5. ASSUME NEW r \in todo, PurgePort(r) PROVE PurgeInv'
  BY <1>5 DEF PurgePort, PurgeInv
<1>6. ASSUME NEW r \in todo, PurgeRouter(r) PROVE PurgeInv'
  <2>1. pc = "router" /\ pc' = pc /\ todo' = todo \ {r}
    BY <1>6 DEF PurgeRouter
  <2>2. stale["floatingip"] \subseteq failed
    BY <2>1 DEF PurgeInv
  <2>3. CASE ~InUse(r) /\ UNCHANGED failed
             /\ stale' = [stale EXCEPT !["router"] = @ \ {r}, !["gateway"] = @ \ {r}]
    <3>1. /\ stale'["router"] = stale["router"] \ {r}
          /\ stale'["gateway"] = stale["gateway"] \ {r}
          /\ stale'["floatingip"] = stale["floatingip"]
          /\ stale'["interface"] = stale["interface"]
      BY <2>3 DEF TypeOK, Parts
    <3>. QED
      BY <2>1, <2>3, <3>1 DEF PurgeInv, InUse
  <2>4. ASSUME failed' \in {failed, failed \cup {r}},
               stale' \in {stale, WithoutGateway(r)},
               r \notin failed' =>
                 r \in stale["floatingip"] \cup stale["interface"]
                 /\ stale' = WithoutGateway(r)
        PROVE  PurgeInv'
    <3>1. /\ stale'["router"] = stale["router"]
          /\ stale'["floatingip"] = stale["floatingip"]
          /\ stale'["interface"] = stale["interface"]
          /\ stale'["gateway"] \in {stale["gateway"], stale["gateway"] \ {r}}
      BY <2>4 DEF TypeOK, Parts, WithoutGateway
    <3>2. stale["floatingip"] \subseteq stale'["gateway"]
      BY <2>4 DEF TypeOK, Parts, WithoutGateway, PurgeInv
    <3>3. stale'["gateway"] \subseteq todo' \cup failed'
      <4>1. CASE r \in failed'
        BY <2>1, <2>4, <3>1, <4>1 DEF PurgeInv
      <4>2. CASE r \notin failed'
        <5>1. stale' = [stale EXCEPT !["gateway"] = @ \ {r}] /\ failed' = failed
          BY <2>2, <2>4, <4>2 DEF WithoutGateway
        <5>. QED
          BY <2>1, <5>1 DEF PurgeInv, TypeOK, Parts
      <4>. QED
        BY <4>1, <4>2
    <3>4. stale'["router"] \subseteq todo' \cup failed' \cup stale'["interface"]
      BY <2>1, <2>2, <2>4, <3>1 DEF PurgeInv
    <3>5. stale'["floatingip"] \subseteq failed'
      BY <2>2, <2>4, <3>1
    <3>. QED
      BY <2>1, <3>1, <3>2, <3>3, <3>4, <3>5 DEF PurgeInv
  <2>. QED
    BY <1>6, <2>3, <2>4 DEF PurgeRouter, InUse
<1>7. CASE LoopEnds \/ RestoreNetwork \/ RestoreCompute \/ Return
  BY <1>7, OutsidePurge, PurgePlaces
  DEF LoopEnds, RestoreNetwork, RestoreCompute, Return
<1>8. ASSUME NEW status \in {"PASS", "FAIL"},
             SkipDisabled \/ TestcaseReturns(status) \/ TestcaseRaises
      PROVE  PurgeInv'
  BY <1>8, OutsidePurge DEF SkipDisabled, TestcaseReturns, TestcaseRaises
<1>9. CASE Rerun
  BY <1>9 DEF Rerun, Clouds, PurgeInv
<1>10. CASE UNCHANGED vars
  BY <1>10, OutsidePurge DEF vars
<1>. QED
  BY <1>1, <1>2, <1>3, <1>4, <1>5, <1>6, <1>7, <1>8, <1>9, <1>10
  DEF Next, Execute, Done

-----------------------------------------------------------------------------
\* Past the end of the loop every enabled testcase has had its turn.
LEMMA AllBefore ==
  ASSUME TypeOK, next \notin Index
  PROVE  \A i \in Enabled : i < next
<1>1. next = Len(Order) + 1
  <2>1. next \in 1..(Len(Order) + 1) /\ next \notin 1..Len(Order)
    BY DEF TypeOK, Index
  <2>2. Len(Order) \in Nat
    BY LenOrder
  <2>. QED
    BY <2>1, <2>2
<1>2. \A i \in Enabled : i \in 1..Len(Order)
  BY LenOrder DEF Index
<1>. QED
  BY <1>1, <1>2, LenOrder

\* A step outside the loop that leaves the loop's variables alone.
LEMMA OutsideLoop ==
  ASSUME LoopInv, UNCHANGED loopVars,
         pc' \in AfterLoop => next \notin Index,
         pc' = "EX_OK" => overall_status = "PASS",
         pc' = "EX_RUN_ERROR" => overall_status = "FAIL"
  PROVE  LoopInv'
BY DEF LoopInv, loopVars

\* One testcase has had its say.
LEMMA TestcaseStep ==
  ASSUME TypeOK, LoopInv, AtTestcase, Order[next].enabled,
         NEW how \in {"PASS", "FAIL", "exception"},
         outcome' = [outcome EXCEPT ![next] = how],
         details' = IF how = "exception" THEN details
                                         ELSE [details EXCEPT ![next] = how],
         overall_status' = IF how = "PASS" THEN overall_status ELSE "FAIL",
         next' = next + 1, pc' = pc
  PROVE  LoopInv'
<1>1. next \in Enabled /\ next \in Index /\ outcome[next] = "none" /\ pc = "loop"
  BY LenOrder DEF AtTestcase, LoopInv, Enabled, Index
<1>2. /\ outcome'[next] = how
      /\ details'[next] = IF how = "exception" THEN "none" ELSE how
      /\ \A i \in Index : i # next => outcome'[i] = outcome[i]
                                      /\ details'[i] = details[i]
  BY <1>1 DEF LoopInv, TypeOK
<1>3. Enabled \subseteq Nat /\ next \in Nat
  BY <1>1 DEF Enabled, Index
<1>4. \A i \in Index : i >= next' => outcome'[i] = "none"
  BY <1>1, <1>2, <1>3 DEF LoopInv, Index
<1>5. \A i \in Enabled : i < next' => outcome'[i] # "none"
  BY <1>1, <1>2, <1>3, LenOrder DEF LoopInv
<1>6. overall_status' = "PASS" <=>
        \A i \in Enabled : outcome'[i] \in {"none", "PASS"}
  BY <1>1, <1>2, LenOrder DEF LoopInv, TypeOK
<1>. QED
  BY <1>1, <1>2, <1>4, <1>5, <1>6 DEF LoopInv, AfterLoop

\* The loop goes from testcase to testcase; nothing else changes its report.
LEMMA LoopStep == TypeOK /\ LoopInv /\ [Next]_vars => LoopInv'
<1>. SUFFICES ASSUME TypeOK, LoopInv, [Next]_vars PROVE LoopInv'
  OBVIOUS
<1>1. CASE ReadQuotas \/ RaiseNetwork \/ CreateDefaultFlavor \/ RaiseCompute
           \/ Raises \/ Killed
  BY <1>1, OutsideLoop DEF ReadQuotas, RaiseNetwork, CreateDefaultFlavor,
     RaiseCompute, Raises, Killed, AfterLoop
<1>2. CASE LoopEnds \/ RestoreNetwork \/ RestoreCompute
  BY <1>2, OutsideLoop
  DEF LoopEnds, RestoreNetwork, RestoreCompute, AfterLoop, LoopInv
<1>3. CASE Return
  BY <1>3, OutsideLoop DEF Return, AfterLoop, LoopInv, TypeOK
<1>4. CASE SkipDisabled
  <2>1. next \in Index /\ next \notin Enabled /\ next' = next + 1 /\ pc = "loop"
    BY <1>4 DEF SkipDisabled, AtTestcase, Enabled
  <2>2. \A i \in Enabled : i < next' => i < next
    BY <2>1, LenOrder DEF Index
  <2>3. \A i \in Index : i >= next' => i >= next
    BY <2>1 DEF Index
  <2>. QED
    BY <1>4, <2>1, <2>2, <2>3 DEF SkipDisabled, LoopInv, AfterLoop
<1>5. ASSUME NEW status \in {"PASS", "FAIL"}, TestcaseReturns(status)
      PROVE  LoopInv'
  BY <1>5, TestcaseStep DEF TestcaseReturns
<1>6. CASE TestcaseRaises
  BY <1>6, TestcaseStep DEF TestcaseRaises
<1>7. CASE Rerun
  <2>1. \A i \in Index : outcome'[i] = "none" /\ details'[i] = "none"
    BY <1>7 DEF Rerun
  <2>2. \A i \in Enabled : i \in Index /\ i >= 1
    BY LenOrder DEF Index
  <2>3. next' = 1 /\ overall_status' = "PASS" /\ pc' = "read"
    BY <1>7 DEF Rerun
  <2>4. \A i \in Enabled : ~(i < next')
    BY <2>2, <2>3, LenOrder DEF Index
  <2>. QED
    BY <2>1, <2>2, <2>3, <2>4 DEF LoopInv, AfterLoop
<1>8. CASE PurgeNext
  BY <1>8, OutsideLoop, PurgePlaces DEF PurgeNext, AfterLoop
<1>9. ASSUME NEW r \in todo,
             PurgeFloatingIp(r) \/ PurgePort(r) \/ PurgeRouter(r)
      PROVE  LoopInv'
  BY <1>9, OutsideLoop DEF PurgeFloatingIp, PurgePort, PurgeRouter, AfterLoop
<1>10. CASE UNCHANGED vars
  BY <1>10 DEF vars, LoopInv
<1>. QED
  BY <1>1, <1>2, <1>3, <1>4, <1>5, <1>6, <1>7, <1>8, <1>9, <1>10
  DEF Next, Execute, Done

-----------------------------------------------------------------------------
LEMMA Inductive == Spec => []IInv
<1>1. Init => IInv
  <2>. SUFFICES ASSUME Init PROVE IInv
    OBVIOUS
  <2>1. TypeOK
    <3>1. run \in 1..MaxRuns /\ next \in 1..(Len(Order) + 1)
      BY LenOrder, MaxRunsAssumption DEF Init, Fresh
    <3>2. quota \in [Pools -> Quotas] /\ saved \in [Pools -> Quotas]
      BY DEF Init, Quotas
    <3>3. /\ details \in [Index -> {"none", "PASS", "FAIL"}]
          /\ outcome \in [Index -> {"none", "PASS", "FAIL", "exception"}]
      BY DEF Init, Fresh
    <3>4. stale \in [Parts -> SUBSET Router]
      BY DEF Init, Clouds
    <3>. QED
      BY <3>1, <3>2, <3>3, <3>4 DEF Init, Fresh, TypeOK
  <2>2. QuotaInv
    BY DEF Init, QuotaInv, Original
  <2>3. LoopInv
    BY LenOrder DEF Init, Fresh, LoopInv, AfterLoop, Index, Enabled
  <2>4. PurgeInv
    BY DEF Init, Clouds, PurgeInv
  <2>. QED
    BY <2>1, <2>2, <2>3, <2>4 DEF IInv
<1>2. IInv /\ [Next]_vars => IInv'
  BY TypeStep, QuotaStep, PurgeStep, LoopStep DEF IInv
<1>. QED
  BY <1>1, <1>2, PTL DEF Spec

\* Every variable of the runner keeps its type.
THEOREM TypeCorrect == Spec => []TypeOK
<1>1. IInv => TypeOK
  BY DEF IInv
<1>. QED
  BY Inductive, <1>1, PTL

\* Executions that were not cut short put the quotas back, however many of
\* them there were and whatever their testcases did.
THEOREM RestoresQuotas == Spec => []QuotasPutBack
<1>1. IInv => QuotasPutBack
  BY DEF IInv, QuotaInv, QuotasPutBack, Returned, Original
<1>. QED
  BY Inductive, <1>1, PTL

\* Whatever the purge found, for any number of routers: it leaves nothing of a
\* router none of whose deletions failed, unless an interface joins it; then
\* it leaves the router, without its gateway.
THEOREM PurgeLeavesOnlyJoined == Spec => []PurgeLeavesJoinedRouters
<1>1. IInv => PurgeLeavesJoinedRouters
  BY DEF IInv, PurgeInv, PurgeLeavesJoinedRouters
<1>. QED
  BY Inductive, <1>1, PTL

\* The exit status is EX_OK exactly when every enabled testcase ran and passed.
THEOREM ExitStatusCorrect == Spec => []ExitStatusIsTheOutcome
<1>. SUFFICES IInv => ExitStatusIsTheOutcome
  BY Inductive, PTL
<1>. SUFFICES ASSUME IInv, Returned PROVE ExitStatusIsTheOutcome
  BY DEF ExitStatusIsTheOutcome
<1>1. next \notin Index
  BY DEF IInv, LoopInv, AfterLoop, Returned
<1>2. \A i \in Enabled : i < next
  BY <1>1, AllBefore DEF IInv
<1>3. \A i \in Enabled : outcome[i] # "none"
  BY <1>2 DEF IInv, LoopInv
<1>4. pc = "EX_OK" <=> overall_status = "PASS"
  BY DEF IInv, LoopInv, TypeOK, Returned
<1>. QED
  BY <1>3, <1>4 DEF IInv, LoopInv, ExitStatusIsTheOutcome

\* A failed execution shows in the details, as a FAIL or as a missing entry.
THEOREM DetailsCorrect == Spec => []DetailsExplainTheExitStatus
<1>. SUFFICES IInv => DetailsExplainTheExitStatus
  BY Inductive, PTL
<1>. SUFFICES ASSUME IInv, Returned PROVE DetailsExplainTheExitStatus
  BY DEF DetailsExplainTheExitStatus
<1>1. next \notin Index
  BY DEF IInv, LoopInv, AfterLoop, Returned
<1>2. \A i \in Enabled : i < next
  BY <1>1, AllBefore DEF IInv
<1>3. \A i \in Enabled : outcome[i] # "none"
  BY <1>2 DEF IInv, LoopInv
<1>4. \A i \in Enabled : details[i] = "PASS" <=> outcome[i] = "PASS"
  BY LenOrder DEF IInv, LoopInv
<1>5. pc = "EX_RUN_ERROR" <=> overall_status # "PASS"
  BY DEF IInv, LoopInv, TypeOK, Returned
<1>. QED
  BY <1>3, <1>4, <1>5 DEF IInv, LoopInv, DetailsExplainTheExitStatus
=============================================================================
