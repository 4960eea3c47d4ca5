---------------------- MODULE TestcaseLifecycleProofs ----------------------
(***************************************************************************)
(* What the finally of a testcase guarantees, for every script, every set  *)
(* of resources and every bound on faults.                                 *)
(*                                                                         *)
(* QuietCleanupLeavesNothing speaks of terminal states only.  Its          *)
(* strengthening says, for every state of the finally, which resources can *)
(* still exist: those whose loop has not begun, or whose turn in the       *)
(* present loop has not come (StillDue).  It does not matter who made it:  *)
(* what an earlier execution left is noted when it is adopted, or lost.    *)
(*                                                                         *)
(* NormalBodyNotesAll speaks of the end of a body.  What is noted for good *)
(* stays noted (NotedInv), and what a list holds though it does not exist  *)
(* is settled by a step still to come (SettledInv); at the end of a body   *)
(* that ran through none is.                                               *)
(***************************************************************************)
EXTENDS TestcaseLifecycle, TLAPS

\* The loop that deletes r has not begun, or has not handled r.
StillDue(r) ==
  \/ StageOf(Kind[r]) > stage
  \/ StageOf(Kind[r]) = stage /\ r \in todo

FinallyInv ==
  phase = "finally" =>
    /\ lost \cap ids = {}
    /\ todo \subseteq IdsOf(Stages[stage])
    /\ stale = {} /\ faults = 0 =>
         /\ \A r \in ids \cap cloud : Kind[r] \notin Built => StillDue(r)
         /\ \A r \in ids : StillDue(r) /\ Kind[r] \notin MissingIsHarmless
                             => r \in cloud
    /\ stale = {} /\ faults = 0 /\ lost = {} =>
         \A r \in cloud : r \in ids /\ StillDue(r)

BodyInv == phase = "body" => stage = 1 /\ todo = {} /\ faults = 0

NovaInv == \A r \in deleting : Kind[r] \in Slow

\* The order of the cleanup, and what it is for.
Order ==
  /\ BodyInv
  /\ FinallyInv
  /\ QuietCleanupLeavesNothing
  /\ QuietCleanupDeletesNoted

NotedInv ==
  phase = "body" =>
    \A r \in Res, i \in DOMAIN Script[tc] :
      i < pos /\ NotesForGood(tc, i, r) /\ (r \in cloud \/ Kind[r] \in NotedBlind)
        => r \in ids

SettledInv ==
  phase = "body" =>
    \A r \in ids \ cloud : Kind[r] \notin MissingIsHarmless =>
      \E j \in DOMAIN Script[tc] : j >= pos /\ Settles(tc, j, r)

\* The lists and the cloud while the body runs, and what it is for.
Notes ==
  /\ left \in Leftovers[tc]
  /\ NotedInv
  /\ SettledInv
  /\ NormalBodyNotesAll

IInv == TypeOK /\ NovaInv /\ Order /\ Notes

-----------------------------------------------------------------------------
\* Each kind is deleted by exactly one loop.
LEMMA StageFacts ==
  /\ Len(Stages) = 12
  /\ StageOf("bridge") = 1     /\ StageOf("route") = 2
  /\ StageOf("flavor") = 3     /\ StageOf("instance") = 4
  /\ StageOf("image") = 5      /\ StageOf("floatingip") = 6
  /\ StageOf("bgpvpn") = 7     /\ StageOf("interface") = 8
  /\ StageOf("subnet") = 9     /\ StageOf("router") = 10
  /\ StageOf("network") = 11   /\ StageOf("stack") = 12
<1>1. Len(Stages) = 12
  BY DEF Stages
<1>2. \A k : StageOf(k) = CHOOSE i \in 1..12 : Stages[i] = k
  BY <1>1 DEF StageOf
<1>3. \A i \in 1..12 : i = 1 \/ i = 2 \/ i = 3 \/ i = 4 \/ i = 5
                       \/ i = 6 \/ i = 7 \/ i = 8 \/ i = 9 \/ i = 10
                       \/ i = 11 \/ i = 12
  OBVIOUS
<1>. QED
  BY <1>1, <1>2, <1>3 DEF Stages

\* The loop of a kind, and the kind of a loop.
LEMMA StageOfKind ==
  ASSUME NEW k \in Kinds
  PROVE  StageOf(k) \in 1..12 /\ Stages[StageOf(k)] = k
<1>1. PICK i \in 1..Len(Stages) : Stages[i] = k
  BY DEF Kinds
<1>2. \E j \in 1..Len(Stages) : Stages[j] = k
  BY <1>1
<1>3. StageOf(k) \in 1..Len(Stages) /\ Stages[StageOf(k)] = k
  BY <1>2 DEF StageOf
<1>. QED
  BY <1>3, StageFacts

LEMMA OneStagePerKind ==
  ASSUME NEW i \in 1..Len(Stages)
  PROVE  Stages[i] \in Kinds /\ StageOf(Stages[i]) = i
<1>1. i \in 1..12
  BY StageFacts
<1>2. Stages[i] \in Kinds
  BY DEF Kinds
<1>3. \A j \in 1..12 : Stages[j] = Stages[i] => j = i
  BY <1>1 DEF Stages
<1>. QED
  BY <1>2, <1>3, StageOfKind

\* A deletion is refused for a reason of the resource only when something is
\* built on it; that something belongs to an earlier loop.
LEMMA PinnedIsBuilt ==
  ASSUME TypeOK, NEW r \in Res, Pinned(r)
  PROVE  /\ Kind[r] \in Built
         /\ \E x \in cloud : StageOf(Kind[x]) < StageOf(Kind[r])
BY OrderAssumption DEF Pinned, TypeOK, Built

\* The step the body is at mentions resources only.
LEMMA StepResources == TypeOK => AtHand \subseteq Res
<1>. SUFFICES ASSUME TypeOK, InBody PROVE Script[tc][pos].res \subseteq Res
  BY DEF AtHand
<1>1. pos \in 1..Len(Script[tc]) /\ Script[tc] \in Seq(Step)
  BY ScriptAssumption DEF TypeOK, InBody
<1>2. Script[tc][pos] \in Step
  BY <1>1
<1>. QED
  BY <1>2 DEF Step

-----------------------------------------------------------------------------
\* The lists of one kind hold resources.
LEMMA IdsOfResources == TypeOK => \A k : IdsOf(k) \subseteq Res
BY DEF IdsOf, TypeOK

\* An exception disturbs no type, whether it enters the finally or leaves main.
LEMMA RaiseType ==
  ASSUME TypeOK, Raise, cloud' \subseteq Res, deleting' \subseteq Res
  PROVE  TypeOK'
BY IdsOfResources DEF Raise, EnterFinally, TypeOK

\* After a failed deletion the loop at hand has ids of its own kind left, and
\* the loop at hand may be the stack's.
LEMMA FailedTodo ==
  ASSUME TypeOK, NEW r \in Res, Failed(r), todo \subseteq IdsOf(Stages[stage]),
         ids' = ids
  PROVE  todo' \subseteq IdsOf(Stages[stage])'
<1>1. Stages[StageOf("stack")] = "stack"
  BY StageFacts DEF Stages
<1>. QED
  BY <1>1 DEF Failed, Handled, IdsOf

\* Nor does a deletion that fails.
LEMMA FailedType ==
  ASSUME TypeOK, NEW r \in Res, Failed(r), faults' \in 0..MaxFaults,
         UNCHANGED <<bodyVars, cloud, deleting>>
  PROVE  TypeOK'
<1>1. stage' \in 1..Len(Stages)
  BY StageFacts DEF Failed, Handled, TypeOK
<1>2. todo' \subseteq Res
  BY IdsOfResources DEF Failed, Handled, TypeOK
<1>3. phase' \in {"body", "finally", "returned", "raised"} /\ exc' \in BOOLEAN
  BY DEF Failed, Handled, TypeOK
<1>. QED
  BY <1>1, <1>2, <1>3 DEF bodyVars, TypeOK

\* Every variable keeps its type.
LEMMA TypeStep == TypeOK /\ [Next]_vars => TypeOK'
<1>. SUFFICES ASSUME TypeOK, [Next]_vars PROVE TypeOK'
  OBVIOUS
<1>. USE DEF Advance, cleanupVars, bodyVars
<1>0. AtHand \subseteq Res /\ todo \subseteq Res /\ deleting \subseteq Res
  BY StepResources DEF TypeOK
<1>1. ASSUME NEW r \in Res, MakeOk(r) \/ Adopt(r) PROVE TypeOK'
  BY <1>1 DEF MakeOk, Adopt, TypeOK
<1>2. ASSUME NEW r \in Res, MakeYieldsNone(r) PROVE TypeOK'
  BY <1>2 DEF MakeYieldsNone, TypeOK
<1>3. ASSUME NEW r \in Res, MakeRaises(r) PROVE TypeOK'
  <2>1. cloud' \subseteq Res /\ deleting' \subseteq Res /\ Raise
    BY <1>3 DEF MakeRaises, TypeOK
  <2>. QED
    BY <2>1, RaiseType
<1>4. ASSUME NEW r \in Res, Delete(r) PROVE TypeOK'
  BY <1>4 DEF Delete, TypeOK
<1>5. ASSUME NEW r \in Res, DeleteRaises(r) PROVE TypeOK'
  <2>1. cloud' \subseteq Res /\ deleting' \subseteq Res /\ Raise
    BY <1>5 DEF DeleteRaises, TypeOK
  <2>. QED
    BY <2>1, RaiseType
<1>6. CASE Record
  <2>1. Script[tc][pos].res \subseteq Res
    BY <1>6, StepResources DEF Record, At, AtHand
  <2>. QED
    BY <1>6, <2>1 DEF Record, TypeOK
<1>7. CASE Forget
  BY <1>7 DEF Forget, TypeOK
<1>8. CASE Call
  BY <1>8 DEF Call, TypeOK
<1>9. CASE CallRaises
  <2>1. cloud' \subseteq Res /\ deleting' \subseteq Res /\ Raise
    BY <1>9 DEF CallRaises, TypeOK
  <2>. QED
    BY <2>1, RaiseType
<1>10. CASE BodyEnds
  BY <1>10, IdsOfResources DEF BodyEnds, EnterFinally, TypeOK
<1>11. CASE NextStage
  BY <1>11, IdsOfResources, StageFacts DEF NextStage, Leave, TypeOK
<1>12. ASSUME NEW r \in Res, Deleted(r) PROVE TypeOK'
  BY <1>12 DEF Deleted, Handled, TypeOK
<1>13. ASSUME NEW r \in Res, Accepted(r) PROVE TypeOK'
  BY <1>13 DEF Accepted, TypeOK
<1>14. ASSUME NEW r \in Res, WaitTimesOut(r) PROVE TypeOK'
  BY <1>14, MaxFaultsAssumption
     DEF WaitTimesOut, CountFault, Handled, TypeOK
<1>15. ASSUME NEW r \in Res, Refused(r) PROVE TypeOK'
  <2>1. faults' \in 0..MaxFaults
    BY <1>15 DEF Refused, TypeOK
  <2>. QED
    BY <1>15, <2>1, FailedType DEF Refused
<1>16. ASSUME NEW r \in Res, CallFails(r) PROVE TypeOK'
  <2>1. faults' \in 0..MaxFaults
    BY <1>16, MaxFaultsAssumption DEF CallFails, CountFault, TypeOK
  <2>. QED
    BY <1>16, <2>1, FailedType DEF CallFails
<1>17. ASSUME NEW r \in Res, CloudDeletes(r) PROVE TypeOK'
  BY <1>17 DEF CloudDeletes, TypeOK
<1>18. CASE GiveUp
  BY <1>18 DEF GiveUp, TypeOK
<1>19. ASSUME NEW r \in Res, WaitRaises(r) PROVE TypeOK'
  BY <1>19, MaxFaultsAssumption DEF WaitRaises, CountFault, TypeOK
<1>20. CASE UNCHANGED vars
  BY <1>20 DEF vars, TypeOK
<1>. QED
  BY <1>0, <1>1, <1>2, <1>3, <1>4, <1>5, <1>6, <1>7, <1>8, <1>9, <1>10, <1>11,
     <1>12, <1>13, <1>14, <1>15, <1>16, <1>17, <1>18, <1>19, <1>20
  DEF Next, Body, Cleanup, Done

-----------------------------------------------------------------------------
\* When the finally begins every noted id is due.
LEMMA EnterOrder ==
  ASSUME TypeOK, stage = 1, faults = 0, EnterFinally,
         UNCHANGED <<ids, stage, faults>>
  PROVE  Order'
<1>1. \A r \in Res : StageOf(Kind[r]) \in 1..12 /\ Stages[StageOf(Kind[r])] = Kind[r]
  BY StageOfKind, KindAssumption
<1>2. \A r \in ids : StageOf(Kind[r]) > 1 \/ (StageOf(Kind[r]) = 1 /\ r \in todo')
  BY <1>1 DEF EnterFinally, IdsOf, TypeOK
<1>3. \A r \in ids : StillDue(r)'
  BY <1>2 DEF StillDue
<1>4. todo' \subseteq IdsOf(Stages[stage])'
  BY DEF EnterFinally, IdsOf
<1>5. FinallyInv'
  BY <1>3, <1>4 DEF FinallyInv, EnterFinally, TypeOK
<1>. QED
  BY <1>5 DEF Order, BodyInv, EnterFinally, QuietCleanupLeavesNothing,
              QuietCleanupDeletesNoted, QuietCleanup, Terminal

\* An exception of the body enters the finally, or leaves main with every
\* resource lost.
LEMMA RaiseOrder ==
  ASSUME TypeOK, Order, phase = "body", Raise
  PROVE  Order'
<1>1. CASE pos >= TryAt[tc] /\ EnterFinally
  BY <1>1, EnterOrder DEF Raise, Order, BodyInv
<1>2. CASE phase' = "raised" /\ lost' = cloud'
  BY <1>2 DEF Order, BodyInv, FinallyInv, QuietCleanupLeavesNothing, Raise,
              QuietCleanupDeletesNoted, QuietCleanup, Terminal
<1>. QED
  BY <1>1, <1>2 DEF Raise

\* No other step of the body touches what Order speaks of.
LEMMA AdvanceOrder ==
  ASSUME Order, phase = "body", Advance
  PROVE  Order'
BY DEF Order, BodyInv, FinallyInv, QuietCleanupLeavesNothing, Advance,
       QuietCleanupDeletesNoted, QuietCleanup, Terminal, cleanupVars

\* A fault of OpenStack's excuses everything later.
LEMMA FaultOrder ==
  ASSUME TypeOK, Order, phase = "finally", faults' >= 1, faults' \in Nat,
         phase' = "finally" => todo' \subseteq IdsOf(Stages[stage])',
         phase' \in {"finally", "returned", "raised"},
         UNCHANGED <<ids, lost>>
  PROVE  Order'
BY DEF Order, BodyInv, FinallyInv, IdsOf, QuietCleanupLeavesNothing,
       QuietCleanupDeletesNoted, QuietCleanup, Terminal

\* From one loop to the next, and out of the last.
LEMMA NextStageOrder ==
  ASSUME TypeOK, Order, NextStage
  PROVE  Order'
<1>1. \A r \in Res : StageOf(Kind[r]) \in 1..12 /\ Stages[StageOf(Kind[r])] = Kind[r]
  BY StageOfKind, KindAssumption
<1>2. CASE /\ stage < Len(Stages) /\ stage' = stage + 1
           /\ todo' = IdsOf(Stages[stage + 1]) /\ UNCHANGED phase
  <2>1. \A r \in ids : StillDue(r)' <=> StillDue(r)
    BY <1>1, <1>2 DEF StillDue, IdsOf, NextStage, TypeOK
  <2>2. todo' \subseteq IdsOf(Stages[stage])'
    BY <1>2 DEF IdsOf, NextStage, bodyVars
  <2>3. FinallyInv'
    BY <1>2, <2>1, <2>2 DEF FinallyInv, Order, NextStage, bodyVars
  <2>. QED
    BY <1>2, <2>3 DEF Order, BodyInv, NextStage, QuietCleanupLeavesNothing,
                      QuietCleanupDeletesNoted, QuietCleanup, Terminal
<1>3. CASE stage = Len(Stages) /\ Leave
  <2>1. \A r \in Res : ~StillDue(r)
    BY <1>1, <1>3, StageFacts DEF StillDue, NextStage, TypeOK
  <2>2. stale = {} /\ faults = 0 /\ lost = {} => cloud = {}
    BY <2>1 DEF Order, FinallyInv, NextStage, TypeOK
  <2>3. stale = {} /\ faults = 0 => \A r \in ids \cap cloud : Kind[r] \in Built
    BY <2>1 DEF Order, FinallyInv, NextStage, TypeOK
  <2>. QED
    BY <1>3, <2>2, <2>3
    DEF Order, BodyInv, FinallyInv, NextStage, Leave, bodyVars, Built,
        QuietCleanupLeavesNothing, QuietCleanupDeletesNoted, QuietCleanup
<1>. QED
  BY <1>2, <1>3 DEF NextStage

\* r leaves the loop and the cloud together.
LEMMA DeletedOrder ==
  ASSUME TypeOK, Order, NEW r \in Res, Deleted(r)
  PROVE  Order'
<1>1. Kind[r] = Stages[stage] /\ StageOf(Kind[r]) = stage
  BY OneStagePerKind
  DEF Deleted, Handling, Order, FinallyInv, IdsOf, TypeOK
<1>2. /\ phase = "finally" /\ phase' = "finally" /\ stage' = stage
      /\ todo' = todo \ {r} /\ cloud' = cloud \ {r}
      /\ UNCHANGED <<ids, lost, stale, faults>>
  BY DEF Deleted, Handling, Handled, bodyVars
<1>3. \A x \in Res : StillDue(x)' <=> StillDue(x) /\ x # r
  BY <1>1, <1>2 DEF StillDue, TypeOK
<1>4. FinallyInv'
  BY <1>2, <1>3 DEF Order, FinallyInv, IdsOf, TypeOK
<1>. QED
  BY <1>2, <1>4 DEF Order, BodyInv, QuietCleanupLeavesNothing,
                    QuietCleanupDeletesNoted, QuietCleanup, Terminal

\* With correct lists nothing is refused but an interface that is not there;
\* with leaked resources (lost) only one of the Built is, and by then every loop
\* of the others is over.
LEMMA RefusedOrder ==
  ASSUME TypeOK, Order, NEW r \in Res, Refused(r)
  PROVE  Order'
<1>1. /\ phase = "finally" /\ r \in todo /\ r \in ids
      /\ StageOf(Kind[r]) = stage
  BY OneStagePerKind
  DEF Refused, Handling, Order, FinallyInv, IdsOf, TypeOK
<1>2. StillDue(r)
  BY <1>1 DEF StillDue
<1>3. UNCHANGED <<ids, lost, stale, faults, cloud>>
  BY DEF Refused, bodyVars
<1>4. CASE stale # {} \/ faults # 0
  <2>1. phase' \in {"finally", "returned", "raised"}
    BY <1>1 DEF Refused, Failed, Handled
  <2>2. todo' \subseteq IdsOf(Stages[stage])'
    BY <1>1, FailedTodo DEF Refused, bodyVars, Order, FinallyInv
  <2>. QED
    BY <1>1, <1>3, <1>4, <2>1, <2>2
    DEF Order, BodyInv, FinallyInv, IdsOf, QuietCleanupLeavesNothing,
        QuietCleanupDeletesNoted, QuietCleanup, Terminal
<1>5. CASE stale = {} /\ faults = 0 /\ r \notin cloud
  <2>1. Kind[r] = "interface"
    BY <1>1, <1>2, <1>5 DEF Order, FinallyInv, Refused, MissingIsHarmless
  <2>2. phase' = phase /\ Handled(r)
    BY <2>1 DEF Refused, Failed, OnFailure, Handled
  <2>3. \A x \in Res : StillDue(x)' <=> StillDue(x) /\ x # r
    BY <1>1, <2>2 DEF StillDue, Handled, TypeOK
  <2>4. FinallyInv'
    BY <1>1, <1>3, <1>5, <2>2, <2>3 DEF Order, FinallyInv, Handled, IdsOf, TypeOK
  <2>. QED
    BY <1>1, <1>3, <2>2, <2>4
    DEF Order, BodyInv, QuietCleanupLeavesNothing, QuietCleanupDeletesNoted,
        QuietCleanup, Terminal
<1>6. CASE stale = {} /\ faults = 0 /\ r \in cloud
  <2>1. r \in cloud /\ Pinned(r)
    BY <1>6 DEF Refused
  <2>2. Kind[r] \in Built /\ \E x \in cloud : StageOf(Kind[x]) < stage
    BY <1>1, <2>1, PinnedIsBuilt
  <2>3. stage >= StageOf("interface")
    BY <1>1, <2>2, StageFacts DEF Built
  <2>4. \A x \in Res : StageOf(Kind[x]) \in 1..12 /\ Kind[x] \in Kinds
    BY StageOfKind, KindAssumption
  <2>5. \A x \in Res : StageOf(Kind[x]) < stage => ~StillDue(x)
    BY <2>4 DEF StillDue, TypeOK
  <2>6. lost # {}
    BY <1>1, <1>6, <2>2, <2>5 DEF Order, FinallyInv, TypeOK
  <2>7. \A x \in Res : Kind[x] \notin Built /\ Kind[x] # "stack"
                         => StageOf(Kind[x]) < stage
    <3>1. \A k \in Kinds : k \notin Built /\ k # "stack"
                             => StageOf(k) < StageOf("interface")
      BY StageFacts DEF Kinds, Stages, Built
    <3>. QED
      BY <2>3, <2>4, <3>1, StageFacts DEF TypeOK
  <2>8. \A x \in ids \cap cloud : Kind[x] \in Built \/ Kind[x] = "stack"
    BY <1>1, <1>6, <2>5, <2>7 DEF Order, FinallyInv, TypeOK
  <2>9. CASE /\ stage' = StageOf("stack") /\ todo' = IdsOf("stack")
             /\ phase' = phase
    <3>1. \A x \in Res : StillDue(x)' <=> Kind[x] = "stack" /\ x \in ids
      BY <1>3, <2>4, <2>9, StageOfKind, StageFacts DEF StillDue, IdsOf
    <3>2. todo' \subseteq IdsOf(Stages[stage])'
      BY <1>3, <2>9, StageFacts DEF IdsOf, Stages
    <3>3. FinallyInv'
      BY <1>1, <1>3, <2>6, <2>8, <2>9, <3>1, <3>2
      DEF Order, FinallyInv, MissingIsHarmless, MissingIsFine, TypeOK
    <3>. QED
      BY <1>1, <1>3, <2>9, <3>3
      DEF Order, BodyInv, QuietCleanupLeavesNothing, QuietCleanupDeletesNoted,
          QuietCleanup, Terminal
  <2>10. CASE phase' = phase /\ Handled(r)
    <3>1. \A x \in Res : StillDue(x)' <=> StillDue(x) /\ x # r
      BY <1>1, <2>10 DEF StillDue, Handled, TypeOK
    <3>2. FinallyInv'
      BY <1>1, <1>3, <2>2, <2>6, <2>10, <3>1
      DEF Order, FinallyInv, Handled, IdsOf, TypeOK
    <3>. QED
      BY <1>1, <1>3, <2>10, <3>2
      DEF Order, BodyInv, QuietCleanupLeavesNothing, QuietCleanupDeletesNoted,
          QuietCleanup, Terminal
  <2>. QED
    BY <2>2, <2>9, <2>10 DEF Refused, Failed, Handled, OnFailure, Built
<1>. QED
  BY <1>4, <1>5, <1>6

\* What is deleted slowly no list needs to find again.
LEMMA NovaOrder ==
  ASSUME TypeOK, NovaInv, Order, NEW r \in Res, CloudDeletes(r)
  PROVE  Order'
<1>1. Kind[r] \in MissingIsHarmless
  BY DEF CloudDeletes, NovaInv, MissingIsHarmless, MissingIsFine, Slow
<1>2. UNCHANGED <<ids, phase, stage, todo, lost, stale, faults>>
      /\ cloud' = cloud \ {r}
  BY DEF CloudDeletes, bodyVars
<1>3. \A x : StillDue(x)' <=> StillDue(x)
  BY <1>2 DEF StillDue
<1>. QED
  BY <1>1, <1>2, <1>3
  DEF Order, BodyInv, FinallyInv, IdsOf, QuietCleanupLeavesNothing,
      QuietCleanupDeletesNoted, QuietCleanup, Terminal

-----------------------------------------------------------------------------
\* Nova deletes instances and heat stacks, nothing else.
LEMMA NovaStep == NovaInv /\ [Next]_vars => NovaInv'
<1>. SUFFICES ASSUME NovaInv, [Next]_vars PROVE NovaInv'
  OBVIOUS
<1>1. ASSUME NEW r, \/ Adopt(r) \/ MakeOk(r) \/ MakeYieldsNone(r)
                     \/ MakeRaises(r) \/ Delete(r) \/ DeleteRaises(r)
      PROVE  NovaInv'
  BY <1>1 DEF NovaInv, Adopt, MakeOk, MakeYieldsNone, MakeRaises, Delete, DeleteRaises
<1>2. CASE \/ Record \/ Forget \/ Call \/ CallRaises \/ GiveUp \/ BodyEnds
            \/ NextStage
  BY <1>2 DEF NovaInv, Record, Forget, Call, CallRaises, GiveUp, BodyEnds,
              NextStage
<1>3. ASSUME NEW r, \/ Deleted(r) \/ Accepted(r)
                     \/ WaitTimesOut(r) \/ WaitRaises(r) \/ Refused(r)
                     \/ CallFails(r) \/ CloudDeletes(r)
      PROVE  NovaInv'
  BY <1>3 DEF NovaInv, Deleted, Accepted, WaitTimesOut, WaitRaises, Refused,
              CallFails, CloudDeletes
<1>4. CASE UNCHANGED vars
  BY <1>4 DEF NovaInv, vars
<1>. QED
  BY <1>1, <1>2, <1>3, <1>4 DEF Next, Body, Cleanup, Done

\* Every step keeps the order of the cleanup.
LEMMA OrderStep == TypeOK /\ NovaInv /\ Order /\ [Next]_vars => Order'
<1>. SUFFICES ASSUME TypeOK, NovaInv, Order, [Next]_vars PROVE Order'
  OBVIOUS
<1>0. AtHand \subseteq Res /\ todo \subseteq Res /\ deleting \subseteq Res
  BY StepResources DEF TypeOK
<1>1. ASSUME NEW r \in Res,
             Adopt(r) \/ MakeOk(r) \/ MakeYieldsNone(r) \/ Delete(r)
      PROVE  Order'
  BY <1>1, AdvanceOrder DEF Adopt, MakeOk, MakeYieldsNone, Delete, At, InBody
<1>2. ASSUME NEW r \in Res, MakeRaises(r) \/ DeleteRaises(r)
      PROVE  Order'
  BY <1>2, RaiseOrder DEF MakeRaises, DeleteRaises, At, InBody
<1>3. CASE Record \/ Forget \/ Call
  BY <1>3, AdvanceOrder DEF Record, Forget, Call, At, InBody
<1>4. CASE CallRaises
  BY <1>4, RaiseOrder DEF CallRaises, At, InBody
<1>5. CASE BodyEnds
  BY <1>5, EnterOrder DEF BodyEnds, Order, BodyInv
<1>6. CASE NextStage
  BY <1>6, NextStageOrder
<1>7. ASSUME NEW r \in Res, Deleted(r) PROVE Order'
  BY <1>7, DeletedOrder
<1>8. ASSUME NEW r \in Res, Accepted(r) PROVE Order'
  BY <1>8 DEF Accepted, Handling, bodyVars, Order, BodyInv, FinallyInv,
              StillDue, IdsOf, QuietCleanupLeavesNothing,
              QuietCleanupDeletesNoted, QuietCleanup, Terminal
<1>9. ASSUME NEW r \in Res, WaitTimesOut(r) PROVE Order'
  <2>1. faults' >= 1 /\ faults' \in Nat
    BY <1>9, MaxFaultsAssumption DEF WaitTimesOut, CountFault, TypeOK
  <2>. QED
    BY <1>9, <2>1, FaultOrder
    DEF WaitTimesOut, Handling, Handled, IdsOf, bodyVars, Order, FinallyInv
<1>10. ASSUME NEW r \in Res, Refused(r) PROVE Order'
  BY <1>10, RefusedOrder
<1>11. ASSUME NEW r \in Res, CallFails(r) PROVE Order'
  <2>1. faults' >= 1 /\ faults' \in Nat
    BY <1>11, MaxFaultsAssumption DEF CallFails, CountFault, TypeOK
  <2>. QED
    <3>1. todo \subseteq IdsOf(Stages[stage])
      BY <1>11 DEF CallFails, Handling, Order, FinallyInv
    <3>2. todo' \subseteq IdsOf(Stages[stage])'
      BY <1>11, <3>1, FailedTodo DEF CallFails, bodyVars
    <3>3. phase = "finally" /\ phase' \in {"finally", "raised"}
      BY <1>11 DEF CallFails, Handling, Failed, Handled
    <3>. QED
      BY <1>11, <2>1, <3>2, <3>3, FaultOrder DEF CallFails, bodyVars
<1>12. ASSUME NEW r \in Res, CloudDeletes(r) PROVE Order'
  BY <1>12, NovaOrder
<1>13. CASE GiveUp
  BY <1>13 DEF GiveUp, At, InBody, Order, BodyInv, FinallyInv, QuietCleanup,
               QuietCleanupLeavesNothing, QuietCleanupDeletesNoted, Terminal
<1>14. ASSUME NEW r \in Res, WaitRaises(r) PROVE Order'
  <2>1. faults' >= 1 /\ faults' \in Nat
    BY <1>14, MaxFaultsAssumption DEF WaitRaises, CountFault, TypeOK
  <2>. QED
    BY <1>14, <2>1, FaultOrder DEF WaitRaises, Handling, bodyVars
<1>15. CASE UNCHANGED vars
  BY <1>15 DEF vars, Order, BodyInv, FinallyInv, StillDue, IdsOf,
               QuietCleanupLeavesNothing, QuietCleanupDeletesNoted,
               QuietCleanup, Terminal
<1>. QED
  BY <1>0, <1>1, <1>2, <1>3, <1>4, <1>5, <1>6, <1>7, <1>8, <1>9, <1>10, <1>11,
     <1>12, <1>13, <1>14, <1>15
  DEF Next, Body, Cleanup, Done

-----------------------------------------------------------------------------
\* The step the body is at.
LEMMA StepAtHand ==
  ASSUME TypeOK, InBody
  PROVE  /\ pos \in DOMAIN Script[tc] /\ DOMAIN Script[tc] = 1..Len(Script[tc])
         /\ Script[tc][pos] \in Step
<1>1. pos \in 1..Len(Script[tc]) /\ Script[tc] \in Seq(Step)
  BY ScriptAssumption DEF TypeOK, InBody
<1>. QED
  BY <1>1

\* What has left the body does not touch what Notes speaks of.
LEMMA AfterBodyNotes ==
  ASSUME Notes, phase # "body", phase' # "body", UNCHANGED bodyVars
  PROVE  Notes'
BY DEF Notes, NotedInv, SettledInv, NormalBodyNotesAll, bodyVars

\* A body that an exception or a return ends has not run to its end.
LEMMA BrokenOffNotes ==
  ASSUME TypeOK, Notes, InBody, phase' # "body", UNCHANGED <<tc, pos, left>>
  PROVE  Notes'
<1>1. ~(pos' > Len(Script[tc']))
  BY StepAtHand
<1>. QED
  BY <1>1 DEF Notes, NotedInv, SettledInv, NormalBodyNotesAll

LEMMA RaiseNotes ==
  ASSUME TypeOK, Notes, InBody, Raise
  PROVE  Notes'
<1>1. phase' # "body" /\ UNCHANGED <<tc, pos, left>>
  BY DEF Raise, EnterFinally
<1>. QED
  BY <1>1, BrokenOffNotes

\* A step of the body that goes on: what it may do to the lists and the cloud
\* for the notes to stay right.
LEMMA AdvanceNotes ==
  ASSUME TypeOK, Notes, InBody, Advance, ids' \subseteq Res,
         \A r \in cloud' \ cloud : Script[tc][pos].op \in Makes /\ r \in Script[tc][pos].res,
         \A r \in ids \ ids' : r \in Mentioned(tc, {"forget"}),
         \A r \in Res : NotesForGood(tc, pos, r)
                          /\ (r \in cloud' \/ Kind[r] \in NotedBlind) => r \in ids',
         \A r \in ids' \ (ids \cup cloud') :
           Kind[r] \notin MissingIsHarmless => Doubtful(tc, pos, r) /\ r \in Script[tc][pos].res,
         \A r \in cloud \ cloud' :
           Kind[r] \notin MissingIsHarmless => Doubtful(tc, pos, r) /\ r \in Script[tc][pos].res,
         \A r \in ids' \ cloud' : ~Settles(tc, pos, r)
  PROVE  Notes'
<1>1. /\ phase = "body" /\ phase' = "body" /\ tc' = tc /\ left' = left
      /\ pos' = pos + 1
  BY DEF Advance, InBody
<1>2. /\ pos \in DOMAIN Script[tc] /\ DOMAIN Script[tc] = 1..Len(Script[tc])
      /\ pos \in Nat /\ tc \in Testcase
  BY StepAtHand DEF TypeOK
<1>3. NotedInv'
  <2>. SUFFICES ASSUME NEW r \in Res, NEW i \in DOMAIN Script[tc], i < pos + 1,
                       NotesForGood(tc, i, r), r \in cloud' \/ Kind[r] \in NotedBlind
                PROVE  r \in ids'
    BY <1>1 DEF NotedInv
  <2>1. CASE i = pos
    BY <2>1
  <2>2. CASE i < pos
    <3>1. r \in cloud \/ Kind[r] \in NotedBlind
      <4>1. Kind[r] \in NotedBlind \/ ~(r \in Script[tc][pos].res
                                        /\ Script[tc][pos].op \in Makes)
        BY <1>2, <2>2 DEF NotesForGood
      <4>. QED
        BY <4>1
    <3>2. r \in ids
      BY <1>1, <2>2, <3>1 DEF Notes, NotedInv
    <3>. QED
      BY <3>2 DEF NotesForGood
  <2>. QED
    BY <1>2, <2>1, <2>2
<1>4. SettledInv'
  <2>. SUFFICES ASSUME NEW r \in ids' \ cloud', Kind[r] \notin MissingIsHarmless
                PROVE  \E j \in DOMAIN Script[tc] : j >= pos + 1 /\ Settles(tc, j, r)
    BY <1>1 DEF SettledInv
  <2>1. CASE r \in ids /\ r \notin cloud
    <3>1. PICK j \in DOMAIN Script[tc] : j >= pos /\ Settles(tc, j, r)
      BY <1>1, <2>1 DEF Notes, SettledInv
    <3>2. j # pos
      BY <3>1
    <3>. QED
      BY <1>2, <3>1, <3>2
  <2>2. CASE ~(r \in ids /\ r \notin cloud)
    <3>1. Doubtful(tc, pos, r) /\ r \in Script[tc][pos].res
      BY <2>2
    <3>2. \E j \in DOMAIN Script[tc] : j > pos /\ Settles(tc, j, r)
      BY <1>2, <3>1, DisciplineAssumption
    <3>. QED
      BY <1>2, <3>2
  <2>. QED
    BY <2>1, <2>2
<1>. QED
  BY <1>1, <1>3, <1>4 DEF Notes, NormalBodyNotesAll

\* What is found or made.
LEMMA MakeNotes ==
  ASSUME TypeOK, Notes, NEW r \in Res, Adopt(r) \/ MakeOk(r) \/ MakeYieldsNone(r)
  PROVE  Notes'
<1>1. /\ InBody /\ Advance /\ ids' = ids
      /\ Script[tc][pos].op \in Makes /\ r \in Script[tc][pos].res
      /\ cloud \subseteq cloud' /\ cloud' \subseteq cloud \cup {r}
  BY DEF Adopt, MakeOk, MakeYieldsNone, At, Makes
<1>2. \A x : ~NotesForGood(tc, pos, x)
  BY <1>1 DEF NotesForGood, Makes
<1>3. ASSUME NEW x \in ids' \ cloud', Settles(tc, pos, x) PROVE FALSE
  <2>1. Script[tc][pos].op = "make"
    BY <1>1, <1>3 DEF Settles, Makes
  <2>2. x \in Needs[tc][r] /\ \A L \in Leftovers[tc] : r \notin L
    BY <1>1, <1>3, <2>1 DEF Settles
  <2>3. ~Found(r)
    BY <2>1, <2>2 DEF Found, At, Notes
  <2>4. MakeOk(r)
    BY <2>1, <2>3 DEF Adopt, MakeYieldsNone, At
  <2>. QED
    BY <1>3, <2>2, <2>4 DEF MakeOk
<1>. QED
  BY <1>1, <1>2, <1>3, AdvanceNotes DEF TypeOK

\* What is deleted has a settling step ahead, or is harmless to note.
LEMMA DeleteNotes ==
  ASSUME TypeOK, Notes, NEW r \in Res, Delete(r)
  PROVE  Notes'
<1>1. /\ InBody /\ Advance /\ ids' = ids
      /\ Script[tc][pos].op = "delete" /\ r \in Script[tc][pos].res
      /\ cloud' \subseteq cloud /\ cloud \ {r} \subseteq cloud'
  BY DEF Delete, At
<1>2. \A x : ~NotesForGood(tc, pos, x) /\ ~Settles(tc, pos, x)
  BY <1>1 DEF NotesForGood, Settles
<1>3. Kind[r] \notin MissingIsHarmless => Doubtful(tc, pos, r)
  BY <1>1 DEF Doubtful
<1>. QED
  BY <1>1, <1>2, <1>3, AdvanceNotes DEF TypeOK

\* What is noted exists, is noted blind, or both.
LEMMA RecordNotes ==
  ASSUME TypeOK, Notes, Record
  PROVE  Notes'
<1>1. /\ InBody /\ Advance /\ cloud' = cloud
      /\ Script[tc][pos].op = "record"
      /\ ids' = ids \cup {r \in Script[tc][pos].res :
                            r \in cloud \/ Kind[r] \in NotedBlind}
  BY DEF Record, At
<1>2. ids' \subseteq Res
  BY <1>1, StepResources DEF AtHand, TypeOK
<1>3. \A x : ~Settles(tc, pos, x)
  BY <1>1 DEF Settles
<1>4. \A x \in Res : NotesForGood(tc, pos, x)
                       /\ (x \in cloud' \/ Kind[x] \in NotedBlind) => x \in ids'
  BY <1>1 DEF NotesForGood
<1>5. \A x \in ids' \ (ids \cup cloud') :
        Kind[x] \notin MissingIsHarmless => Doubtful(tc, pos, x) /\ x \in Script[tc][pos].res
  BY <1>1 DEF Doubtful
<1>. QED
  BY <1>1, <1>2, <1>3, <1>4, <1>5, AdvanceNotes

\* What is forgotten is no longer noted.
LEMMA ForgetNotes ==
  ASSUME TypeOK, Notes, Forget
  PROVE  Notes'
<1>1. /\ InBody /\ Advance /\ cloud' = cloud
      /\ Script[tc][pos].op = "forget"
      /\ ids' = ids \ Script[tc][pos].res
  BY DEF Forget, At
<1>2. pos \in DOMAIN Script[tc]
  BY <1>1, StepAtHand
<1>3. \A x : ~NotesForGood(tc, pos, x)
  BY <1>1 DEF NotesForGood
<1>4. \A x \in ids' \ cloud' : ~Settles(tc, pos, x)
  BY <1>1 DEF Settles
<1>5. \A x \in ids \ ids' : x \in Mentioned(tc, {"forget"})
  <2>1. Script[tc][pos].res \subseteq Mentioned(tc, {"forget"})
    BY <1>1, <1>2 DEF Mentioned
  <2>. QED
    BY <1>1, <2>1
<1>. QED
  BY <1>1, <1>3, <1>4, <1>5, AdvanceNotes DEF TypeOK

LEMMA CallNotes ==
  ASSUME TypeOK, Notes, Call
  PROVE  Notes'
<1>1. /\ InBody /\ Advance /\ cloud' = cloud /\ ids' = ids
      /\ Script[tc][pos].op \in {"call", "check", "give_up"}
  BY DEF Call, At
<1>2. \A x : ~NotesForGood(tc, pos, x) /\ ~Settles(tc, pos, x)
  BY <1>1 DEF NotesForGood, Settles
<1>. QED
  BY <1>1, <1>2, AdvanceNotes DEF TypeOK

\* The end of the body: nothing is left to be settled, and all it made and did
\* not delete is noted for good.
LEMMA EndNotes ==
  ASSUME TypeOK, Notes, BodyEnds
  PROVE  Notes'
<1>1. /\ phase = "body" /\ phase' = "finally" /\ pos > Len(Script[tc])
      /\ UNCHANGED <<tc, pos, left, cloud, ids>>
      /\ lost' = cloud \ ids
      /\ stale' = {r \in ids \ cloud : Kind[r] \notin MissingIsHarmless}
  BY DEF BodyEnds, EnterFinally
<1>2. DOMAIN Script[tc] = 1..Len(Script[tc]) /\ Len(Script[tc]) \in Nat /\ pos \in Nat
      /\ tc \in Testcase
  BY ScriptAssumption DEF TypeOK
<1>3. \A j \in DOMAIN Script[tc] : j < pos /\ ~(j >= pos)
  BY <1>1, <1>2
<1>4. stale' = {}
  <2>1. \A r \in ids \ cloud : Kind[r] \in MissingIsHarmless
    BY <1>1, <1>3 DEF Notes, SettledInv
  <2>. QED
    BY <1>1, <2>1
<1>5. lost' \cap Mentioned(tc, Makes) \subseteq Mentioned(tc, {"delete"})
  <2>. SUFFICES ASSUME NEW r \in cloud \ ids, r \in Mentioned(tc, Makes),
                       r \notin Mentioned(tc, {"delete"})
                PROVE  FALSE
    BY <1>1
  <2>1. PICK i \in DOMAIN Script[tc] : NotesForGood(tc, i, r)
    BY <1>2, DisciplineAssumption
  <2>2. r \in Res
    BY DEF TypeOK
  <2>. QED
    BY <1>1, <1>3, <2>1, <2>2 DEF Notes, NotedInv
<1>. QED
  BY <1>1, <1>4, <1>5 DEF Notes, NotedInv, SettledInv, NormalBodyNotesAll

\* Nova and heat delete only what is harmless to note.
LEMMA NovaNotes ==
  ASSUME TypeOK, NovaInv, Notes, NEW r \in Res, CloudDeletes(r)
  PROVE  Notes'
<1>1. /\ UNCHANGED <<tc, pos, left, ids, lost, stale, phase>>
      /\ cloud' = cloud \ {r}
  BY DEF CloudDeletes, bodyVars
<1>2. Kind[r] \in MissingIsHarmless
  BY DEF CloudDeletes, NovaInv, MissingIsHarmless, MissingIsFine, Slow
<1>. QED
  BY <1>1, <1>2 DEF Notes, NotedInv, SettledInv, NormalBodyNotesAll

\* Every step keeps the notes right.
LEMMA NotesStep == TypeOK /\ NovaInv /\ Notes /\ [Next]_vars => Notes'
<1>. SUFFICES ASSUME TypeOK, NovaInv, Notes, [Next]_vars PROVE Notes'
  OBVIOUS
<1>0. AtHand \subseteq Res /\ todo \subseteq Res /\ deleting \subseteq Res
  BY StepResources DEF TypeOK
<1>1. ASSUME NEW r \in Res, Adopt(r) \/ MakeOk(r) \/ MakeYieldsNone(r)
      PROVE  Notes'
  BY <1>1, MakeNotes
<1>2. ASSUME NEW r \in Res, Delete(r) PROVE Notes'
  BY <1>2, DeleteNotes
<1>3. ASSUME NEW r \in Res, MakeRaises(r) \/ DeleteRaises(r)
      PROVE  Notes'
  BY <1>3, RaiseNotes DEF MakeRaises, DeleteRaises, At
<1>4. CASE Record
  BY <1>4, RecordNotes
<1>5. CASE Forget
  BY <1>5, ForgetNotes
<1>6. CASE Call
  BY <1>6, CallNotes
<1>7. CASE CallRaises
  BY <1>7, RaiseNotes DEF CallRaises, At
<1>8. CASE GiveUp
  BY <1>8, BrokenOffNotes DEF GiveUp, At
<1>9. CASE BodyEnds
  BY <1>9, EndNotes
<1>10. CASE NextStage
  BY <1>10, AfterBodyNotes DEF NextStage, Leave
<1>11. ASSUME NEW r \in Res, \/ Deleted(r) \/ Accepted(r) \/ WaitTimesOut(r)
                             \/ WaitRaises(r) \/ Refused(r) \/ CallFails(r)
       PROVE  Notes'
  <2>1. phase = "finally" /\ phase' \in {"finally", "raised"} /\ UNCHANGED bodyVars
    BY <1>11 DEF Deleted, Accepted, WaitTimesOut, WaitRaises, Refused,
                 CallFails, Handling, Handled, Failed
  <2>. QED
    BY <2>1, AfterBodyNotes
<1>12. ASSUME NEW r \in Res, CloudDeletes(r) PROVE Notes'
  BY <1>12, NovaNotes
<1>13. CASE UNCHANGED vars
  BY <1>13 DEF vars, Notes, NotedInv, SettledInv, NormalBodyNotesAll
<1>. QED
  BY <1>0, <1>1, <1>2, <1>3, <1>4, <1>5, <1>6, <1>7, <1>8, <1>9, <1>10, <1>11,
     <1>12, <1>13
  DEF Next, Body, Cleanup, Done

-----------------------------------------------------------------------------
\* IInv is inductive and holds from the start.
LEMMA Inductive == Spec => []IInv
<1>1. Init => IInv
  <2>. SUFFICES ASSUME Init PROVE IInv
    OBVIOUS
  <2>1. TypeOK
    <3>1. exc \in BOOLEAN
      BY DEF Init
    <3>2. stage \in 1..Len(Stages) /\ faults \in 0..MaxFaults
      BY StageFacts, MaxFaultsAssumption DEF Init
    <3>3. left \subseteq Res /\ cloud \subseteq Res
      BY LeftoversAssumption DEF Init
    <3>. QED
      BY <3>1, <3>2, <3>3 DEF Init, TypeOK
  <2>2. NovaInv
    BY DEF Init, NovaInv
  <2>3. Order
    BY DEF Init, Order, BodyInv, FinallyInv, QuietCleanup, Terminal,
           QuietCleanupLeavesNothing, QuietCleanupDeletesNoted
  <2>4. Notes
    <3>1. tc \in Testcase /\ Script[tc] \in Seq(Step) /\ pos = 1
      BY ScriptAssumption DEF Init
    <3>2. \A i \in DOMAIN Script[tc] : ~(i < pos)
      BY <3>1
    <3>. QED
      BY <3>2 DEF Init, Notes, NotedInv, SettledInv, NormalBodyNotesAll
  <2>. QED
    BY <2>1, <2>2, <2>3, <2>4 DEF IInv
<1>2. IInv /\ [Next]_vars => IInv'
  BY TypeStep, NovaStep, OrderStep, NotesStep DEF IInv
<1>. QED
  BY <1>1, <1>2, PTL DEF Spec

\* Every variable of a testcase keeps its type, in the body and the cleanup.
THEOREM TypeCorrect == Spec => []TypeOK
<1>1. IInv => TypeOK
  BY DEF IInv
<1>. QED
  BY Inductive, <1>1, PTL

\* A cleanup OpenStack did not fail leaves nothing behind when the lists were
\* right, whatever the script and whatever is built on what, as long as
\* the loops of the finally respect the building order (OrderAssumption).
THEOREM CleanupLeavesNothing == Spec => []QuietCleanupLeavesNothing
<1>1. IInv => QuietCleanupLeavesNothing
  BY DEF IInv, Order
<1>. QED
  BY Inductive, <1>1, PTL

\* What the body lost can keep only interfaces, subnets, routers and
\* networks of ours from being deleted.
THEOREM CleanupDeletesNoted == Spec => []QuietCleanupDeletesNoted
<1>1. IInv => QuietCleanupDeletesNoted
  BY DEF IInv, Order
<1>. QED
  BY Inductive, <1>1, PTL

\* A body that runs to its end has noted what it made, and nothing that would
\* end a loop of the cleanup, whatever was left, found, made or refused, for
\* every script that keeps DisciplineAssumption.
THEOREM BodyNotesAll == Spec => []NormalBodyNotesAll
<1>1. IInv => NormalBodyNotesAll
  BY DEF IInv, Notes
<1>. QED
  BY Inductive, <1>1, PTL

\* No deletion is refused for something that still stands on a resource, at any
\* moment of a cleanup whose lists are right.
THEOREM NothingInTheWay == Spec => RefusedOnlyUnjoined
<1>1. ASSUME IInv, lost = {}, stale = {}, faults = 0,
             NEW r \in todo, Refused(r)
      PROVE  r \notin cloud /\ Kind[r] = "interface"
  <2>1. /\ phase = "finally" /\ r \in Res /\ StillDue(r)
        /\ StageOf(Kind[r]) = stage /\ r \in ids
    BY <1>1, OneStagePerKind
    DEF Refused, Handling, IInv, Order, FinallyInv, IdsOf, StillDue, TypeOK
  <2>2. ASSUME Pinned(r) PROVE FALSE
    <3>1. PICK x \in cloud : StageOf(Kind[x]) < stage
      BY <1>1, <2>1, <2>2, PinnedIsBuilt DEF IInv
    <3>2. StillDue(x)
      BY <1>1, <2>1, <3>1 DEF IInv, Order, FinallyInv
    <3>3. StageOf(Kind[x]) \in 1..12 /\ stage \in Nat
      BY <1>1, <3>1, StageOfKind, KindAssumption DEF IInv, TypeOK
    <3>. QED
      BY <3>1, <3>2, <3>3 DEF StillDue
  <2>3. r \notin cloud /\ Kind[r] \notin MissingIsFine
    BY <1>1, <2>2 DEF Refused
  <2>4. Kind[r] \in MissingIsHarmless
    BY <1>1, <2>1, <2>3 DEF IInv, Order, FinallyInv
  <2>. QED
    BY <2>3, <2>4 DEF MissingIsHarmless
<1>2. IInv => [lost = {} /\ stale = {} /\ faults = 0 =>
                 \A r \in todo : Refused(r) =>
                   r \notin cloud /\ Kind[r] = "interface"]_vars
  BY <1>1
<1>. QED
  BY <1>2, Inductive, PTL DEF RefusedOnlyUnjoined
=============================================================================
