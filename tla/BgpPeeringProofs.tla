--------------------------- MODULE BgpPeeringProofs ---------------------------
(***************************************************************************)
(* testcase_3 for every number of OpenDaylight nodes, polls, moves of the  *)
(* owner and executions.                                                   *)
(*                                                                         *)
(* What the finally takes back is decided by the locals fake_fip and       *)
(* quagga_vm, so these have to tell of everything that was added (Added);  *)
(* once it is past a step, what this step deletes is gone for good or a    *)
(* command was lost (Gone).  That a report is this execution's rests on    *)
(* the finally of the ones before (Clean); that the waits report what they *)
(* saw, on what the polls noted at each step of main (Waits).              *)
(***************************************************************************)
EXTENDS BgpPeering, TLAPS

\* setup is the 5th step of main, boot the 6th, detach the 13th (lemma Places).
Added ==
  /\ pc \in 6..12 => local.fake_fip
  /\ pc \in 7..12 => local.quagga_vm
  /\ attached \subseteq 1..run /\ odl.neighbors \subseteq 1..run
  /\ run \in attached => local.quagga_vm
  /\ run \in odl.neighbors => local.fake_fip

Gone ==
  /\ pc > 13 /\ ~lost => run \notin attached
  /\ pc > 15 /\ ~lost => run \notin odl.neighbors
  /\ pc > 16 /\ ~lost => ~odl.server
  /\ pc > 17 /\ ~lost => ~odl.connect

Clean ==
  /\ ~dirty => odl.neighbors \subseteq {run} /\ answers.peers \subseteq {run}
  /\ said["peering"] = "PASS" \/ established => answers.peers # {}

\* cloud_init is the 8th step, peering the 10th.
Waits ==
  /\ pc <= 8 => said["bootstrap"] = "none" /\ ~answers.boot
  /\ said["bootstrap"] # "none" => ((said["bootstrap"] = "PASS") <=> answers.boot)
  /\ pc < 10 => ~established /\ answers.peers = {}
  /\ pc = 10 => (established <=> answers.peers # {})
  /\ pc = 11 => ((said["peering"] = "PASS") <=> (neighbor /\ answers.peers # {}))

CloudType ==
  /\ owner \in OdlNode /\ moves \in 0..MaxMoves
  /\ odl \in [connect : BOOLEAN, server : BOOLEAN, neighbors : SUBSET Run]
  /\ quagga \in [Run -> {"none", "booting", "ready", "broken"}]
  /\ attached \subseteq Run

ControlType ==
  /\ run \in Run /\ pc \in 1..18
  /\ status \in {"running", "returned", "raised"} /\ exc \in BOOLEAN

LocalType ==
  /\ odl_node \in OdlNode \cup {Nobody}
  /\ local \in [fake_fip : BOOLEAN, quagga_vm : BOOLEAN, compute : BOOLEAN]
  /\ tries \in Nat /\ neighbor \in BOOLEAN /\ established \in BOOLEAN
  /\ said \in [Checks -> {"none", "PASS", "FAIL"}]
  /\ answers \in [boot : BOOLEAN, peers : SUBSET Run]
  /\ lost \in BOOLEAN /\ dirty \in BOOLEAN

IInv == CloudType /\ ControlType /\ LocalType /\ Added /\ Gone /\ Clean /\ Waits

-----------------------------------------------------------------------------
\* The steps of main, by name and by number.
LEMMA Places ==
  /\ DOMAIN Steps = 1..18
  /\ \A i \in 1..18 :
       /\ Steps[i] = "owner" <=> i = 1
       /\ Steps[i] = "connect" <=> i = 2
       /\ Steps[i] = "start" <=> i = 3
       /\ Steps[i] = "bgpd" <=> i = 4
       /\ Steps[i] = "setup" <=> i = 5
       /\ Steps[i] = "boot" <=> i = 6
       /\ Steps[i] = "attach" <=> i = 7
       /\ Steps[i] = "cloud_init" <=> i = 8
       /\ Steps[i] = "add_neighbor" <=> i = 9
       /\ Steps[i] = "peering" <=> i = 10
       /\ Steps[i] = "tunnel" <=> i = 11
       /\ Steps[i] = "fib" <=> i = 12
       /\ Steps[i] = "detach" <=> i = 13
       /\ Steps[i] = "cleanup" <=> i = 14
       /\ Steps[i] = "del_neighbor" <=> i = 15
       /\ Steps[i] = "del_server" <=> i = 16
       /\ Steps[i] = "del_connect" <=> i = 17
       /\ Steps[i] = "end" <=> i = 18
BY DEF Steps

LEMMA TryPlace == TryFrom = 5 /\ FinallyFrom = 13
BY Places DEF TryFrom, FinallyFrom

LEMMA Types == TypeOK <=> CloudType /\ ControlType /\ LocalType
<1>1. ControlType <=> /\ run \in Run /\ pc \in DOMAIN Steps
                      /\ status \in {"running", "returned", "raised"} /\ exc \in BOOLEAN
  <2>1. DOMAIN Steps = 1..18
    BY Places
  <2>. QED
    BY <2>1, Zenon DEF ControlType
<1>2. ASSUME TypeOK PROVE CloudType /\ ControlType /\ LocalType
  <2>1. CloudType
    BY <1>2 DEF TypeOK, CloudType
  <2>2. LocalType
    BY <1>2 DEF TypeOK, LocalType
  <2>. QED
    BY <1>1, <1>2, <2>1, <2>2 DEF TypeOK
<1>3. ASSUME CloudType, ControlType, LocalType PROVE TypeOK
  BY <1>1, <1>3 DEF TypeOK, CloudType, LocalType
<1>. QED
  BY <1>2, <1>3

LEMMA RaiseStep ==
  ASSUME ControlType, Raise
  PROVE  /\ ControlType'
         /\ run' = run
         /\ pc' = pc \/ (pc \in 5..12 /\ pc' = 13)
<1>1. TryFrom..(FinallyFrom - 1) = 5..12 /\ FinallyFrom = 13
  BY TryPlace
<1>2. CASE pc \in 5..12 /\ pc' = 13 /\ exc' = TRUE /\ UNCHANGED <<status, run>>
  BY <1>2 DEF ControlType
<1>3. CASE status' = "raised" /\ UNCHANGED <<pc, exc, run>>
  BY <1>3 DEF ControlType
<1>. QED
  BY <1>1, <1>2, <1>3, Zenon DEF Raise

LEMMA SayStep ==
  ASSUME LocalType, NEW name \in Checks, NEW success \in BOOLEAN, Say(name, success)
  PROVE  /\ said' \in [Checks -> {"none", "PASS", "FAIL"}]
         /\ said'[name] = (IF success THEN "PASS" ELSE "FAIL")
         /\ \A c \in Checks \ {name} : said'[c] = said[c]
BY DEF Say, LocalType

-----------------------------------------------------------------------------

LEMMA ControlTypeStep ==
  ControlType /\ [Next]_vars => ControlType'
<1>. SUFFICES ASSUME ControlType, [Next]_vars PROVE ControlType'
  OBVIOUS
<1>. USE Places DEF At, Advance, Quiet, cloudVars, control, history,
            Run, ControlType
<1>1. CASE FindOwner
  BY <1>1 DEF FindOwner
<1>2. CASE Connect
  BY <1>2 DEF Connect, Tell
<1>3. CASE Start
  BY <1>3 DEF Start, Tell
<1>4. CASE CheckBgpd
  BY <1>4 DEF CheckBgpd
<1>5. CASE Setup
  BY <1>5 DEF Setup
<1>6. CASE Boot
  BY <1>6 DEF Boot
<1>7. CASE Attach
  BY <1>7 DEF Attach, Plug
<1>8. CASE CloudInitUnfinished
  BY <1>8 DEF CloudInitUnfinished
<1>9. CASE CloudInitEnds
  BY <1>9 DEF CloudInitEnds
<1>10. CASE AddNeighbor
  BY <1>10 DEF AddNeighbor, Tell
<1>11. CASE Poll
  BY <1>11 DEF Poll
<1>12. CASE PollsEnd
  BY <1>12 DEF PollsEnd
<1>13. CASE Tunnel
  BY <1>13 DEF Tunnel
<1>14. CASE CheckFib
  BY <1>14 DEF CheckFib
<1>15. CASE Detach
  BY <1>15 DEF Detach, Plug
<1>16. CASE Cleanup
  BY <1>16 DEF Cleanup
<1>17. CASE DelNeighbor
  BY <1>17 DEF DelNeighbor, Tell
<1>18. CASE DelServer
  BY <1>18 DEF DelServer, Tell
<1>19. CASE DelConnect
  BY <1>19 DEF DelConnect, Tell
<1>20. CASE Leave
  BY <1>20 DEF Leave
<1>21. CASE Unbound
  BY <1>21, RaiseStep DEF Unbound
<1>22. CASE Raises
  BY <1>22, RaiseStep DEF Raises
<1>23. CASE \E r \in Run : QuaggaBoots(r)
  BY <1>23 DEF QuaggaBoots
<1>24. CASE OwnerMoves
  BY <1>24 DEF OwnerMoves
<1>25. CASE Rerun
  <2>1. run + 1 \in Run /\ 1 \in 1..18
    BY <1>25, BoundAssumption DEF Rerun
  <2>. QED
    BY <1>25, <2>1 DEF Rerun
<1>26. CASE UNCHANGED vars
  BY <1>26 DEF vars
<1>. QED
  BY <1>1, <1>2, <1>3, <1>4, <1>5, <1>6, <1>7, <1>8, <1>9, <1>10, <1>11,
     <1>12, <1>13, <1>14, <1>15, <1>16, <1>17, <1>18, <1>19, <1>20, <1>21, <1>22,
     <1>23, <1>24, <1>25, <1>26
  DEF Next, Main, Step, Done

LEMMA CloudTypeStep ==
  CloudType /\ ControlType /\ [Next]_vars => CloudType'
<1>. SUFFICES ASSUME CloudType, ControlType, [Next]_vars PROVE CloudType'
  OBVIOUS
<1>. USE DEF At, Advance, Quiet, cloudVars, control, history,
            CloudType, ControlType
<1>1. CASE FindOwner
  BY <1>1 DEF FindOwner
<1>2. CASE Connect
  BY <1>2 DEF Connect, Tell
<1>3. CASE Start
  BY <1>3 DEF Start, Tell
<1>4. CASE CheckBgpd
  BY <1>4 DEF CheckBgpd
<1>5. CASE Setup
  BY <1>5 DEF Setup
<1>6. CASE Boot
  BY <1>6 DEF Boot
<1>7. CASE Attach
  BY <1>7 DEF Attach, Plug
<1>8. CASE CloudInitUnfinished
  BY <1>8 DEF CloudInitUnfinished
<1>9. CASE CloudInitEnds
  BY <1>9 DEF CloudInitEnds
<1>10. CASE AddNeighbor
  BY <1>10 DEF AddNeighbor, Tell
<1>11. CASE Poll
  BY <1>11 DEF Poll
<1>12. CASE PollsEnd
  BY <1>12 DEF PollsEnd
<1>13. CASE Tunnel
  BY <1>13 DEF Tunnel
<1>14. CASE CheckFib
  BY <1>14 DEF CheckFib
<1>15. CASE Detach
  BY <1>15 DEF Detach, Plug
<1>16. CASE Cleanup
  BY <1>16 DEF Cleanup
<1>17. CASE DelNeighbor
  BY <1>17 DEF DelNeighbor, Tell
<1>18. CASE DelServer
  BY <1>18 DEF DelServer, Tell
<1>19. CASE DelConnect
  BY <1>19 DEF DelConnect, Tell
<1>20. CASE Leave
  BY <1>20 DEF Leave
<1>21. CASE Unbound
  BY <1>21 DEF Unbound
<1>22. CASE Raises
  BY <1>22 DEF Raises
<1>23. CASE \E r \in Run : QuaggaBoots(r)
  BY <1>23 DEF QuaggaBoots
<1>24. CASE OwnerMoves
  <2>1. moves + 1 \in 0..MaxMoves
    BY <1>24, BoundAssumption DEF OwnerMoves
  <2>. QED
    BY <1>24, <2>1 DEF OwnerMoves
<1>25. CASE Rerun
  BY <1>25 DEF Rerun
<1>26. CASE UNCHANGED vars
  BY <1>26 DEF vars
<1>. QED
  BY <1>1, <1>2, <1>3, <1>4, <1>5, <1>6, <1>7, <1>8, <1>9, <1>10, <1>11,
     <1>12, <1>13, <1>14, <1>15, <1>16, <1>17, <1>18, <1>19, <1>20, <1>21, <1>22,
     <1>23, <1>24, <1>25, <1>26
  DEF Next, Main, Step, Done

LEMMA LocalTypeStep ==
  LocalType /\ CloudType /\ ControlType /\ [Next]_vars => LocalType'
<1>. SUFFICES ASSUME LocalType, CloudType, ControlType, [Next]_vars PROVE LocalType'
  OBVIOUS
<1>. USE TriesAssumption DEF At, Advance, Quiet, cloudVars, control, history,
            LocalType
<1>1. CASE FindOwner
  <2>1. odl_node' \in OdlNode
    BY <1>1 DEF FindOwner, CloudType
  <2>. QED
    BY <1>1, <2>1 DEF FindOwner
<1>2. CASE Connect
  BY <1>2 DEF Connect, Tell
<1>3. CASE Start
  BY <1>3 DEF Start, Tell
<1>4. CASE CheckBgpd
  BY <1>4 DEF CheckBgpd
<1>5. CASE Setup
  BY <1>5 DEF Setup
<1>6. CASE Boot
  BY <1>6 DEF Boot
<1>7. CASE Attach
  BY <1>7 DEF Attach, Plug
<1>8. CASE CloudInitUnfinished
  BY <1>8 DEF CloudInitUnfinished
<1>9. CASE CloudInitEnds
  <2>1. said' \in [Checks -> {"none", "PASS", "FAIL"}]
    BY <1>9 DEF CloudInitEnds, Say, Checks, Peered, LocalType
  <2>. QED
    BY <1>9, <2>1 DEF CloudInitEnds, LocalType
<1>10. CASE AddNeighbor
  BY <1>10 DEF AddNeighbor, Tell
<1>11. CASE Poll
  <2>1. tries - 1 \in Nat
    BY <1>11 DEF Poll
  <2>2. answers' \in [boot : BOOLEAN, peers : SUBSET Run]
    BY <1>11 DEF Poll
  <2>. QED
    BY <1>11, <2>1, <2>2 DEF Poll
<1>12. CASE PollsEnd
  <2>1. said' \in [Checks -> {"none", "PASS", "FAIL"}]
    BY <1>12 DEF PollsEnd, Say, Checks, Peered, LocalType
  <2>. QED
    BY <1>12, <2>1 DEF PollsEnd, LocalType
<1>13. CASE Tunnel
  BY <1>13 DEF Tunnel
<1>14. CASE CheckFib
  BY <1>14 DEF CheckFib
<1>15. CASE Detach
  BY <1>15 DEF Detach, Plug
<1>16. CASE Cleanup
  BY <1>16 DEF Cleanup
<1>17. CASE DelNeighbor
  BY <1>17 DEF DelNeighbor, Tell
<1>18. CASE DelServer
  BY <1>18 DEF DelServer, Tell
<1>19. CASE DelConnect
  BY <1>19 DEF DelConnect, Tell
<1>20. CASE Leave
  BY <1>20 DEF Leave
<1>21. CASE Unbound
  BY <1>21 DEF Unbound
<1>22. CASE Raises
  BY <1>22 DEF Raises
<1>23. CASE \E r \in Run : QuaggaBoots(r)
  BY <1>23 DEF QuaggaBoots
<1>24. CASE OwnerMoves
  BY <1>24 DEF OwnerMoves
<1>25. CASE Rerun
  BY <1>25 DEF Rerun, NoAnswers, Nothing, NothingSaid
<1>26. CASE UNCHANGED vars
  BY <1>26 DEF vars
<1>. QED
  BY <1>1, <1>2, <1>3, <1>4, <1>5, <1>6, <1>7, <1>8, <1>9, <1>10, <1>11,
     <1>12, <1>13, <1>14, <1>15, <1>16, <1>17, <1>18, <1>19, <1>20, <1>21, <1>22,
     <1>23, <1>24, <1>25, <1>26
  DEF Next, Main, Step, Done

LEMMA AddedStep ==
  CloudType /\ ControlType /\ LocalType /\ Added /\ [Next]_vars => Added'
<1>. SUFFICES ASSUME CloudType, ControlType, LocalType, Added, [Next]_vars PROVE Added'
  OBVIOUS
<1>. USE DEF At, Advance, Quiet, cloudVars, control, history,
            Run, CloudType, ControlType, Added
<1>1. CASE FindOwner
  <2>0. pc = 1
    BY <1>1, Places DEF FindOwner
  <2>. QED
    BY <1>1, <2>0 DEF FindOwner
<1>2. CASE Connect
  <2>0. pc = 2
    BY <1>2, Places DEF Connect, Tell
  <2>. QED
    BY <1>2, <2>0 DEF Connect, Tell
<1>3. CASE Start
  <2>0. pc = 3
    BY <1>3, Places DEF Start, Tell
  <2>. QED
    BY <1>3, <2>0 DEF Start, Tell
<1>4. CASE CheckBgpd
  <2>0. pc = 4
    BY <1>4, Places DEF CheckBgpd
  <2>. QED
    BY <1>4, <2>0 DEF CheckBgpd
<1>5. CASE Setup
  <2>0. pc = 5
    BY <1>5, Places DEF Setup
  <2>1. PICK found \in BOOLEAN :
          local' = [local EXCEPT !.fake_fip = TRUE, !.compute = found]
    BY <1>5 DEF Setup
  <2>2. local'.quagga_vm = local.quagga_vm /\ local'.fake_fip
    BY <2>1 DEF LocalType
  <2>. QED
    BY <1>5, <2>0, <2>2 DEF Setup
<1>6. CASE Boot
  <2>0. pc = 6
    BY <1>6, Places DEF Boot
  <2>1. local'.quagga_vm /\ local'.fake_fip = local.fake_fip
    BY <1>6 DEF Boot, LocalType
  <2>. QED
    BY <1>6, <2>0, <2>1 DEF Boot
<1>7. CASE Attach
  <2>0. pc = 7
    BY <1>7, Places DEF Attach, Plug
  <2>1. run \in 1..run /\ local.quagga_vm
    BY <1>7, <2>0 DEF Attach
  <2>2. attached' \in {attached, attached \cup {run}}
    BY <1>7 DEF Attach, Plug
  <2>3. UNCHANGED <<run, odl, local>> /\ pc' = 8
    BY <1>7, <2>0 DEF Attach, Plug
  <2>. QED
    BY <1>7, <2>0, <2>1, <2>2, <2>3
<1>8. CASE CloudInitUnfinished
  <2>0. pc = 8
    BY <1>8, Places DEF CloudInitUnfinished
  <2>. QED
    BY <1>8, <2>0 DEF CloudInitUnfinished
<1>9. CASE CloudInitEnds
  <2>0. pc = 8
    BY <1>9, Places DEF CloudInitEnds
  <2>. QED
    BY <1>9, <2>0 DEF CloudInitEnds
<1>10. CASE AddNeighbor
  <2>0. pc = 9
    BY <1>10, Places DEF AddNeighbor, Tell
  <2>1. run \in 1..run /\ local.fake_fip
    BY <1>10, <2>0 DEF AddNeighbor, Tell
  <2>. QED
    BY <1>10, <2>0, <2>1 DEF AddNeighbor, Tell
<1>11. CASE Poll
  <2>0. pc = 10
    BY <1>11, Places DEF Poll
  <2>. QED
    BY <1>11, <2>0 DEF Poll
<1>12. CASE PollsEnd
  <2>0. pc = 10
    BY <1>12, Places DEF PollsEnd
  <2>. QED
    BY <1>12, <2>0 DEF PollsEnd
<1>13. CASE Tunnel
  <2>0. pc = 11
    BY <1>13, Places DEF Tunnel
  <2>. QED
    BY <1>13, <2>0 DEF Tunnel
<1>14. CASE CheckFib
  <2>0. pc = 12
    BY <1>14, Places DEF CheckFib
  <2>. QED
    BY <1>14, <2>0 DEF CheckFib
<1>15. CASE Detach
  <2>0. pc = 13
    BY <1>15, Places DEF Detach, Plug
  <2>1. attached' \subseteq attached /\ UNCHANGED <<run, odl, local>> /\ pc' = 14
    BY <1>15, <2>0 DEF Detach, Plug
  <2>. QED
    BY <1>15, <2>0, <2>1
<1>16. CASE Cleanup
  <2>0. pc = 14
    BY <1>16, Places DEF Cleanup
  <2>. QED
    BY <1>16, <2>0 DEF Cleanup
<1>17. CASE DelNeighbor
  <2>0. pc = 15
    BY <1>17, Places DEF DelNeighbor, Tell
  <2>. QED
    BY <1>17, <2>0 DEF DelNeighbor, Tell
<1>18. CASE DelServer
  <2>0. pc = 16
    BY <1>18, Places DEF DelServer, Tell
  <2>. QED
    BY <1>18, <2>0 DEF DelServer, Tell
<1>19. CASE DelConnect
  <2>0. pc = 17
    BY <1>19, Places DEF DelConnect, Tell
  <2>. QED
    BY <1>19, <2>0 DEF DelConnect, Tell
<1>20. CASE Leave
  <2>0. pc = 18
    BY <1>20, Places DEF Leave
  <2>. QED
    BY <1>20, <2>0 DEF Leave
<1>21. CASE Unbound
  BY <1>21, RaiseStep DEF Unbound
<1>22. CASE Raises
  <2>1. /\ local'.quagga_vm = local.quagga_vm
        /\ local.fake_fip => local'.fake_fip
    BY <1>22 DEF Raises, LocalType
  <2>2. UNCHANGED <<run, attached, odl>> /\ (pc' = pc \/ pc' = 13)
    BY <1>22, RaiseStep DEF Raises
  <2>. QED
    BY <2>1, <2>2
<1>23. CASE \E r \in Run : QuaggaBoots(r)
  BY <1>23 DEF QuaggaBoots
<1>24. CASE OwnerMoves
  BY <1>24 DEF OwnerMoves
<1>25. CASE Rerun
  BY <1>25 DEF Rerun
<1>26. CASE UNCHANGED vars
  BY <1>26 DEF vars
<1>. QED
  BY <1>1, <1>2, <1>3, <1>4, <1>5, <1>6, <1>7, <1>8, <1>9, <1>10, <1>11,
     <1>12, <1>13, <1>14, <1>15, <1>16, <1>17, <1>18, <1>19, <1>20, <1>21, <1>22,
     <1>23, <1>24, <1>25, <1>26
  DEF Next, Main, Step, Done

LEMMA GoneStep ==
  CloudType /\ ControlType /\ LocalType /\ Added /\ Gone /\ [Next]_vars => Gone'
<1>. SUFFICES ASSUME CloudType, ControlType, LocalType, Added, Gone, [Next]_vars PROVE Gone'
  OBVIOUS
<1>. USE Places DEF At, Advance, Quiet, cloudVars, control, history,
            ControlType, CloudType, Gone
<1>1. CASE FindOwner
  BY <1>1 DEF FindOwner
<1>2. CASE Connect
  BY <1>2 DEF Connect, Tell
<1>3. CASE Start
  BY <1>3 DEF Start, Tell
<1>4. CASE CheckBgpd
  BY <1>4 DEF CheckBgpd
<1>5. CASE Setup
  BY <1>5 DEF Setup
<1>6. CASE Boot
  BY <1>6 DEF Boot
<1>7. CASE Attach
  BY <1>7 DEF Attach, Plug
<1>8. CASE CloudInitUnfinished
  BY <1>8 DEF CloudInitUnfinished
<1>9. CASE CloudInitEnds
  BY <1>9 DEF CloudInitEnds
<1>10. CASE AddNeighbor
  BY <1>10 DEF AddNeighbor, Tell
<1>11. CASE Poll
  BY <1>11 DEF Poll
<1>12. CASE PollsEnd
  BY <1>12 DEF PollsEnd
<1>13. CASE Tunnel
  BY <1>13 DEF Tunnel
<1>14. CASE CheckFib
  BY <1>14 DEF CheckFib
<1>15. CASE Detach
  BY <1>15 DEF Detach, Plug, Added
<1>16. CASE Cleanup
  BY <1>16 DEF Cleanup
<1>17. CASE DelNeighbor
  BY <1>17 DEF DelNeighbor, Tell, Added
<1>18. CASE DelServer
  BY <1>18 DEF DelServer, Tell
<1>19. CASE DelConnect
  BY <1>19 DEF DelConnect, Tell
<1>20. CASE Leave
  BY <1>20 DEF Leave
<1>21. CASE Unbound
  BY <1>21, RaiseStep DEF Unbound
<1>22. CASE Raises
  BY <1>22, RaiseStep DEF Raises
<1>23. CASE \E r \in Run : QuaggaBoots(r)
  BY <1>23 DEF QuaggaBoots
<1>24. CASE OwnerMoves
  BY <1>24 DEF OwnerMoves
<1>25. CASE Rerun
  BY <1>25 DEF Rerun
<1>26. CASE UNCHANGED vars
  BY <1>26 DEF vars
<1>. QED
  BY <1>1, <1>2, <1>3, <1>4, <1>5, <1>6, <1>7, <1>8, <1>9, <1>10, <1>11,
     <1>12, <1>13, <1>14, <1>15, <1>16, <1>17, <1>18, <1>19, <1>20, <1>21, <1>22,
     <1>23, <1>24, <1>25, <1>26
  DEF Next, Main, Step, Done

LEMMA CleanStep ==
  CloudType /\ ControlType /\ LocalType /\ Added /\ Gone /\ Clean /\ [Next]_vars => Clean'
<1>. SUFFICES ASSUME CloudType, ControlType, LocalType, Added, Gone, Clean, [Next]_vars PROVE Clean'
  OBVIOUS
<1>. USE DEF At, Advance, Quiet, cloudVars, control, history,
            CloudType, ControlType, LocalType, Clean
<1>1. CASE FindOwner
  BY <1>1 DEF FindOwner
<1>2. CASE Connect
  BY <1>2 DEF Connect, Tell
<1>3. CASE Start
  BY <1>3 DEF Start, Tell
<1>4. CASE CheckBgpd
  BY <1>4 DEF CheckBgpd
<1>5. CASE Setup
  BY <1>5 DEF Setup
<1>6. CASE Boot
  BY <1>6 DEF Boot
<1>7. CASE Attach
  BY <1>7 DEF Attach, Plug
<1>8. CASE CloudInitUnfinished
  BY <1>8 DEF CloudInitUnfinished
<1>9. CASE CloudInitEnds
  <2>1. said'["peering"] = said["peering"]
    BY <1>9, SayStep DEF CloudInitEnds, Checks
  <2>2. answers'.peers = answers.peers
    BY <1>9 DEF CloudInitEnds
  <2>. QED
    BY <1>9, <2>1, <2>2 DEF CloudInitEnds
<1>10. CASE AddNeighbor
  BY <1>10 DEF AddNeighbor, Tell
<1>11. CASE Poll
  <2>1. CASE established' = FALSE /\ UNCHANGED answers
    BY <1>11, <2>1 DEF Poll
  <2>2. CASE \E r \in Run : Able(r) /\ established' = TRUE
                             /\ answers' = [answers EXCEPT !.peers = answers.peers \cup {r}]
    <3>1. PICK r \in Run : r \in odl.neighbors
                            /\ answers'.peers = answers.peers \cup {r}
      BY <2>2 DEF Able
    <3>. QED
      BY <1>11, <3>1 DEF Poll
  <2>. QED
    BY <1>11, <2>1, <2>2, Zenon DEF Poll
<1>12. CASE PollsEnd
  <2>1. said'["peering"] = "PASS" => established
    BY <1>12, SayStep DEF PollsEnd, Checks, Peered
  <2>. QED
    BY <1>12, <2>1 DEF PollsEnd
<1>13. CASE Tunnel
  BY <1>13 DEF Tunnel
<1>14. CASE CheckFib
  BY <1>14 DEF CheckFib
<1>15. CASE Detach
  BY <1>15 DEF Detach, Plug
<1>16. CASE Cleanup
  BY <1>16 DEF Cleanup
<1>17. CASE DelNeighbor
  BY <1>17 DEF DelNeighbor, Tell
<1>18. CASE DelServer
  BY <1>18 DEF DelServer, Tell
<1>19. CASE DelConnect
  BY <1>19 DEF DelConnect, Tell
<1>20. CASE Leave
  BY <1>20 DEF Leave
<1>21. CASE Unbound
  BY <1>21, RaiseStep DEF Unbound
<1>22. CASE Raises
  BY <1>22, RaiseStep DEF Raises
<1>23. CASE \E r \in Run : QuaggaBoots(r)
  BY <1>23 DEF QuaggaBoots
<1>24. CASE OwnerMoves
  BY <1>24 DEF OwnerMoves
<1>25. CASE Rerun
  <2>1. answers'.peers = {} /\ established' = FALSE
    BY <1>25 DEF Rerun, NoAnswers
  <2>2. said'["peering"] = "none"
    BY <1>25 DEF Rerun, NothingSaid, Checks
  <2>3. ~dirty' => pc = 18 /\ ~lost /\ ~dirty
    BY <1>25, Places DEF Rerun
  <2>4. ~dirty' => odl.neighbors = {}
    BY <2>3 DEF Gone
  <2>. QED
    BY <1>25, <2>1, <2>2, <2>4 DEF Rerun
<1>26. CASE UNCHANGED vars
  BY <1>26 DEF vars
<1>. QED
  BY <1>1, <1>2, <1>3, <1>4, <1>5, <1>6, <1>7, <1>8, <1>9, <1>10, <1>11,
     <1>12, <1>13, <1>14, <1>15, <1>16, <1>17, <1>18, <1>19, <1>20, <1>21, <1>22,
     <1>23, <1>24, <1>25, <1>26
  DEF Next, Main, Step, Done

LEMMA WaitsStep ==
  CloudType /\ ControlType /\ LocalType /\ Waits /\ [Next]_vars => Waits'
<1>. SUFFICES ASSUME CloudType, ControlType, LocalType, Waits, [Next]_vars PROVE Waits'
  OBVIOUS
<1>. USE DEF At, Advance, Quiet, cloudVars, control, history,
            ControlType, Waits
<1>1. CASE FindOwner
  <2>0. pc = 1
    BY <1>1, Places DEF FindOwner
  <2>. QED
    BY <1>1, <2>0 DEF FindOwner
<1>2. CASE Connect
  <2>0. pc = 2
    BY <1>2, Places DEF Connect, Tell
  <2>. QED
    BY <1>2, <2>0 DEF Connect, Tell
<1>3. CASE Start
  <2>0. pc = 3
    BY <1>3, Places DEF Start, Tell
  <2>. QED
    BY <1>3, <2>0 DEF Start, Tell
<1>4. CASE CheckBgpd
  <2>0. pc = 4
    BY <1>4, Places DEF CheckBgpd
  <2>. QED
    BY <1>4, <2>0 DEF CheckBgpd
<1>5. CASE Setup
  <2>0. pc = 5
    BY <1>5, Places DEF Setup
  <2>. QED
    BY <1>5, <2>0 DEF Setup
<1>6. CASE Boot
  <2>0. pc = 6
    BY <1>6, Places DEF Boot
  <2>. QED
    BY <1>6, <2>0 DEF Boot
<1>7. CASE Attach
  <2>0. pc = 7
    BY <1>7, Places DEF Attach, Plug
  <2>. QED
    BY <1>7, <2>0 DEF Attach, Plug
<1>8. CASE CloudInitUnfinished
  <2>0. pc = 8
    BY <1>8, Places DEF CloudInitUnfinished
  <2>. QED
    BY <1>8, <2>0 DEF CloudInitUnfinished
<1>9. CASE CloudInitEnds
  <2>0. pc = 8
    BY <1>9, Places DEF CloudInitEnds
  <2>1. /\ said'["bootstrap"] # "none"
        /\ (said'["bootstrap"] = "PASS") <=> answers'.boot
        /\ answers'.peers = answers.peers
    <3>1. CASE tries = 0
      <4>1. said' = [said EXCEPT !["bootstrap"] = "FAIL"] /\ UNCHANGED answers
        BY <1>9, <3>1 DEF CloudInitEnds, Say
      <4>. QED
        BY <1>9, <2>0, <4>1 DEF Checks, LocalType
    <3>2. CASE tries > 0
      <4>. DEFINE ready == quagga[run] = "ready"
      <4>1. Say("bootstrap", ready) /\ answers' = [answers EXCEPT !.boot = ready]
        <5>1. tries # 0
          BY <3>2
        <5>. QED
          BY <1>9, <5>1, Zenon DEF CloudInitEnds
      <4>2. ready \in BOOLEAN
        OBVIOUS
      <4>. HIDE DEF ready
      <4>. QED
        BY <4>1, <4>2, SayStep DEF Checks, LocalType
    <3>. QED
      BY <3>1, <3>2 DEF LocalType
  <2>. QED
    BY <1>9, <2>0, <2>1 DEF CloudInitEnds
<1>10. CASE AddNeighbor
  <2>0. pc = 9
    BY <1>10, Places DEF AddNeighbor, Tell
  <2>. QED
    BY <1>10, <2>0 DEF AddNeighbor, Tell
<1>11. CASE Poll
  <2>0. pc = 10
    BY <1>11, Places DEF Poll
  <2>1. answers'.boot = answers.boot /\ (established' <=> answers'.peers # {})
    <3>1. CASE established' = FALSE /\ UNCHANGED answers
      <4>1. ~established
        BY <1>11 DEF Poll
      <4>. QED
        BY <2>0, <3>1, <4>1
    <3>2. CASE \E r \in Run : established' = TRUE
                          /\ answers' = [answers EXCEPT !.peers = answers.peers \cup {r}]
      BY <1>11, <3>2 DEF LocalType
    <3>. QED
      BY <1>11, <3>1, <3>2, Zenon DEF Poll
  <2>. QED
    BY <1>11, <2>0, <2>1 DEF Poll
<1>12. CASE PollsEnd
  <2>0. pc = 10
    BY <1>12, Places DEF PollsEnd
  <2>1. /\ said'["bootstrap"] = said["bootstrap"]
        /\ (said'["peering"] = "PASS") <=> (neighbor /\ established)
    BY <1>12, SayStep DEF PollsEnd, Checks, Peered, LocalType
  <2>. QED
    BY <1>12, <2>0, <2>1 DEF PollsEnd
<1>13. CASE Tunnel
  <2>0. pc = 11
    BY <1>13, Places DEF Tunnel
  <2>. QED
    BY <1>13, <2>0 DEF Tunnel
<1>14. CASE CheckFib
  <2>0. pc = 12
    BY <1>14, Places DEF CheckFib
  <2>. QED
    BY <1>14, <2>0 DEF CheckFib
<1>15. CASE Detach
  <2>0. pc = 13
    BY <1>15, Places DEF Detach, Plug
  <2>. QED
    BY <1>15, <2>0 DEF Detach, Plug
<1>16. CASE Cleanup
  <2>0. pc = 14
    BY <1>16, Places DEF Cleanup
  <2>. QED
    BY <1>16, <2>0 DEF Cleanup
<1>17. CASE DelNeighbor
  <2>0. pc = 15
    BY <1>17, Places DEF DelNeighbor, Tell
  <2>. QED
    BY <1>17, <2>0 DEF DelNeighbor, Tell
<1>18. CASE DelServer
  <2>0. pc = 16
    BY <1>18, Places DEF DelServer, Tell
  <2>. QED
    BY <1>18, <2>0 DEF DelServer, Tell
<1>19. CASE DelConnect
  <2>0. pc = 17
    BY <1>19, Places DEF DelConnect, Tell
  <2>. QED
    BY <1>19, <2>0 DEF DelConnect, Tell
<1>20. CASE Leave
  <2>0. pc = 18
    BY <1>20, Places DEF Leave
  <2>. QED
    BY <1>20, <2>0 DEF Leave
<1>21. CASE Unbound
  BY <1>21, RaiseStep DEF Unbound
<1>22. CASE Raises
  BY <1>22, RaiseStep DEF Raises
<1>23. CASE \E r \in Run : QuaggaBoots(r)
  BY <1>23 DEF QuaggaBoots
<1>24. CASE OwnerMoves
  BY <1>24 DEF OwnerMoves
<1>25. CASE Rerun
  BY <1>25 DEF Rerun, NoAnswers, NothingSaid, Checks
<1>26. CASE UNCHANGED vars
  BY <1>26 DEF vars
<1>. QED
  BY <1>1, <1>2, <1>3, <1>4, <1>5, <1>6, <1>7, <1>8, <1>9, <1>10, <1>11,
     <1>12, <1>13, <1>14, <1>15, <1>16, <1>17, <1>18, <1>19, <1>20, <1>21, <1>22,
     <1>23, <1>24, <1>25, <1>26
  DEF Next, Main, Step, Done

-----------------------------------------------------------------------------
LEMMA InitIInv == Init => IInv
<1>. SUFFICES ASSUME Init PROVE IInv
  OBVIOUS
<1>1. CloudType
  BY NodeAssumption, BoundAssumption DEF Init, CloudType, Run
<1>2. ControlType
  <2>1. 1 \in Run /\ 1 \in 1..18
    BY BoundAssumption DEF Run
  <2>. QED
    BY <2>1 DEF Init, ControlType
<1>3. LocalType
  BY DEF Init, LocalType, Nothing, NothingSaid, NoAnswers
<1>4. Added /\ Gone
  BY DEF Init, Added, Gone
<1>5. Clean /\ Waits
  BY DEF Init, Clean, Waits, NothingSaid, NoAnswers, Checks
<1>. QED
  BY <1>1, <1>2, <1>3, <1>4, <1>5 DEF IInv

LEMMA Inductive == Spec => []IInv
<1>1. IInv /\ [Next]_vars => IInv'
  <2>. SUFFICES ASSUME IInv, [Next]_vars PROVE IInv'
    OBVIOUS
  <2>1. CloudType' /\ ControlType' /\ LocalType'
    BY CloudTypeStep, ControlTypeStep, LocalTypeStep DEF IInv
  <2>2. Added' /\ Gone' /\ Clean' /\ Waits'
    BY AddedStep, GoneStep, CleanStep, WaitsStep DEF IInv
  <2>. QED
    BY <2>1, <2>2 DEF IInv
<1>. QED
  BY <1>1, InitIInv, PTL DEF Spec

\* The variables of main(), of OpenDaylight and of the cloud keep their types:
\* neither wait counts below zero, and no step leaves main.
THEOREM TypeCorrect == Spec => []TypeOK
<1>1. IInv => TypeOK
  BY Types DEF IInv
<1>. QED
  BY <1>1, Inductive, PTL

\* The finally of testcase_3 takes back the neighbour, the server, the
\* connection and the bridge, wherever the body was broken off.
THEOREM FinallyTakesBack == Spec => []BgpPutBack
<1>1. IInv => BgpPutBack
  <2>. SUFFICES ASSUME IInv, Steps[pc] = "end", ~lost
                PROVE  /\ ~odl.server /\ ~odl.connect
                       /\ run \notin odl.neighbors /\ run \notin attached
    BY DEF BgpPutBack
  <2>1. pc = 18
    BY Places DEF IInv, ControlType
  <2>. QED
    BY <2>1 DEF IInv, Gone
<1>. QED
  BY <1>1, Inductive, PTL

\* A peering that is reported was seen Established with the quagga of this
\* execution, provided the executions before took their neighbours back.
THEOREM ReportsAreOurs == Spec => []PassesAreOurs
<1>1. IInv => PassesAreOurs
  BY DEF IInv, Clean, PassesAreOurs
<1>. QED
  BY <1>1, Inductive, PTL

\* wait_for_cloud_init and check_for_peering report what their polls saw, the
\* last poll included, however many there are.
THEOREM WaitsAreRight == Spec => []WaitsReportWhatTheySaw
<1>1. IInv => WaitsReportWhatTheySaw
  <2>. SUFFICES ASSUME IInv PROVE WaitsReportWhatTheySaw
    OBVIOUS
  <2>1. Steps[pc] = "tunnel" => pc = 11
    BY Places DEF IInv, ControlType
  <2>. QED
    BY <2>1 DEF IInv, Waits, WaitsReportWhatTheySaw
<1>. QED
  BY <1>1, Inductive, PTL
=============================================================================
