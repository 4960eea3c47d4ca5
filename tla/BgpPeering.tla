----------------------------- MODULE BgpPeering -----------------------------
(***************************************************************************)
(* testcase_3: a BGP speaker of OpenDaylight's is started, a quagga        *)
(* instance is booted and plugged into the external bridge, the two are    *)
(* made neighbours, and the finally takes all of it back.                  *)
(*                                                                         *)
(* OpenDaylight may be a cluster: commands about BGP have an effect on the *)
(* owner of the BGP entity only ("we need to execute the BGP speaker       *)
(* related commands to that ODL which is the owner", utils.py), and the    *)
(* owner can move.  The testcase can be executed again on what an earlier  *)
(* execution left; the quagga of each execution has an address of its own  *)
(* and is named by the number of the execution.  The OpenStack resources   *)
(* are in TestcaseLifecycle; of them only the quagga instance matters here. *)
(***************************************************************************)
EXTENDS Naturals, Sequences

CONSTANTS
  OdlNode,     \* odl_nodes
  Nobody,      \* None
  BootTries,   \* polls of wait_for_cloud_init (20)
  PeerTries,   \* polls of check_for_peering (20)
  MaxMoves,    \* bound: how often the owner moves
  MaxRuns      \* bound: executions of the testcase

ASSUME NodeAssumption == OdlNode # {} /\ Nobody \notin OdlNode
ASSUME TriesAssumption == BootTries \in Nat \ {0} /\ PeerTries \in Nat \ {0}
ASSUME BoundAssumption == MaxMoves \in Nat /\ MaxRuns \in Nat \ {0}

Run == 1..MaxRuns

\* main(), from the search for the owner on.
Steps == <<"owner", "connect", "start", "bgpd",
           "setup", "boot", "attach", "cloud_init",
           "add_neighbor", "peering", "tunnel", "fib",
           "detach", "cleanup", "del_neighbor", "del_server", "del_connect",
           "end">>

TryFrom == CHOOSE i \in DOMAIN Steps : Steps[i] = "setup"
FinallyFrom == CHOOSE i \in DOMAIN Steps : Steps[i] = "detach"

\* The verdicts of the waits; those of CheckBgpd and CheckFib are not kept.
Checks == {"bootstrap", "peering"}

VARIABLES
  \* OpenDaylight, the compute node and the cloud
  owner,      \* the ODL node that owns the BGP entity
  odl,        \* [connect, server, neighbors], its BGP configuration
  quagga,     \* [Run -> "none", "booting", "ready", "broken"], the instances
  attached,   \* those plugged into br-quagga
  moves,
  \* main()
  run, pc, status, exc,
  odl_node,   \* whom the commands go to
  local,      \* [fake_fip, quagga_vm, compute -> is it set]
  tries,
  neighbor,   \* odl_add_neighbor returned something
  established,  \* the last poll of show-bgp saw a session that is
  said,       \* [Checks -> "none", "PASS" or "FAIL"]
  \* history
  answers,    \* what the polls of this execution saw: [boot, peers]
  lost,       \* a command of this execution had no effect
  dirty       \* an earlier execution lost a command or did not end its finally

cloudVars == <<owner, odl, quagga, attached, moves>>
control   == <<run, status, exc>>
history   == <<answers, lost, dirty>>
vars == <<cloudVars, control, pc, odl_node, local, tries, neighbor, established,
          said, history>>

Nothing == [fake_fip |-> FALSE, quagga_vm |-> FALSE, compute |-> FALSE]

NothingSaid == [c \in Checks |-> "none"]
NoAnswers == [boot |-> FALSE, peers |-> {}]

\* The nodes are alike, so which of them owns the entity first is no matter.
Init ==
  /\ owner = (CHOOSE node \in OdlNode : TRUE) /\ moves = 0
  /\ odl = [connect |-> FALSE, server |-> FALSE, neighbors |-> {}]
  /\ quagga = [r \in Run |-> "none"] /\ attached = {}
  /\ run = 1 /\ pc = 1 /\ status = "running" /\ exc = FALSE
  /\ odl_node = Nobody /\ local = Nothing /\ tries = 0
  /\ neighbor = FALSE /\ established = FALSE /\ said = NothingSaid
  /\ answers = NoAnswers /\ lost = FALSE /\ dirty = FALSE

-----------------------------------------------------------------------------
At(step) == status = "running" /\ Steps[pc] = step

Advance == pc' = pc + 1 /\ UNCHANGED control

\* Only an exception inside the try runs the finally, only one there is final.
Raise ==
  /\ \/ pc \in TryFrom..(FinallyFrom - 1) /\ pc' = FinallyFrom /\ exc' = TRUE
        /\ UNCHANGED status
     \/ pc \notin TryFrom..(FinallyFrom - 1) /\ status' = "raised"
        /\ UNCHANGED <<pc, exc>>
  /\ UNCHANGED run

\* The locals of main, its verdicts and what it has seen stay as they are.
Quiet == UNCHANGED <<odl_node, local, tries, neighbor, established, said, answers, dirty>>

\* Any step may raise.  Of what it should have done the instance may be there
\* all the same, or the address, to which the finally then sends its command.
Raises ==
  /\ status = "running" /\ Steps[pc] # "end"
  /\ \/ UNCHANGED <<quagga, local>>
     \/ At("setup") /\ local' = [local EXCEPT !.fake_fip = TRUE] /\ UNCHANGED quagga
     \/ At("boot") /\ quagga' = [quagga EXCEPT ![run] = "booting"] /\ UNCHANGED local
     \/ At("cleanup") /\ quagga' = [quagga EXCEPT ![run] = "none"] /\ UNCHANGED local
  /\ Raise
  /\ UNCHANGED <<owner, odl, attached, moves, lost, odl_node, tries, neighbor,
                 established, said, answers, dirty>>

\* compute is unbound: a NameError, in the try and again in the finally.
Unbound ==
  /\ At("attach") \/ (At("detach") /\ local.quagga_vm)
  /\ ~local.compute
  /\ Raise
  /\ UNCHANGED <<cloudVars, lost>> /\ Quiet

\* get_odl_bgp_entity_owner: the node whose akka.conf names the owner; a copy
\* that fails leaves the file of an earlier execution in /tmp to be read, and
\* the wrong node is taken.  (None, when the REST query fails, raises: its
\* address cannot be asked for.)
FindOwner ==
  /\ At("owner")
  /\ odl_node' \in {owner} \cup (IF run > 1 THEN OdlNode ELSE {})
  /\ Advance
  /\ UNCHANGED <<cloudVars, local, tries, neighbor, established, said, history>>

\* run_odl_cmd: carried out by the owner, unless it is lost.
Tell(step, config) ==
  /\ At(step)
  /\ \/ odl_node = owner /\ odl' = config /\ UNCHANGED lost
     \/ UNCHANGED odl /\ lost' = TRUE
  /\ UNCHANGED <<owner, quagga, attached, moves>>

\* bgp-connect add, start-bgp-server (through that connection)
Connect == Tell("connect", [odl EXCEPT !.connect = TRUE]) /\ Advance /\ Quiet
Start == Tell("start", [odl EXCEPT !.server = odl.connect]) /\ Advance /\ Quiet

Say(name, success) ==
  said' = [said EXCEPT ![name] = IF success THEN "PASS" ELSE "FAIL"]

\* Whether a bgpd process is on odl_node, which is reported and not looked at
\* again; where zrpcd keeps one after the owner has moved is not modelled.
CheckBgpd ==
  /\ At("bgpd")
  /\ Advance
  /\ UNCHANGED <<cloudVars, lost>> /\ Quiet

\* Flavor, images, networks; create_floating_ip; the search for the compute
\* node that runs the hypervisor, which may find none (compute is unbound).
Setup ==
  /\ At("setup")
  /\ \E found \in BOOLEAN :
       local' = [local EXCEPT !.fake_fip = TRUE, !.compute = found]
  /\ Advance
  /\ UNCHANGED <<cloudVars, odl_node, tries, neighbor, established, said, history>>

Boot ==
  /\ At("boot")
  /\ quagga' = [quagga EXCEPT ![run] = "booting"]
  /\ local' = [local EXCEPT !.quagga_vm = TRUE]
  /\ Advance
  /\ UNCHANGED <<owner, odl, attached, moves, odl_node, tries, neighbor,
                 established, said, history>>

\* The commands on the compute node work, or are lost.
Plug(plugged) ==
  /\ \/ attached' = plugged /\ UNCHANGED lost
     \/ UNCHANGED attached /\ lost' = TRUE
  /\ UNCHANGED <<owner, odl, quagga, moves>>

\* attach_instance_to_ext_br; wait_for_cloud_init begins.
Attach ==
  /\ At("attach") /\ local.compute
  /\ Plug(attached \cup {run})
  /\ tries' = BootTries
  /\ Advance
  /\ UNCHANGED <<odl_node, local, neighbor, established, said, answers, dirty>>

-----------------------------------------------------------------------------
(***************************************************************************)
(* The two waits.                                                          *)
(***************************************************************************)
\* Mutant: an unfinished log costs no try.
CloudInitUnfinished_Free ==
  /\ At("cloud_init") /\ tries > 0 /\ quagga[run] = "booting"
  /\ tries' = tries
  /\ UNCHANGED <<cloudVars, control, pc, odl_node, local, neighbor, established, said, history>>

CloudInitUnfinished ==
  /\ At("cloud_init") /\ tries > 0 /\ quagga[run] = "booting"
  /\ tries' = tries - 1
  /\ UNCHANGED <<cloudVars, control, pc, odl_node, local, neighbor, established, said, history>>

\* "Failed to run module", "finished at", or no tries left.
CloudInitEnds ==
  /\ At("cloud_init")
  /\ \/ tries > 0 /\ quagga[run] \in {"ready", "broken"}
        /\ Say("bootstrap", quagga[run] = "ready")
        /\ answers' = [answers EXCEPT !.boot = (quagga[run] = "ready")]
     \/ tries = 0 /\ Say("bootstrap", FALSE) /\ UNCHANGED answers
  /\ tries' = 0
  /\ Advance
  /\ UNCHANGED <<cloudVars, odl_node, local, neighbor, established, lost, dirty>>

\* odl_add_neighbor returns what the command printed, which may be nothing.
AddNeighbor ==
  /\ Tell("add_neighbor", [odl EXCEPT !.neighbors = @ \cup {run}])
  /\ neighbor' \in BOOLEAN
  /\ tries' = PeerTries /\ established' = FALSE
  /\ Advance
  /\ UNCHANGED <<odl_node, local, said, answers, dirty>>

\* The session of r can be up; whether it is, is up to the two speakers.
Able(r) ==
  /\ odl.server /\ r \in odl.neighbors
  /\ quagga[r] = "ready" /\ r \in attached

\* Mutant: polls once more when the tries are used up.
Poll_OnceMore ==
  /\ At("peering") /\ tries >= 0 /\ ~established
  /\ tries' = tries - 1
  /\ \/ odl_node = owner /\ \E r \in Run :
          Able(r) /\ established' = TRUE /\ answers' = [answers EXCEPT !.peers = @ \cup {r}]
     \/ established' = FALSE /\ UNCHANGED answers
  /\ UNCHANGED <<cloudVars, control, pc, odl_node, local, neighbor, said, lost, dirty>>

\* show-bgp lists every neighbour there is, and one Established will do.
Poll ==
  /\ At("peering") /\ tries > 0 /\ ~established
  /\ tries' = tries - 1
  /\ \/ odl_node = owner /\ \E r \in Run :
          Able(r) /\ established' = TRUE /\ answers' = [answers EXCEPT !.peers = @ \cup {r}]
     \/ established' = FALSE /\ UNCHANGED answers
  /\ UNCHANGED <<cloudVars, control, pc, odl_node, local, neighbor, said, lost, dirty>>

\* Mutant: the answer of the last poll is not looked at.
Peered_BeforeLast == neighbor /\ established /\ tries > 0

\* Mutant: whether the session came up does not count.
Peered_Unpolled == neighbor

\* neighbor and peer
Peered == neighbor /\ established

PollsEnd ==
  /\ At("peering") /\ (tries = 0 \/ established)
  /\ Say("peering", Peered)
  /\ Advance
  /\ UNCHANGED <<cloudVars, odl_node, local, tries, neighbor, established, history>>

-----------------------------------------------------------------------------
\* add_quagga_external_gre_end_point swallows its exceptions, and nothing ever
\* takes the tunnel end point back; then the VPN and a second instance.
\* (The locals of the waits, which are not read again, are forgotten.)
Tunnel ==
  /\ At("tunnel")
  /\ tries' = 0 /\ neighbor' = FALSE /\ established' = FALSE
  /\ Advance
  /\ UNCHANGED <<cloudVars, odl_node, local, said, history>>

\* is_fib_entry_present_on_odl reads the configured FIB over REST.  The prefix
\* may be there from a session that is no more, for as long as OpenDaylight
\* pleases, so what is reported is not related to the sessions.
CheckFib ==
  /\ At("fib")
  /\ Advance
  /\ UNCHANGED <<cloudVars, lost>> /\ Quiet

\* The bridge goes, with all that is plugged into it.
Detach ==
  /\ At("detach")
  /\ \/ local.quagga_vm /\ local.compute /\ Plug({})
     \/ ~local.quagga_vm /\ UNCHANGED <<cloudVars, lost>>
  /\ Advance /\ Quiet

\* cleanup_nova, cleanup_glance, cleanup_neutron; what they return is ignored.
Cleanup ==
  /\ At("cleanup")
  /\ \/ quagga' = [quagga EXCEPT ![run] = "none"] \/ UNCHANGED quagga
  /\ Advance
  /\ UNCHANGED <<owner, odl, attached, moves, lost>> /\ Quiet

\* Mutant: the neighbour is deleted if there was one to peer with.
DelNeighbor_IfPeered ==
  /\ \/ Peered /\ Tell("del_neighbor", [odl EXCEPT !.neighbors = @ \ {run}])
     \/ ~Peered /\ At("del_neighbor") /\ UNCHANGED <<cloudVars, lost>>
  /\ Advance /\ Quiet

DelNeighbor ==
  /\ \/ local.fake_fip /\ Tell("del_neighbor", [odl EXCEPT !.neighbors = @ \ {run}])
     \/ ~local.fake_fip /\ At("del_neighbor") /\ UNCHANGED <<cloudVars, lost>>
  /\ Advance /\ Quiet

DelServer == Tell("del_server", [odl EXCEPT !.server = FALSE]) /\ Advance /\ Quiet
DelConnect == Tell("del_connect", [odl EXCEPT !.connect = FALSE]) /\ Advance /\ Quiet

Leave ==
  /\ At("end")
  /\ status' = IF exc THEN "raised" ELSE "returned"
  /\ UNCHANGED <<cloudVars, run, exc, pc, lost>> /\ Quiet

Step ==
  \/ FindOwner \/ Connect \/ Start \/ CheckBgpd \/ Setup \/ Boot
  \/ Attach \/ CloudInitUnfinished \/ CloudInitEnds \/ AddNeighbor \/ Poll
  \/ PollsEnd \/ Tunnel \/ CheckFib \/ Detach \/ Cleanup
  \/ DelNeighbor \/ DelServer \/ DelConnect \/ Leave \/ Unbound

Main == Step \/ Raises

-----------------------------------------------------------------------------
\* cloud-init sets quagga up, or a module of it fails.
QuaggaBoots(r) ==
  /\ quagga[r] = "booting"
  /\ \E end \in {"ready", "broken"} : quagga' = [quagga EXCEPT ![r] = end]
  /\ UNCHANGED <<owner, odl, attached, moves, control, pc, lost>> /\ Quiet

OwnerMoves ==
  /\ moves < MaxMoves
  /\ owner' \in OdlNode \ {owner} /\ moves' = moves + 1
  /\ UNCHANGED <<odl, quagga, attached, control, pc, lost>> /\ Quiet

\* The next execution, on what this one left.
Rerun ==
  /\ status # "running" /\ run < MaxRuns
  /\ run' = run + 1 /\ pc' = 1 /\ status' = "running" /\ exc' = FALSE
  /\ odl_node' = Nobody /\ local' = Nothing /\ tries' = 0
  /\ neighbor' = FALSE /\ established' = FALSE /\ said' = NothingSaid
  /\ answers' = NoAnswers /\ lost' = FALSE
  /\ dirty' = (dirty \/ lost \/ Steps[pc] # "end")
  /\ UNCHANGED cloudVars

Done == status # "running" /\ run = MaxRuns /\ UNCHANGED vars

Next == Main \/ (\E r \in Run : QuaggaBoots(r)) \/ OwnerMoves \/ Rerun \/ Done

\* main is one thread; it need not ever raise where it could go on.
Spec == Init /\ [][Next]_vars /\ WF_vars(Step)

-----------------------------------------------------------------------------
(***************************************************************************)
(* Properties.                                                             *)
(***************************************************************************)
TypeOK ==
  /\ owner \in OdlNode /\ moves \in 0..MaxMoves
  /\ odl \in [connect : BOOLEAN, server : BOOLEAN, neighbors : SUBSET Run]
  /\ quagga \in [Run -> {"none", "booting", "ready", "broken"}]
  /\ attached \subseteq Run
  /\ run \in Run /\ pc \in DOMAIN Steps
  /\ status \in {"running", "returned", "raised"} /\ exc \in BOOLEAN
  /\ odl_node \in OdlNode \cup {Nobody}
  /\ local \in [fake_fip : BOOLEAN, quagga_vm : BOOLEAN, compute : BOOLEAN]
  /\ tries \in Nat /\ neighbor \in BOOLEAN /\ established \in BOOLEAN
  /\ said \in [Checks -> {"none", "PASS", "FAIL"}]
  /\ answers \in [boot : BOOLEAN, peers : SUBSET Run]
  /\ lost \in BOOLEAN /\ dirty \in BOOLEAN

(***************************************************************************)
(* An execution that reached the end of its finally, its body broken off   *)
(* or not, has taken back all it did to OpenDaylight and the compute node, *)
(* unless a command was lost (which includes an owner that moved).         *)
(***************************************************************************)
BgpPutBack ==
  Steps[pc] = "end" /\ ~lost =>
    /\ ~odl.server /\ ~odl.connect
    /\ run \notin odl.neighbors /\ run \notin attached

(***************************************************************************)
(* A peering that is reported is this execution's: show-bgp does not tell  *)
(* whose session is Established, so an earlier execution must have taken   *)
(* its neighbour back, even when its instance is still there.              *)
(***************************************************************************)
PassesAreOurs ==
  said["peering"] = "PASS" /\ ~dirty => run \in answers.peers

(***************************************************************************)
(* Each wait reports what its polls saw, the last one included: a failure  *)
(* to bootstrap or to peer means that no poll saw quagga ready or a session *)
(* Established (or add-neighbor printed nothing), a success that one did.  *)
(***************************************************************************)
WaitsReportWhatTheySaw ==
  /\ said["bootstrap"] # "none" => ((said["bootstrap"] = "PASS") <=> answers.boot)
  /\ Steps[pc] = "tunnel" =>
       ((said["peering"] = "PASS") <=> (neighbor /\ answers.peers # {}))

\* An execution ends: however slow quagga and the speakers are, the waits do.
Ends == [](status = "running" => <>(status # "running"))
=============================================================================
