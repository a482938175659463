----------------------------- MODULE STPBridge -----------------------------
(***************************************************************************)
(* One CVSwitchSTP as its callers drive it: CVSwitchImp adds and removes   *)
(* ports, hands over the BPDUs that arrive, and runs its timer; the        *)
(* management operations are those the IDIPCVSwitch interface and the STP  *)
(* class offer.  The process has one thread, so an operation is one step;  *)
(* only Tick, which walks over the ports twice in an order nobody fixes,   *)
(* takes one step per port, and nothing else runs until it has ended.      *)
(* The neighbours are not modelled here: any BPDU of ConfigBpdus and       *)
(* OtherBpdus may arrive on any port at any time, so every lost, repeated, *)
(* late or reordered BPDU is covered.                                      *)
(***************************************************************************)
EXTENDS STP

CONSTANTS
  InitialId,      \* the bridge id given to the constructor
  InitialTimes,   \* the times UpdateBridgeTimers computes for it
  Spans,          \* the STP ticks a Tick may count
  FirstElapsed,   \* the STP ticks the first Tick may count
  ConfigBpdus,    \* the config BPDUs that may arrive
  OtherBpdus,     \* the others: TCNs and malformed ones
  PathCosts,      \* the path costs ports may have
  NewIds,         \* the ids SetBridgeId and SetBridgePriority may set
  NewTimes,       \* the times the setters of the timers may lead to
  Managed         \* the ports on which the STP class's own setters are called

ASSUME IdAssumption == InitialId \in Nat /\ NewIds \subseteq Nat
ASSUME TimesAssumption == InitialTimes \in Times /\ NewTimes \subseteq Times
ASSUME ElapsedAssumption ==
  Spans \subseteq Nat \ {0} /\ FirstElapsed \subseteq Int
ASSUME BpduAssumption ==
  ConfigBpdus \subseteq ConfigContents /\ OtherBpdus \subseteq OtherContents
ASSUME CostAssumption == PathCosts \subseteq Nat \ {0}

VARIABLES
  bridge,    \* the CVSwitchSTP object
  phase,     \* where OnTimer is: "idle" when it is not running
  todo,      \* the ports the current walk of Tick has still to visit
  elapsed    \* the STP ticks that Tick counts, or will count when it runs

vars == <<bridge, phase, todo, elapsed>>

(***************************************************************************)
(* The BPDUs that may arrive on port p.  A segment does not return a frame *)
(* to the port that sent it; another port of this bridge may receive it.   *)
(***************************************************************************)
Arriving(p) ==
  {c \in ConfigBpdus : ~(c.bridge = bridge.bridge_id /\ c.port = p)}
    \cup OtherBpdus

(***************************************************************************)
(* The constructor does not initialise elapsed_remainder: the first Tick   *)
(* counts what happened to be there in too.  A later one counts what       *)
(* SWITCH_TICK lasts, two STP ticks less or one more while the remainder   *)
(* settles (BridgeTimers).                                                 *)
(***************************************************************************)
Init ==
  /\ bridge = NewBridge(InitialId, InitialTimes)
  /\ phase = "idle"
  /\ todo = {}
  /\ elapsed \in FirstElapsed

(***************************************************************************)
(* An operation that runs from its call to its return in one step.         *)
(***************************************************************************)
Operation == phase = "idle" /\ UNCHANGED <<phase, todo, elapsed>>

AddPort(p) ==
  /\ Operation
  /\ p \notin PortsOf(bridge)
  /\ \E cost \in PathCosts, w \in Outcomes(bridge), reused \in BOOLEAN :
       bridge' = PortEnable(CreatePort(Quiet(bridge), p, cost, reused), p, w)

RemovePort(p) ==
  /\ Operation
  /\ p \in PortsOf(bridge)
  /\ bridge' = DestroyPort(Quiet(bridge), p)

Receive(p) ==
  /\ Operation
  /\ p \in PortsOf(bridge)
  /\ \E bpdu \in Arriving(p), w \in Outcomes(bridge) :
       bridge' = ReceivedBpdu(Quiet(bridge), p, bpdu, w)

SetBridgeId ==
  /\ Operation
  /\ \E id \in NewIds, w \in Outcomes(bridge) :
       bridge' = BridgeId(Quiet(bridge), id, w)

SetTimes ==
  /\ Operation
  /\ \E times \in NewTimes : bridge' = SetBridgeTimes(Quiet(bridge), times)

DisablePort(p) ==
  /\ Operation
  /\ p \in Managed \cap PortsOf(bridge)
  /\ \E w \in Outcomes(bridge) : bridge' = PortDisable(Quiet(bridge), p, w)

EnablePort(p) ==
  /\ Operation
  /\ p \in Managed \cap PortsOf(bridge)
  /\ \E w \in Outcomes(bridge) : bridge' = PortEnable(Quiet(bridge), p, w)

SetPathCost(p) ==
  /\ Operation
  /\ p \in Managed \cap PortsOf(bridge)
  /\ \E cost \in PathCosts, w \in Outcomes(bridge) :
       bridge' = PortSetPathCost(Quiet(bridge), p, cost, w)

SetChangeDetection(p) ==
  /\ Operation
  /\ p \in Managed \cap PortsOf(bridge)
  /\ \E on \in BOOLEAN :
       bridge' = [Quiet(bridge) EXCEPT
                    !.port[p].change_detection_enabled = on]

-----------------------------------------------------------------------------
(***************************************************************************)
(* Tick(SWITCH_TICK) and the fetching of its results, as OnTimer does it:  *)
(* how the walks proceed, and what each step does to the bridge.           *)
(***************************************************************************)
Starting ==
  /\ phase = "idle" /\ elapsed # 0
  /\ phase' = "aging" /\ todo' = EnabledPorts(bridge) /\ UNCHANGED elapsed

Visiting(p, walk) ==
  /\ phase = walk /\ p \in todo
  /\ todo' = todo \ {p} /\ UNCHANGED <<phase, elapsed>>

Turning ==
  /\ phase = "aging" /\ todo = {}
  /\ phase' = "delaying" /\ todo' = EnabledPorts(bridge) /\ UNCHANGED elapsed

(***************************************************************************)
(* Tick is through, or returns at once because not one STP tick passed.    *)
(***************************************************************************)
Ending ==
  /\ \/ phase = "delaying" /\ todo = {}
     \/ phase = "idle" /\ elapsed = 0
  /\ phase' = "idle" /\ elapsed' \in Spans /\ UNCHANGED todo

StartTick ==
  /\ Starting
  /\ \E w \in Outcomes(bridge) :
       bridge' = BridgeTick(Quiet(bridge), elapsed, w)

AgePort(p) ==
  /\ Visiting(p, "aging")
  /\ \E w \in Outcomes(bridge) :
       bridge' = MessageAgeTick(Quiet(bridge), p, elapsed, w)

EndAging == Turning /\ bridge' = Quiet(bridge)

DelayPort(p) ==
  /\ Visiting(p, "delaying")
  /\ \E w \in Outcomes(bridge) :
       bridge' = PortTick(Quiet(bridge), p, elapsed, w)

Report == Ending /\ bridge' = Reported(Quiet(bridge))

-----------------------------------------------------------------------------
Tick ==
  \/ StartTick
  \/ \E p \in Ports : AgePort(p)
  \/ EndAging
  \/ \E p \in Ports : DelayPort(p)
  \/ Report

Next ==
  \/ \E p \in Ports : AddPort(p)
  \/ \E p \in Ports : RemovePort(p)
  \/ \E p \in Ports : Receive(p)
  \/ \E p \in Ports : \/ DisablePort(p)
                      \/ EnablePort(p)
                      \/ SetPathCost(p)
                      \/ SetChangeDetection(p)
  \/ SetBridgeId
  \/ SetTimes
  \/ Tick

Spec == Init /\ [][Next]_vars

(***************************************************************************)
(* The timer of CVSwitchImp is periodic, so OnTimer runs again and again,  *)
(* and runs to its end: these are the steps Tick takes.                    *)
(***************************************************************************)
OnTimerProceeds ==
  \/ Starting
  \/ \E p \in Ports, walk \in {"aging", "delaying"} : Visiting(p, walk)
  \/ Turning
  \/ Ending

FairSpec == Spec /\ WF_<<phase, todo, elapsed>>(OnTimerProceeds)

-----------------------------------------------------------------------------
(***************************************************************************)
(* The state variables have their types, and root_port is NULL, a port the *)
(* bridge has, or the address of one it had.                               *)
(***************************************************************************)
TypeOK ==
  /\ bridge \in Bridges
  /\ bridge.root_port \in {NoPort, StalePort} \cup PortsOf(bridge)
  /\ phase \in {"idle", "aging", "delaying"}
  /\ todo \subseteq EnabledPorts(bridge)
  /\ elapsed \in Int

-----------------------------------------------------------------------------
(***************************************************************************)
(* Safety.                                                                 *)
(***************************************************************************)
(***************************************************************************)
(* The bridge takes itself for the root exactly when it has no root port;  *)
(* otherwise the root it believes in is better than itself and, unless     *)
(* the root port was deleted under it, root and cost are those its root    *)
(* port was told of: nothing read at RootSelection is used stale.          *)
(***************************************************************************)
RootAgreement == RootAgrees(bridge)

(***************************************************************************)
(* All enabled ports agree with the bridge on the root, and a designated   *)
(* one advertises what the bridge now believes, whatever operation changed *)
(* the root, the cost or the bridge id last: no neighbour hears old news.  *)
(***************************************************************************)
PortAgreement == PortsAgree(bridge)

(***************************************************************************)
(* Between operations an enabled port is kept out of the tree exactly when *)
(* it is neither the root port nor designated: no operation changes a role *)
(* without the PortStateSelection that must follow.                        *)
(***************************************************************************)
RoleAgreement == RolesAgree(bridge)

(***************************************************************************)
(* What a neighbour told a port is forgotten in time: the message age      *)
(* timer runs on every enabled port that holds a neighbour's information,  *)
(* and on no other.                                                        *)
(***************************************************************************)
HeardInfoAges == HeardInfoIsTimed(bridge)

(***************************************************************************)
(* No port is stuck on its way to forwarding, and none advances that is    *)
(* blocking: the forward delay timer runs in listening and learning only.  *)
(***************************************************************************)
ForwardDelayRuns == ProgressIsTimed(bridge)

(***************************************************************************)
(* A port that owes a BPDU or an acknowledgement is designated: neither is *)
(* carried over to another role, where it would answer the wrong bridge.   *)
(***************************************************************************)
OwedByDesignated ==
  \A p \in EnabledPorts(bridge) :
    bridge.port[p].config_pending \/ bridge.port[p].topology_change_ack
      => IsDesignatedPort(bridge, p)

(***************************************************************************)
(* The root never falls silent.  (PortSetPathCost, which nothing in the    *)
(* program calls, may make a bridge whose root port was deleted the root   *)
(* without any of what BecomeRootBridge does: this statement and the next  *)
(* two are about bridges on which the STP class's setters are not called.) *)
(***************************************************************************)
RootSpeaks ==
  Managed = {} /\ IsRootBridge(bridge) => Running(bridge.hello_timer)

(***************************************************************************)
(* A detected topology change is under way to the root, by a TCN that is   *)
(* repeated, or is announced by the root for a limited time.  (BridgeId    *)
(* does what ReceivedConfigBpdu does when rootship is lost, except this:   *)
(* it is about bridges whose id does not change.)                          *)
(***************************************************************************)
ChangeCarried ==
  Managed = {} /\ NewIds \subseteq {InitialId} =>
    /\ bridge.topology_change_detected /\ ~IsRootBridge(bridge)
         <=> Running(bridge.tcn_timer)
    /\ bridge.topology_change_detected /\ IsRootBridge(bridge)
         <=> Running(bridge.topology_change_timer)

(***************************************************************************)
(* A root that announces a topology change will stop to.                   *)
(***************************************************************************)
AnnouncementEnds ==
  Managed = {} /\ IsRootBridge(bridge) /\ bridge.topology_change =>
    Running(bridge.topology_change_timer)

(***************************************************************************)
(* Everything sent is what the sender stands for when the operation ends:  *)
(* config BPDUs leave by designated ports only, and carry the root, cost   *)
(* and names that those ports then stand for; a TCN leaves by the root     *)
(* port.                                                                   *)
(***************************************************************************)
SentByRole ==
  \A bpdu \in bridge.out :
    LET p == bpdu.via
    IN  /\ bpdu.type = "config" =>
             /\ IsDesignatedPort(bridge, p) /\ bridge.port[p].state # "blocking"
             /\ bridge.port[p].info =
                  [root |-> bpdu.root, cost |-> bpdu.cost,
                   bridge |-> bpdu.bridge, port |-> bpdu.port]
        /\ bpdu.type = "tcn" /\ ~Orphan(bridge) => p = bridge.root_port

(***************************************************************************)
(* What may become of the way of port p to forwarding in one step: nothing;*)
(* it leaves the tree; it enters the tree, and starts to wait; it waits; or*)
(* it has waited for the forward delay and advances by one state.          *)
(***************************************************************************)
Waits(port) == <<port.state, port.forward_delay_timer>>

Abandoned == {"blocking", "disabled", "absent"} \X {Off}

Advancing ==
  { << <<"listening", "learning">>, 0 >>, << <<"learning", "forwarding">>, Off >> }

Proceeds(p) ==
  LET was == bridge.port[p]
      is == bridge'.port[p]
      served == TimerExpired(was.forward_delay_timer, elapsed, bridge.times.forward_delay)
  IN  \/ Waits(is) = Waits(was)
      \/ Waits(is) \in Abandoned
      \/ was.state \in {"blocking", "disabled", "absent"} /\ Waits(is) = <<"listening", 0>>
      \/ /\ phase = "delaying" /\ p \in todo /\ Running(was.forward_delay_timer)
         /\ IF served
            THEN << <<was.state, is.state>>, is.forward_delay_timer >> \in Advancing
            ELSE Waits(is) = <<was.state, was.forward_delay_timer + elapsed>>

(***************************************************************************)
(* A port forwards only when it has been in the tree for the forward delay *)
(* twice, whatever roles it had meanwhile and however often they were      *)
(* selected: no operation lets it skip a wait, and none makes a port that  *)
(* stays in the tree wait again (MakeForwarding, MakeBlocking,             *)
(* ForwardDelayTimerExpiry).                                               *)
(***************************************************************************)
DelayServed == [][\A p \in Ports : Proceeds(p)]_vars

(***************************************************************************)
(* What the comment of GetRootPort says: root_port is a port of the bridge *)
(* or NULL.  RemoveSink deletes the port object and leaves the pointer.    *)
(***************************************************************************)
RootPortExists == bridge.root_port \in {NoPort} \cup PortsOf(bridge)

-----------------------------------------------------------------------------
(***************************************************************************)
(* Liveness.                                                               *)
(***************************************************************************)
(***************************************************************************)
(* A step in which a port hears something new, or the same thing again.    *)
(***************************************************************************)
Refreshed ==
  \E p \in Ports :
    LET before == bridge.port[p].message_age_timer
        after == bridge'.port[p].message_age_timer
    IN  Running(after) /\ (~Running(before) \/ after < before)

(***************************************************************************)
(* A bridge that from some time on hears no better bridge takes over as    *)
(* the root in the end, unless its root port was deleted: the message age  *)
(* timers see to it.                                                       *)
(***************************************************************************)
SilenceRestoresRoot ==
  <>[][~Refreshed]_vars /\ <>[]~Orphan(bridge) => <>[]IsRootBridge(bridge)

(***************************************************************************)
(* A port that is from some time on never blocked forwards in the end.     *)
(***************************************************************************)
UnblockedForwards ==
  \A p \in Ports :
    <>[](p \in EnabledPorts(bridge) /\ bridge.port[p].state # "blocking")
      => <>[](p \in PortsOf(bridge) /\ bridge.port[p].state = "forwarding")
=============================================================================
