-------------------------------- MODULE STP --------------------------------
(***************************************************************************)
(* The spanning tree protocol entity of the virtual switch, CVSwitchSTP    *)
(* (src/src/vswitch/CVSwitchSTP.cpp), as pure operators from a bridge      *)
(* record to a bridge record.  A bridge record b holds the fields of       *)
(* CVSwitchSTP under their own names, with                                 *)
(*    b.times, b.bridge_times  max_age, hello_time and forward_delay, as   *)
(*                             learnt from the root and as configured here *)
(*    b.port                   the map ports: port id -> port record, with *)
(*                             AbsentPort for an id that is not in it      *)
(*    b.out                    the BPDUs the last operation handed to the  *)
(*                             sinks: CVSwitchImp::SendSTPPacket           *)
(* A port record holds the fields of CVSwitchSTPPort; its designated_root, *)
(* designated_cost, designated_bridge and designated_port are p.info.      *)
(* The counters rx_count, tx_count and error_count, port_name and the log  *)
(* are left out: no step reads them.                                       *)
(***************************************************************************)
EXTENDS Integers, FiniteSets

CONSTANTS
  Ports,          \* the port ids CVSwitchImp::AddSink may allocate
  HoldTime,       \* least time between two BPDUs of a port: 1 s, 256 ticks
  AgeIncrement,   \* MESSAGE_AGE_INCREMENT
  Off,            \* what a timer that is not active holds
  Ages            \* the values found in a timer that was never set

ASSUME PortsAssumption == Ports \subseteq Nat \ {0}
ASSUME HoldTimeAssumption == HoldTime \in Nat \ {0}
ASSUME AgeIncrementAssumption == AgeIncrement \in Nat
ASSUME OffAssumption == Off \notin Int
ASSUME AgesAssumption == Ages \subseteq Nat /\ Ages # {}

(***************************************************************************)
(* root_port is a pointer.  NoPort is NULL; StalePort is the address of a  *)
(* port object that RemoveSink has deleted: nothing resets root_port then. *)
(***************************************************************************)
NoPort == 0
StalePort == -1

(***************************************************************************)
(* A stopped timer is Off, a running one its value, counting up.           *)
(***************************************************************************)
Running(timer) == timer # Off

TimerExpired(timer, elapsed, timeout) ==
  Running(timer) /\ timer + elapsed >= timeout

TimerAfter(timer, elapsed, timeout) ==
  IF ~Running(timer) \/ TimerExpired(timer, elapsed, timeout)
  THEN Off
  ELSE timer + elapsed

StpStates == {"disabled", "listening", "learning", "forwarding", "blocking"}

AbsentPort ==
  [state |-> "absent", path_cost |-> 1,
   info |-> [root |-> 0, cost |-> 0, bridge |-> 0, port |-> 0],
   topology_change_ack |-> FALSE, config_pending |-> FALSE,
   change_detection_enabled |-> FALSE,
   message_age_timer |-> Off, forward_delay_timer |-> Off,
   hold_timer |-> Off, state_changed |-> FALSE]

stp_blocking_in_state(state) == state = "blocking"
stp_forward_in_state(state) == state = "forwarding"
stp_learn_in_state(state) == state \in {"learning", "forwarding"}

-----------------------------------------------------------------------------
(***************************************************************************)
(* What undefined or unspecified behaviour decides while an operation runs *)
(*    late    in a walk over the unordered map ports, whether the root     *)
(*            port is visited after the ports that detect a change         *)
(*    age     the value read from the message age timer of a port object   *)
(*            that is deleted, or whose timer was never started            *)
(*    target  the port_id read from a deleted port object                  *)
(***************************************************************************)
Whims == [late: BOOLEAN, age: Nat, target: Ports \cup {NoPort}]

PortsOf(b) == {p \in Ports : b.port[p].state # "absent"}

EnabledPorts(b) == {p \in PortsOf(b) : b.port[p].state # "disabled"}

IsRootBridge(b) == b.bridge_id = b.designated_root

IsDesignatedPort(b, p) ==
  /\ b.port[p].info.bridge = b.bridge_id
  /\ b.port[p].info.port = p

(***************************************************************************)
(* The root port is a deleted object, or a new one at a deleted one's      *)
(* address: only then do undefined reads make a difference.  The order of  *)
(* a walk over the ports makes one only when some port is blocking.        *)
(***************************************************************************)
Orphan(b) ==
  \/ b.root_port = StalePort
  \/ b.root_port \in Ports /\ IsDesignatedPort(b, b.root_port)

Outcomes(b) ==
  [late: {FALSE} \cup {b.port[p].state = "blocking" : p \in Ports},
   age: IF Orphan(b) THEN Ages ELSE {0},
   target: {NoPort} \cup (IF b.root_port = StalePort THEN Ports ELSE {})]

(***************************************************************************)
(* The priority vector a designated port p advertises.                     *)
(***************************************************************************)
OwnInfo(b, p) ==
  [root |-> b.designated_root, cost |-> b.root_path_cost,
   bridge |-> b.bridge_id, port |-> p]

BecomeDesignatedPort(b, p) == [b EXCEPT !.port[p].info = OwnInfo(b, p)]

(***************************************************************************)
(* Lexicographic order on priority vectors; the smaller one is the better. *)
(***************************************************************************)
Precedes(u, v, n) ==
  \E j \in 1..n : u[j] < v[j] /\ \A i \in 1..(j - 1) : u[i] = v[i]

(***************************************************************************)
(* Whether the config BPDU c is at least as good as what port p knows.     *)
(***************************************************************************)
SupersedesPortInfo(b, p, c) ==
  LET info == b.port[p].info
      heard == <<c.root, c.cost, c.bridge>>
      known == <<info.root, info.cost, info.bridge>>
  IN  \/ Precedes(heard, known, 3)
      \/ heard = known /\ (c.bridge # b.bridge_id \/ c.port <= info.port)

RootVector(b, p) ==
  LET info == b.port[p].info
  IN  <<info.root, info.cost + b.port[p].path_cost, info.bridge, info.port, p>>

SupersedesRoot(b, p, q) == Precedes(RootVector(b, q), RootVector(b, p), 5)

RootCandidates(b) ==
  {p \in EnabledPorts(b) :
     ~IsDesignatedPort(b, p) /\ b.port[p].info.root < b.bridge_id}

BestRootPort(b) ==
  CHOOSE p \in RootCandidates(b) :
    \A q \in RootCandidates(b) : ~SupersedesRoot(b, p, q)

(***************************************************************************)
(* Mutation of RootSelection: root_path_cost is not reset.                 *)
(***************************************************************************)
RootSelectionKeepingCost(b) ==
  IF RootCandidates(b) = {}
  THEN [b EXCEPT !.root_port = NoPort, !.designated_root = b.bridge_id]
  ELSE LET r == BestRootPort(b)
       IN  [b EXCEPT !.root_port = r,
                     !.designated_root = b.port[r].info.root,
                     !.root_path_cost = b.port[r].info.cost
                                          + b.port[r].path_cost]

RootSelection(b) ==
  IF RootCandidates(b) = {}
  THEN [b EXCEPT !.root_port = NoPort,
                 !.designated_root = b.bridge_id,
                 !.root_path_cost = 0]
  ELSE LET r == BestRootPort(b)
       IN  [b EXCEPT !.root_port = r,
                     !.designated_root = b.port[r].info.root,
                     !.root_path_cost = b.port[r].info.cost
                                          + b.port[r].path_cost]

(***************************************************************************)
(* Whether this bridge is the one to serve the segment of port p.          *)
(***************************************************************************)
ServesSegment(b, p) ==
  LET info == b.port[p].info
  IN  \/ IsDesignatedPort(b, p)
      \/ info.root # b.designated_root
      \/ Precedes(<<b.root_path_cost, b.bridge_id, p>>,
                  <<info.cost, info.bridge, info.port + 1>>, 3)

DesignatedPortSelection(b) ==
  [b EXCEPT !.port = [p \in Ports |->
     IF p \in EnabledPorts(b) /\ ServesSegment(b, p)
     THEN [b.port[p] EXCEPT !.info = OwnInfo(b, p)]
     ELSE b.port[p]]]

(***************************************************************************)
(* Mutation of ConfigurationUpdate: it ends with RootSelection.            *)
(***************************************************************************)
ConfigurationUpdateOfRoot(b) == RootSelection(b)

ConfigurationUpdate(b) == DesignatedPortSelection(RootSelection(b))

-----------------------------------------------------------------------------
(***************************************************************************)
(* BPDUs leave through CVSwitchImp::SendSTPPacket, which looks the port up *)
(* and drops what a blocking port would send.                              *)
(***************************************************************************)
Tcn(p) == [type |-> "tcn", via |-> p]

(***************************************************************************)
(* Mutation of SendBPDU: the port is not looked up.                        *)
(***************************************************************************)
SendBPDUUnchecked(b, p, bpdu) == [b EXCEPT !.out = @ \cup {bpdu}]

SendBPDU(b, p, bpdu) ==
  IF p \in PortsOf(b) /\ ~stp_blocking_in_state(b.port[p].state)
  THEN [b EXCEPT !.out = @ \cup {bpdu}]
  ELSE b

TransmitTcn(b, w) ==
  LET p == IF b.root_port = StalePort THEN w.target ELSE b.root_port
  IN  SendBPDU(b, p, Tcn(p))

(***************************************************************************)
(* The age a config BPDU carries, 16 bits wide: the stopped timer of a     *)
(* root port that took over a deleted port's address has no value of its   *)
(* own.                                                                    *)
(***************************************************************************)
AgeModulus == 65536

MessageAge(b, w) ==
  CASE IsRootBridge(b) -> 0
    [] ~IsRootBridge(b) /\ b.root_port \in Ports
         /\ Running(b.port[b.root_port].message_age_timer) ->
           (b.port[b.root_port].message_age_timer + AgeIncrement) % AgeModulus
    [] OTHER -> (w.age + AgeIncrement) % AgeModulus

ConfigBpdu(b, p, w) ==
  [type |-> "config", via |-> p,
   root |-> b.designated_root, cost |-> b.root_path_cost,
   bridge |-> b.bridge_id, port |-> p,
   message_age |-> MessageAge(b, w), times |-> b.times,
   tca |-> b.port[p].topology_change_ack, tc |-> b.topology_change]

(***************************************************************************)
(* TransmitConfig, on every port of the set P: a port whose hold timer     *)
(* runs only notes that it owes a BPDU.                                    *)
(***************************************************************************)
TransmitConfigs(b, P, w) ==
  LET held == {p \in P : Running(b.port[p].hold_timer)}
      sending == {p \in P \ held : MessageAge(b, w) < b.times.max_age}
  IN  IF ~IsRootBridge(b) /\ b.root_port = NoPort
      THEN b
      ELSE [b EXCEPT
              !.port = [p \in Ports |->
                 IF p \in held
                 THEN [b.port[p] EXCEPT !.config_pending = TRUE]
                 ELSE IF p \in sending
                 THEN [b.port[p] EXCEPT !.topology_change_ack = FALSE,
                                        !.config_pending = FALSE,
                                        !.hold_timer = 0]
                 ELSE b.port[p]],
              !.out = @ \cup {ConfigBpdu(b, p, w) : p \in
                 {q \in sending : ~stp_blocking_in_state(b.port[q].state)}}]

(***************************************************************************)
(* Mutation of ConfigBpduGeneration: ports that are not designated send    *)
(* too.                                                                    *)
(***************************************************************************)
ConfigBpduGenerationByAll(b, w) == TransmitConfigs(b, EnabledPorts(b), w)

ConfigBpduGeneration(b, w) ==
  TransmitConfigs(b, {p \in EnabledPorts(b) : IsDesignatedPort(b, p)}, w)

-----------------------------------------------------------------------------
(***************************************************************************)
(* Topology changes: the root announces one for a while, any other bridge  *)
(* notifies the root, and repeats it until it is acknowledged.             *)
(***************************************************************************)
TopologyChangeDetection(b, w) ==
  LET told == IF IsRootBridge(b)
              THEN [b EXCEPT !.topology_change = TRUE,
                             !.topology_change_timer = 0]
              ELSE IF ~b.topology_change_detected
              THEN [TransmitTcn(b, w) EXCEPT !.tcn_timer = 0]
              ELSE b
  IN  [told EXCEPT !.fdb_needs_flush = TRUE, !.topology_change_detected = TRUE]

TopologyChangeAcknowledged(b) ==
  [b EXCEPT !.topology_change_detected = FALSE, !.tcn_timer = Off]

AcknowledgeTopologyChange(b, p, w) ==
  TransmitConfigs([b EXCEPT !.port[p].topology_change_ack = TRUE], {p}, w)

(***************************************************************************)
(* SetPortState, on a port record.                                         *)
(***************************************************************************)
WithState(port, state) ==
  [port EXCEPT !.state = state,
               !.state_changed = @ \/ port.state # state]

(***************************************************************************)
(* Mutation of MakeForwarding: every selection of a port starts it anew.   *)
(***************************************************************************)
MakeForwardingAnew(port) ==
  [WithState(port, "listening") EXCEPT !.forward_delay_timer = 0]

MakeForwarding(port) ==
  IF port.state = "blocking"
  THEN [WithState(port, "listening") EXCEPT !.forward_delay_timer = 0]
  ELSE port

(***************************************************************************)
(* Mutation of MakeBlocking: the forward delay timer is not stopped.       *)
(***************************************************************************)
MakeBlockingTimed(port) ==
  IF port.state \in {"disabled", "blocking"}
  THEN port
  ELSE WithState(port, "blocking")

MakeBlocking(port) ==
  IF port.state \in {"disabled", "blocking"}
  THEN port
  ELSE [WithState(port, "blocking") EXCEPT !.forward_delay_timer = Off]

(***************************************************************************)
(* Mutation of Silenced: an acknowledgement stays owed.                    *)
(***************************************************************************)
SilencedPendingOnly(port) == [port EXCEPT !.config_pending = FALSE]

Silenced(port) ==
  [port EXCEPT !.config_pending = FALSE, !.topology_change_ack = FALSE]

SelectedPort(b, p) ==
  CASE p \notin EnabledPorts(b) -> b.port[p]
    [] p \in EnabledPorts(b) /\ p = b.root_port ->
         MakeForwarding(Silenced(b.port[p]))
    [] p \in EnabledPorts(b) /\ p # b.root_port /\ IsDesignatedPort(b, p) ->
         MakeForwarding([b.port[p] EXCEPT !.message_age_timer = Off])
    [] OTHER -> MakeBlocking(Silenced(b.port[p]))

(***************************************************************************)
(* PortStateSelection walks over the ports; each port's own outcome does   *)
(* not depend on the order, but a TCN sent on the way is lost when the     *)
(* root port is still blocking at that point of the walk.                  *)
(***************************************************************************)
LeavesTraffic(b, p) ==
  /\ p # b.root_port
  /\ ~IsDesignatedPort(b, p)
  /\ stp_learn_in_state(b.port[p].state)
  /\ b.port[p].change_detection_enabled

PortStateSelection(b, w) ==
  LET selected == [p \in Ports |-> SelectedPort(b, p)]
      before == IF w.late THEN b ELSE [b EXCEPT !.port = selected]
  IN  IF \E p \in EnabledPorts(b) : LeavesTraffic(b, p)
      THEN [TopologyChangeDetection(before, w) EXCEPT !.port = selected]
      ELSE [b EXCEPT !.port = selected]

BecomeRootBridge(b, w) ==
  LET owning == [b EXCEPT !.times = b.bridge_times]
      detected == [TopologyChangeDetection(owning, w) EXCEPT !.tcn_timer = Off]
  IN  [ConfigBpduGeneration(detected, w) EXCEPT !.hello_timer = 0]

(***************************************************************************)
(* Mutation of Reconfigure: PortStateSelection is left out.                *)
(***************************************************************************)
ReconfigureRolesOnly(b, w) == ConfigurationUpdate(b)

(***************************************************************************)
(* ConfigurationUpdate(); PortStateSelection(); and, when that makes this  *)
(* bridge the root, what BecomeRootBridge does.                            *)
(***************************************************************************)
Reconfigure(b, w) == PortStateSelection(ConfigurationUpdate(b), w)

(***************************************************************************)
(* Mutation of ReconfigureOrLead: BecomeRootBridge is left out.            *)
(***************************************************************************)
ReconfigureOnly(b, w) == Reconfigure(b, w)

ReconfigureOrLead(b, w) ==
  LET next == Reconfigure(b, w)
  IN  IF IsRootBridge(next) /\ ~IsRootBridge(b)
      THEN BecomeRootBridge(next, w)
      ELSE next

-----------------------------------------------------------------------------
(***************************************************************************)
(* The constructor: a bridge that is alone, and so its own root.           *)
(***************************************************************************)
NewBridge(id, times) ==
  [bridge_id |-> id, designated_root |-> id, root_path_cost |-> 0,
   root_port |-> NoPort, times |-> times, bridge_times |-> times,
   topology_change_detected |-> FALSE, topology_change |-> FALSE,
   hello_timer |-> times.hello_time, tcn_timer |-> Off,
   topology_change_timer |-> Off, fdb_needs_flush |-> FALSE,
   port |-> [p \in Ports |-> AbsentPort], out |-> {}]

(***************************************************************************)
(* InitializePort, for a port object with the given path cost.             *)
(***************************************************************************)
InitialPort(b, p, cost, state, changed) ==
  [state |-> state, path_cost |-> cost, info |-> OwnInfo(b, p),
   topology_change_ack |-> FALSE, config_pending |-> FALSE,
   change_detection_enabled |-> TRUE,
   message_age_timer |-> Off, forward_delay_timer |-> Off,
   hold_timer |-> Off, state_changed |-> changed]

(***************************************************************************)
(* CreatePort and AddPort: the object may lie where a deleted root port    *)
(* lay (reused), and then root_port points to it.                          *)
(***************************************************************************)
CreatePort(b, p, cost, reused) ==
  IF p \in PortsOf(b)
  THEN b
  ELSE [b EXCEPT
          !.root_port = IF @ = StalePort /\ reused THEN p ELSE @,
          !.port[p] = InitialPort(b, p, cost, "disabled", FALSE)]

PortEnable(b, p, w) ==
  IF b.port[p].state # "disabled"
  THEN b
  ELSE PortStateSelection(
         [b EXCEPT !.port[p] =
            InitialPort(b, p, @.path_cost, "blocking", TRUE)], w)

PortDisable(b, p, w) ==
  IF b.port[p].state = "disabled"
  THEN b
  ELSE ReconfigureOrLead(
         [b EXCEPT !.port[p] =
            [Silenced(WithState(@, "disabled"))
               EXCEPT !.info = OwnInfo(b, p),
                      !.message_age_timer = Off,
                      !.forward_delay_timer = Off]], w)

(***************************************************************************)
(* DestroyPort only takes the object out of the map and deletes it.        *)
(***************************************************************************)
DestroyPort(b, p) ==
  [b EXCEPT !.port[p] = AbsentPort,
            !.root_port = IF @ = p THEN StalePort ELSE @]

PortSetPathCost(b, p, cost, w) ==
  IF b.port[p].path_cost = cost
  THEN b
  ELSE Reconfigure([b EXCEPT !.port[p].path_cost = cost], w)

(***************************************************************************)
(* BridgeId, which SetBridgeId and SetBridgePriority end in.               *)
(***************************************************************************)
BridgeId(b, new, w) ==
  LET renamed == [b EXCEPT
        !.port = [p \in Ports |->
           IF p \in EnabledPorts(b) /\ IsDesignatedPort(b, p)
           THEN [b.port[p] EXCEPT !.info.bridge = new]
           ELSE b.port[p]],
        !.bridge_id = new]
      next == Reconfigure(renamed, w)
  IN  IF new = b.bridge_id THEN b
      ELSE IF IsRootBridge(next) /\ ~IsRootBridge(b)
      THEN BecomeRootBridge(next, w)
      ELSE next

(***************************************************************************)
(* The end of UpdateBridgeTimers: the root uses its own times.             *)
(***************************************************************************)
SetBridgeTimes(b, times) ==
  [b EXCEPT !.bridge_times = times,
            !.times = IF IsRootBridge(b) THEN times ELSE @]

-----------------------------------------------------------------------------
(***************************************************************************)
(* Mutation of RecordConfigInformation: the age timer is not started.      *)
(***************************************************************************)
RecordConfigInformationUntimed(b, p, c) ==
  [b EXCEPT
     !.port[p].info = [root |-> c.root, cost |-> c.cost,
                       bridge |-> c.bridge, port |-> c.port]]

(***************************************************************************)
(* ReceivedConfigBpdu                                                      *)
(***************************************************************************)
RecordConfigInformation(b, p, c) ==
  [b EXCEPT
     !.port[p].info = [root |-> c.root, cost |-> c.cost,
                       bridge |-> c.bridge, port |-> c.port],
     !.port[p].message_age_timer = c.message_age]

(***************************************************************************)
(* This bridge has just stopped being the root: a change it was announcing *)
(* is from now on the new root's to announce.                              *)
(***************************************************************************)
YieldRoot(b, w) ==
  LET quiet == [b EXCEPT !.hello_timer = Off]
  IN  IF b.topology_change_detected
      THEN [TransmitTcn(quiet, w) EXCEPT !.topology_change_timer = Off,
                                         !.tcn_timer = 0]
      ELSE quiet

(***************************************************************************)
(* What the root port hears is passed on, with the root's times and flags. *)
(***************************************************************************)
FollowRoot(b, c, w) ==
  LET relayed == ConfigBpduGeneration(
                   [b EXCEPT !.times = c.times, !.topology_change = c.tc], w)
      settled == IF c.tca THEN TopologyChangeAcknowledged(relayed) ELSE relayed
  IN  [settled EXCEPT !.fdb_needs_flush = @ \/ c.tc]

AcceptConfig(b, p, c, w) ==
  LET selected == Reconfigure(RecordConfigInformation(b, p, c), w)
      yielded == IF ~IsRootBridge(selected) /\ IsRootBridge(b)
                 THEN YieldRoot(selected, w)
                 ELSE selected
  IN  IF p = yielded.root_port THEN FollowRoot(yielded, c, w) ELSE yielded

ReceivedConfigBpdu(b, p, c, w) ==
  IF c.message_age >= c.times.max_age
  THEN b
  ELSE IF SupersedesPortInfo(b, p, c)
  THEN AcceptConfig(b, p, c, w)
  ELSE IF IsDesignatedPort(b, p)
  THEN TransmitConfigs(b, {p}, w)
  ELSE b

ReceivedTcnBpdu(b, p, w) ==
  IF IsDesignatedPort(b, p)
  THEN AcknowledgeTopologyChange(TopologyChangeDetection(b, w), p, w)
  ELSE b

(***************************************************************************)
(* ReceivedBpdu: a BPDU of another length, protocol or type is "malformed" *)
(* and only counted.                                                       *)
(***************************************************************************)
ReceivedBpdu(b, p, bpdu, w) ==
  CASE b.port[p].state = "disabled" \/ bpdu.type = "malformed" -> b
    [] b.port[p].state # "disabled" /\ bpdu.type = "config" ->
         ReceivedConfigBpdu(b, p, bpdu, w)
    [] b.port[p].state # "disabled" /\ bpdu.type = "tcn" ->
         ReceivedTcnBpdu(b, p, w)

-----------------------------------------------------------------------------
(***************************************************************************)
(* Tick: first the three timers of the bridge, in this order; then, port   *)
(* by port, the message age timers; then, port by port, the other two.     *)
(***************************************************************************)
HelloTick(b, elapsed, w) ==
  IF TimerExpired(b.hello_timer, elapsed, b.times.hello_time)
  THEN [ConfigBpduGeneration(b, w) EXCEPT !.hello_timer = 0]
  ELSE [b EXCEPT !.hello_timer =
          TimerAfter(@, elapsed, b.times.hello_time)]

(***************************************************************************)
(* Mutation of TcnTick: TcnTimerExpiry does not repeat the TCN.            *)
(***************************************************************************)
TcnTickSilent(b, elapsed, w) ==
  [b EXCEPT !.tcn_timer = TimerAfter(@, elapsed, b.bridge_times.hello_time)]

TcnTick(b, elapsed, w) ==
  IF TimerExpired(b.tcn_timer, elapsed, b.bridge_times.hello_time)
  THEN [TransmitTcn(b, w) EXCEPT !.tcn_timer = 0]
  ELSE [b EXCEPT !.tcn_timer =
          TimerAfter(@, elapsed, b.bridge_times.hello_time)]

(***************************************************************************)
(* Mutation of TopologyChangeTick: the timer stops and nothing else        *)
(* happens.                                                                *)
(***************************************************************************)
TopologyChangeTickForgetful(b, elapsed) ==
  [b EXCEPT !.topology_change_timer =
     TimerAfter(@, elapsed, b.times.max_age + b.times.forward_delay)]

TopologyChangeTick(b, elapsed) ==
  LET limit == b.times.max_age + b.times.forward_delay
      aged == [b EXCEPT !.topology_change_timer = TimerAfter(@, elapsed, limit)]
  IN  IF TimerExpired(b.topology_change_timer, elapsed, limit)
      THEN [aged EXCEPT !.topology_change_detected = FALSE,
                        !.topology_change = FALSE]
      ELSE aged

BridgeTick(b, elapsed, w) ==
  TopologyChangeTick(TcnTick(HelloTick(b, elapsed, w), elapsed, w), elapsed)

MessageAgeTimerExpiry(b, p, w) ==
  ReconfigureOrLead(BecomeDesignatedPort(b, p), w)

MessageAgeTick(b, p, elapsed, w) ==
  LET aged == [b EXCEPT !.port[p].message_age_timer =
                 TimerAfter(@, elapsed, b.times.max_age)]
  IN  IF TimerExpired(b.port[p].message_age_timer, elapsed, b.times.max_age)
      THEN MessageAgeTimerExpiry(aged, p, w)
      ELSE aged

IsDesignatedForSomePort(b) ==
  \E p \in EnabledPorts(b) : b.port[p].info.bridge = b.bridge_id

(***************************************************************************)
(* Mutation of ForwardDelayTimerExpiry: in learning the timer is not       *)
(* started again.                                                          *)
(***************************************************************************)
ForwardDelayTimerExpiryOnce(b, p, w) ==
  CASE b.port[p].state = "listening" ->
         [b EXCEPT !.port[p] = WithState(@, "learning")]
    [] b.port[p].state = "learning" ->
         [b EXCEPT !.port[p] = WithState(@, "forwarding")]
    [] OTHER -> b

ForwardDelayTimerExpiry(b, p, w) ==
  CASE b.port[p].state = "listening" ->
         [b EXCEPT !.port[p] =
            [WithState(@, "learning") EXCEPT !.forward_delay_timer = 0]]
    [] b.port[p].state = "learning" ->
         LET open == [b EXCEPT !.port[p] = WithState(@, "forwarding")]
         IN  IF /\ IsDesignatedForSomePort(open)
                /\ open.port[p].change_detection_enabled
             THEN TopologyChangeDetection(open, w)
             ELSE open
    [] OTHER -> b

ForwardDelayTick(b, p, elapsed, w) ==
  LET aged == [b EXCEPT !.port[p].forward_delay_timer =
                 TimerAfter(@, elapsed, b.times.forward_delay)]
  IN  IF TimerExpired(b.port[p].forward_delay_timer, elapsed,
                      b.times.forward_delay)
      THEN ForwardDelayTimerExpiry(aged, p, w)
      ELSE aged

HoldTick(b, p, elapsed, w) ==
  LET aged == [b EXCEPT !.port[p].hold_timer =
                 TimerAfter(@, elapsed, HoldTime)]
  IN  IF /\ TimerExpired(b.port[p].hold_timer, elapsed, HoldTime)
         /\ b.port[p].config_pending
      THEN TransmitConfigs(aged, {p}, w)
      ELSE aged

PortTick(b, p, elapsed, w) ==
  HoldTick(ForwardDelayTick(b, p, elapsed, w), p, elapsed, w)

(***************************************************************************)
(* Mutation of ChangedPorts: GetChangedPort ends at the first port found.  *)
(***************************************************************************)
FirstChangedPort(b) ==
  {p \in PortsOf(b) :
     /\ b.port[p].state_changed
     /\ \A q \in PortsOf(b) : b.port[q].state_changed => p <= q}

(***************************************************************************)
(* What CVSwitchImp::OnTimer fetches after the tick: the ports whose state *)
(* changed, and whether the learnt addresses are to be flushed.            *)
(***************************************************************************)
ChangedPorts(b) == {p \in PortsOf(b) : b.port[p].state_changed}

Reported(b) ==
  [b EXCEPT !.port = [p \in Ports |->
                        [b.port[p] EXCEPT !.state_changed = FALSE]],
            !.fdb_needs_flush = FALSE]

Quiet(b) == [b EXCEPT !.out = {}]

-----------------------------------------------------------------------------
(***************************************************************************)
(* What a bridge record, and what goes in and comes out of it, is made of. *)
(***************************************************************************)
Times == [max_age: Nat \ {0}, hello_time: Nat \ {0}, forward_delay: Nat \ {0}]

ConfigContents ==
  [type: {"config"}, root: Nat, cost: Nat, bridge: Nat, port: Nat,
   message_age: Nat, times: Times, tca: BOOLEAN, tc: BOOLEAN]

OtherContents == [type: {"tcn", "malformed"}]

Timers == Int \cup {Off}

Infos == [root: Nat, cost: Nat, bridge: Nat, port: Nat]

PortRecords ==
  [state: StpStates \cup {"absent"}, path_cost: Nat \ {0}, info: Infos,
   topology_change_ack: BOOLEAN, config_pending: BOOLEAN,
   change_detection_enabled: BOOLEAN,
   message_age_timer: Timers, forward_delay_timer: Timers,
   hold_timer: Timers, state_changed: BOOLEAN]

SentBpdus ==
  [type: {"tcn"}, via: Ports]
    \cup [type: {"config"}, via: Ports, root: Nat, cost: Nat, bridge: Nat,
          port: Ports, message_age: Nat, times: Times,
          tca: BOOLEAN, tc: BOOLEAN]

Bridges ==
  [bridge_id: Nat, designated_root: Nat, root_path_cost: Nat,
   root_port: Ports \cup {NoPort, StalePort},
   times: Times, bridge_times: Times,
   topology_change_detected: BOOLEAN, topology_change: BOOLEAN,
   hello_timer: Timers, tcn_timer: Timers, topology_change_timer: Timers,
   fdb_needs_flush: BOOLEAN,
   port: [Ports -> PortRecords],
   out: SUBSET SentBpdus]

(***************************************************************************)
(* What is to hold of a bridge b between two operations.                   *)
(***************************************************************************)
RootAgrees(b) ==
  /\ b.root_port = NoPort =>
       b.designated_root = b.bridge_id /\ b.root_path_cost = 0
  /\ b.root_port # NoPort => b.designated_root < b.bridge_id
  /\ b.root_port # NoPort /\ ~Orphan(b) =>
       /\ b.port[b.root_port].state # "disabled"
       /\ b.port[b.root_port].info.root = b.designated_root
       /\ b.port[b.root_port].info.cost + b.port[b.root_port].path_cost
            = b.root_path_cost

PortsAgree(b) ==
  \A p \in EnabledPorts(b) :
    /\ b.port[p].info.root = b.designated_root
    /\ IsDesignatedPort(b, p) => b.port[p].info = OwnInfo(b, p)

RolesAgree(b) ==
  \A p \in EnabledPorts(b) :
    b.port[p].state = "blocking"
      <=> p # b.root_port /\ ~IsDesignatedPort(b, p)

HeardInfoIsTimed(b) ==
  \A p \in EnabledPorts(b) :
    Running(b.port[p].message_age_timer) <=> ~IsDesignatedPort(b, p)

ProgressIsTimed(b) ==
  \A p \in EnabledPorts(b) :
    Running(b.port[p].forward_delay_timer)
      <=> b.port[p].state \in {"listening", "learning"}
=============================================================================
