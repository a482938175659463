--------------------------- MODULE VSwitchProofs ---------------------------
(***************************************************************************)
(* Proofs about STPBridge, for every value of its constants, and then      *)
(* about VSwitch, which extends it.  Those about VSwitch rest on those     *)
(* about STPBridge, and on what each procedure of the spanning tree entity *)
(* shows OnTimer of a port's change.                                       *)
(***************************************************************************)
EXTENDS VSwitch, STPProofs

(***************************************************************************)
(* The inductive invariant.  TypeOK and each agreement alone are not       *)
(* inductive: an operation that updates the configuration relies on the    *)
(* timers of the ports, and the walks of Tick on todo holding none but     *)
(* enabled ports, which only idle phases may remove.                       *)
(***************************************************************************)
IInv ==
  /\ Sound(bridge)
  /\ phase \in {"idle", "aging", "delaying"}
  /\ todo \subseteq EnabledPorts(bridge)
  /\ phase = "idle" => todo = {}
  /\ elapsed \in Int

USE IdAssumption, TimesAssumption, ElapsedAssumption, BpduAssumption,
    CostAssumption

(***************************************************************************)
(* The invariant holds at the start: the bridge is alone and has no port.  *)
(***************************************************************************)
LEMMA InitIInv == Init => IInv
<1>. SUFFICES ASSUME Init PROVE IInv
  OBVIOUS
<1>. DEFINE b == NewBridge(InitialId, InitialTimes)
<1>1. AbsentPort \in PortRecords /\ AbsentPort.state = "absent"
  BY TimersHold DEF AbsentPort, PortRecords, Infos
<1>2. /\ b \in Bridges
      /\ b.bridge_id = b.designated_root /\ b.root_path_cost = 0
      /\ b.root_port = NoPort
      /\ \A p \in Ports : b.port[p].state = "absent"
  <2>. HIDE DEF AbsentPort
  <2>. QED BY <1>1, TimersHold DEF NewBridge, Bridges, Times
<1>. HIDE DEF b
<1>3. PortsOf(b) = {} /\ EnabledPorts(b) = {}
  BY <1>2 DEF PortsOf, EnabledPorts
<1>4. Sound(b)
  BY <1>2, <1>3 DEF Sound, RootPortOK, RootAgrees, PortsAgree, RolesAgree,
     HeardInfoIsTimed, ProgressIsTimed
<1>. QED BY <1>3, <1>4 DEF Init, IInv, b

(***************************************************************************)
(* Every step preserves it.                                                *)
(***************************************************************************)
LEMMA StepIInv == IInv /\ [Next]_vars => IInv'
<1>. SUFFICES ASSUME IInv, [Next]_vars PROVE IInv'
  OBVIOUS
<1>. DEFINE q == Quiet(bridge)
<1>1. /\ Sound(bridge) /\ Sound(q)
      /\ PortsOf(q) = PortsOf(bridge)
      /\ EnabledPorts(q) = EnabledPorts(bridge)
      /\ \A w \in Outcomes(bridge) : w \in Whims
      /\ elapsed \in Int
  BY QuietSound, OutcomesAreWhims DEF IInv
<1>. HIDE DEF q
<1>2. ASSUME Operation, Sound(bridge') PROVE IInv'
  BY <1>2 DEF IInv, Operation
<1>3. ASSUME NEW p \in Ports, AddPort(p) PROVE IInv'
  <2>1. PICK cost \in PathCosts, w \in Outcomes(bridge), reused \in BOOLEAN :
          bridge' = PortEnable(CreatePort(q, p, cost, reused), p, w)
    BY <1>3 DEF AddPort, q
  <2>2. Sound(bridge')
    BY <2>1, <1>1, CreatePortSound, PortEnableSound
  <2>. QED BY <2>2, <1>2, <1>3 DEF AddPort
<1>4. ASSUME NEW p \in Ports, RemovePort(p) PROVE IInv'
  <2>1. Sound(bridge')
    BY <1>1, <1>4, DestroyPortSound DEF RemovePort, q
  <2>. QED BY <2>1, <1>2, <1>4 DEF RemovePort
<1>5. ASSUME NEW p \in Ports, Receive(p) PROVE IInv'
  <2>1. PICK bpdu \in Arriving(p), w \in Outcomes(bridge) :
          bridge' = ReceivedBpdu(q, p, bpdu, w)
    BY <1>5 DEF Receive, q
  <2>2. bpdu \in ConfigContents \cup OtherContents
    BY DEF Arriving
  <2>3. Sound(bridge')
    BY <2>1, <2>2, <1>1, <1>5, ReceivedBpduSound DEF Receive
  <2>. QED BY <2>3, <1>2, <1>5 DEF Receive
<1>6. ASSUME NEW p \in Ports, DisablePort(p) PROVE IInv'
  <2>1. Sound(bridge')
    BY <1>1, <1>6, PortDisableSound DEF DisablePort, q
  <2>. QED BY <2>1, <1>2, <1>6 DEF DisablePort
<1>7. ASSUME NEW p \in Ports, EnablePort(p) PROVE IInv'
  <2>1. Sound(bridge')
    BY <1>1, <1>7, PortEnableSound DEF EnablePort, q
  <2>. QED BY <2>1, <1>2, <1>7 DEF EnablePort
<1>8. ASSUME NEW p \in Ports, SetPathCost(p) PROVE IInv'
  <2>1. Sound(bridge')
    BY <1>1, <1>8, PortSetPathCostSound DEF SetPathCost, q
  <2>. QED BY <2>1, <1>2, <1>8 DEF SetPathCost
<1>9. ASSUME NEW p \in Ports, SetChangeDetection(p) PROVE IInv'
  <2>1. PICK on \in BOOLEAN :
          bridge' = [q EXCEPT !.port[p].change_detection_enabled = on]
    BY <1>9 DEF SetChangeDetection, q
  <2>. DEFINE x == [q.port[p] EXCEPT !.change_detection_enabled = on]
  <2>2. q.port[p] \in PortRecords /\ q \in Bridges
    BY <1>1 DEF Sound, Bridges
  <2>3. x \in PortRecords /\ SamePort(q.port[p], x)
    BY <2>2 DEF PortRecords, SamePort
  <2>4. bridge' = [q EXCEPT !.port[p] = x]
    BY <2>1, <2>2 DEF Bridges, PortRecords
  <2>. HIDE DEF x
  <2>5. bridge' \in Bridges /\ SameStanding(q, bridge')
    BY <2>2, <2>3, <2>4 DEF Bridges, SameStanding, SamePort
  <2>6. Sound(bridge')
    BY <2>5, <1>1, SameStandingSound
  <2>. QED BY <2>6, <1>2, <1>9 DEF SetChangeDetection
<1>10. ASSUME SetBridgeId PROVE IInv'
  <2>1. Sound(bridge')
    BY <1>1, <1>10, BridgeIdSound DEF SetBridgeId, q
  <2>. QED BY <2>1, <1>2, <1>10 DEF SetBridgeId
<1>11. ASSUME SetTimes PROVE IInv'
  <2>1. Sound(bridge')
    BY <1>1, <1>11, SetBridgeTimesSound DEF SetTimes, q
  <2>. QED BY <2>1, <1>2, <1>11 DEF SetTimes
<1>12. ASSUME StartTick PROVE IInv'
  <2>1. PICK w \in Outcomes(bridge) : bridge' = BridgeTick(q, elapsed, w)
    BY <1>12 DEF StartTick, q
  <2>2. bridge' \in Bridges /\ SameStanding(q, bridge')
    BY <2>1, <1>1, BridgeTickKeeps DEF Sound
  <2>3. Sound(bridge') /\ EnabledPorts(bridge') = EnabledPorts(bridge)
    BY <2>2, <1>1, SameStandingSound, SameSets
  <2>. QED BY <2>3, <1>12 DEF StartTick, Starting, IInv
<1>13. ASSUME NEW p \in Ports, AgePort(p) PROVE IInv'
  <2>1. p \in EnabledPorts(q)
    BY <1>1, <1>13 DEF AgePort, Visiting, IInv
  <2>2. Sound(bridge') /\ EnabledPorts(bridge') = EnabledPorts(bridge)
    BY <2>1, <1>1, <1>13, MessageAgeTickSound DEF AgePort, q
  <2>. QED BY <2>2, <1>13 DEF AgePort, Visiting, IInv
<1>14. ASSUME EndAging PROVE IInv'
  BY <1>1, <1>14 DEF EndAging, Turning, IInv, q
<1>15. ASSUME NEW p \in Ports, DelayPort(p) PROVE IInv'
  <2>1. p \in EnabledPorts(q)
    BY <1>1, <1>15 DEF DelayPort, Visiting, IInv
  <2>2. Sound(bridge') /\ EnabledPorts(bridge') = EnabledPorts(bridge)
    BY <2>1, <1>1, <1>15, PortTickSound DEF DelayPort, q
  <2>. QED BY <2>2, <1>15 DEF DelayPort, Visiting, IInv
<1>16. ASSUME Report PROVE IInv'
  <2>. DEFINE port == [p \in Ports |-> [q.port[p] EXCEPT !.state_changed = FALSE]]
  <2>1. bridge' = [q EXCEPT !.port = port, !.fdb_needs_flush = FALSE]
    BY <1>16 DEF Report, Reported, q
  <2>2. \A p \in Ports : port[p] \in PortRecords /\ SamePort(q.port[p], port[p])
    <3>1. \A p \in Ports : q.port[p] \in PortRecords
      BY <1>1 DEF Sound, Bridges
    <3>. QED BY <3>1 DEF PortRecords, SamePort
  <2>3. port \in [Ports -> PortRecords]
    BY <2>2
  <2>. HIDE DEF port
  <2>4. bridge' \in Bridges /\ SameStanding(q, bridge')
    BY <2>1, <2>2, <2>3, <1>1 DEF Sound, Bridges, SameStanding
  <2>5. Sound(bridge') /\ EnabledPorts(bridge') = EnabledPorts(bridge)
    BY <2>4, <1>1, SameStandingSound, SameSets
  <2>. QED BY <2>5, <1>16 DEF Report, Ending, IInv
<1>17. ASSUME UNCHANGED vars PROVE IInv'
  BY <1>17 DEF vars, IInv
<1>. QED BY <1>3, <1>4, <1>5, <1>6, <1>7, <1>8, <1>9, <1>10, <1>11, <1>12,
        <1>13, <1>14, <1>15, <1>16, <1>17 DEF Next, Tick

(***************************************************************************)
(* Whatever its callers and neighbours do, the bridge is sound.            *)
(***************************************************************************)
THEOREM Invariance == Spec => []IInv
  BY InitIInv, StepIInv, PTL DEF Spec

(***************************************************************************)
(* Every state the protocol entity reaches is well typed, and root_port    *)
(* never holds an id that is neither a port nor known to be stale.         *)
(***************************************************************************)
THEOREM TypeCorrectness == Spec => []TypeOK
<1>1. IInv => TypeOK
  BY DEF IInv, Sound, RootPortOK, TypeOK
<1>. QED BY <1>1, Invariance, PTL

(***************************************************************************)
(* Root port, root and cost agree after every operation of the protocol.   *)
(***************************************************************************)
THEOREM RootAgreementHolds == Spec => []RootAgreement
<1>1. IInv => RootAgreement
  BY DEF IInv, Sound, RootAgreement
<1>. QED BY <1>1, Invariance, PTL

(***************************************************************************)
(* Enabled ports agree with the bridge on the root, and designated ones    *)
(* advertise what it believes, after every operation.                      *)
(***************************************************************************)
THEOREM PortAgreementHolds == Spec => []PortAgreement
<1>1. IInv => PortAgreement
  BY DEF IInv, Sound, PortAgreement
<1>. QED BY <1>1, Invariance, PTL

(***************************************************************************)
(* Exactly the ports without a role are blocking, after every operation.   *)
(***************************************************************************)
THEOREM RoleAgreementHolds == Spec => []RoleAgreement
<1>1. IInv => RoleAgreement
  BY DEF IInv, Sound, RoleAgreement
<1>. QED BY <1>1, Invariance, PTL

(***************************************************************************)
(* A neighbour's information is never kept without a running age timer.    *)
(***************************************************************************)
THEOREM HeardInfoAgesHolds == Spec => []HeardInfoAges
<1>1. IInv => HeardInfoAges
  BY DEF IInv, Sound, HeardInfoAges
<1>. QED BY <1>1, Invariance, PTL

(***************************************************************************)
(* A port on its way to forwarding always has its delay timer running.     *)
(***************************************************************************)
THEOREM ForwardDelayRunsHolds == Spec => []ForwardDelayRuns
<1>1. IInv => ForwardDelayRuns
  BY DEF IInv, Sound, ForwardDelayRuns
<1>. QED BY <1>1, Invariance, PTL

-----------------------------------------------------------------------------
(***************************************************************************)
(* What is owed, said and carried on, on top of the above: two setters of  *)
(* the STP class that nothing calls may spoil the last two parts.          *)
(***************************************************************************)
SInv ==
  /\ TalksByRole(bridge)
  /\ Managed = {} => Leads(bridge)
  /\ Managed = {} /\ NewIds \subseteq {InitialId} =>
       bridge.bridge_id = InitialId /\ Carries(bridge)

(***************************************************************************)
(* A new bridge is a root that has said and seen nothing.                  *)
(***************************************************************************)
LEMMA InitSInv == Init => SInv
<1>. SUFFICES ASSUME Init PROVE SInv
  OBVIOUS
<1>1. /\ bridge.bridge_id = InitialId
      /\ bridge.bridge_id = bridge.designated_root
      /\ bridge.hello_timer = InitialTimes.hello_time
      /\ bridge.tcn_timer = Off /\ bridge.topology_change_timer = Off
      /\ ~bridge.topology_change /\ ~bridge.topology_change_detected
      /\ bridge.out = {}
      /\ EnabledPorts(bridge) = {}
  BY DEF Init, NewBridge, EnabledPorts, PortsOf, AbsentPort
<1>2. Running(bridge.hello_timer)
  BY <1>1, TimersHold DEF Times
<1>3. Leads(bridge)
  BY <1>1, <1>2 DEF Leads, Leading
<1>4. Carries(bridge)
  BY <1>1, TimersHold DEF Carries
<1>5. TalksByRole(bridge)
  BY <1>1 DEF TalksByRole, OwesByRole, SpokeByRole
<1>. QED BY <1>1, <1>3, <1>4, <1>5 DEF SInv

(***************************************************************************)
(* Every step of a sound bridge preserves it.                              *)
(***************************************************************************)
LEMMA StepSInv == IInv /\ SInv /\ [Next]_vars => SInv'
<1>. SUFFICES ASSUME IInv, SInv, [Next]_vars PROVE SInv'
  OBVIOUS
<1>. DEFINE q == Quiet(bridge)
<1>1. /\ Sound(bridge) /\ Poised(q)
      /\ Leads(bridge) => Leads(q)
      /\ Carries(bridge) => Carries(q)
      /\ q.bridge_id = bridge.bridge_id
  BY QuietIsPoised, SameNewsKeeps DEF IInv, SInv
<1>2. /\ PortsOf(q) = PortsOf(bridge)
      /\ EnabledPorts(q) = EnabledPorts(bridge)
      /\ \A w \in Outcomes(bridge) : w \in Whims
      /\ elapsed \in Int
  BY <1>1, QuietSound, OutcomesAreWhims DEF IInv
<1>. HIDE DEF q
<1>3. ASSUME Conveys(q, bridge') PROVE SInv'
  BY <1>1, <1>3 DEF SInv, Conveys
<1>4. ASSUME NEW p \in Ports, AddPort(p) PROVE SInv'
  <2>1. PICK cost \in PathCosts, w \in Outcomes(bridge), reused \in BOOLEAN :
          bridge' = PortEnable(CreatePort(q, p, cost, reused), p, w)
    BY <1>4 DEF AddPort, q
  <2>. DEFINE t == CreatePort(q, p, cost, reused)
  <2>2. Poised(t) /\ Conveys(q, t) /\ p \in PortsOf(t)
    BY <1>1, CreatePortConveys, CreatePortSound DEF Poised
  <2>. HIDE DEF t
  <2>3. Conveys(t, PortEnable(t, p, w))
    BY <1>2, <2>2, PortEnableConveys
  <2>. QED BY <1>3, <2>1, <2>2, <2>3, ConveysTransitive DEF t
<1>5. ASSUME NEW p \in Ports, RemovePort(p) PROVE SInv'
  BY <1>1, <1>2, <1>3, <1>5, DestroyPortConveys DEF RemovePort, q
<1>6. ASSUME NEW p \in Ports, Receive(p) PROVE SInv'
  <2>1. PICK bpdu \in Arriving(p), w \in Outcomes(bridge) :
          bridge' = ReceivedBpdu(q, p, bpdu, w)
    BY <1>6 DEF Receive, q
  <2>2. /\ bpdu \in ConfigContents \cup OtherContents
        /\ bpdu.type = "config" => ~(bpdu.bridge = q.bridge_id /\ bpdu.port = p)
    BY <1>1 DEF Arriving, OtherContents
  <2>3. Conveys(q, bridge')
    BY <2>1, <2>2, <1>1, <1>2, <1>6, ReceivedBpduConveys DEF Receive
  <2>. QED BY <2>3, <1>3
<1>7. ASSUME NEW p \in Ports, DisablePort(p) PROVE SInv'
  BY <1>1, <1>2, <1>3, <1>7, PortDisableConveys DEF DisablePort, q
<1>8. ASSUME NEW p \in Ports, EnablePort(p) PROVE SInv'
  BY <1>1, <1>2, <1>3, <1>8, PortEnableConveys DEF EnablePort, q
<1>9. ASSUME NEW p \in Ports, SetPathCost(p) PROVE SInv'
  <2>1. Managed # {} /\ p \in PortsOf(q)
    BY <1>2, <1>9 DEF SetPathCost
  <2>2. TalksByRole(bridge')
    BY <1>1, <1>2, <1>9, <2>1, PortSetPathCostSays DEF SetPathCost, q
  <2>. QED BY <2>1, <2>2 DEF SInv
<1>10. ASSUME NEW p \in Ports, SetChangeDetection(p) PROVE SInv'
  <2>1. PICK on \in BOOLEAN :
          bridge' = [q EXCEPT !.port[p].change_detection_enabled = on]
    BY <1>10 DEF SetChangeDetection, q
  <2>. DEFINE x == [q.port[p] EXCEPT !.change_detection_enabled = on]
  <2>2. q.port[p] \in PortRecords /\ q \in Bridges
    BY <1>1 DEF Poised, Sound, Bridges
  <2>3. /\ x.state = q.port[p].state /\ x.info = q.port[p].info
        /\ x.config_pending = q.port[p].config_pending
        /\ x.topology_change_ack = q.port[p].topology_change_ack
    BY <2>2 DEF PortRecords
  <2>4. bridge' = [q EXCEPT !.port[p] = x]
    BY <2>1, <2>2 DEF Bridges, PortRecords
  <2>. HIDE DEF x
  <2>5. SameSpeech(q, bridge') /\ SameNews(q, bridge')
    BY <2>2, <2>3, <2>4, PortAgedSpeaks
  <2>. QED BY <1>1, <1>3, <2>5, SameSpeechConveys
<1>11. ASSUME SetBridgeId PROVE SInv'
  <2>1. PICK id \in NewIds, w \in Outcomes(bridge) : bridge' = BridgeId(q, id, w)
    BY <1>11 DEF SetBridgeId, q
  <2>2. /\ TalksByRole(bridge')
        /\ Leads(q) => Leads(bridge')
        /\ id = q.bridge_id => bridge' = q
    BY <1>1, <1>2, <2>1, BridgeIdSays
  <2>. QED BY <1>1, <2>2 DEF SInv
<1>12. ASSUME SetTimes PROVE SInv'
  BY <1>1, <1>3, <1>12, SetBridgeTimesConveys DEF SetTimes, q
<1>13. ASSUME StartTick PROVE SInv'
  BY <1>1, <1>2, <1>3, <1>13, BridgeTickConveys DEF StartTick, q
<1>14. ASSUME NEW p \in Ports, AgePort(p) PROVE SInv'
  <2>1. p \in EnabledPorts(q)
    BY <1>2, <1>14 DEF AgePort, Visiting, IInv
  <2>. QED BY <2>1, <1>1, <1>2, <1>3, <1>14, MessageAgeTickConveys DEF AgePort, q
<1>15. ASSUME EndAging PROVE SInv'
  BY <1>1, <1>3, <1>15, PoisedTalks DEF EndAging, q
<1>16. ASSUME NEW p \in Ports, DelayPort(p) PROVE SInv'
  <2>1. p \in EnabledPorts(q)
    BY <1>2, <1>16 DEF DelayPort, Visiting, IInv
  <2>. QED BY <2>1, <1>1, <1>2, <1>3, <1>16, PortTickConveys DEF DelayPort, q
<1>17. ASSUME Report PROVE SInv'
  <2>. DEFINE port == [p \in Ports |-> [q.port[p] EXCEPT !.state_changed = FALSE]]
  <2>1. bridge' = [q EXCEPT !.port = port, !.fdb_needs_flush = FALSE]
    BY <1>17 DEF Report, Reported, q
  <2>2. \A p \in Ports : /\ port[p].state = q.port[p].state
                         /\ port[p].info = q.port[p].info
                         /\ port[p].config_pending = q.port[p].config_pending
                         /\ port[p].topology_change_ack = q.port[p].topology_change_ack
    <3>1. \A p \in Ports : q.port[p] \in PortRecords
      BY <1>1 DEF Poised, Sound, Bridges
    <3>. QED BY <3>1 DEF PortRecords
  <2>. HIDE DEF port
  <2>3. SameSpeech(q, bridge') /\ SameNews(q, bridge')
    BY <2>1, <2>2, <1>1 DEF Poised, Sound, Bridges, SameSpeech, SameNews
  <2>. QED BY <1>1, <1>3, <2>3, SameSpeechConveys
<1>18. ASSUME UNCHANGED vars PROVE SInv'
  BY <1>18 DEF vars, SInv
<1>. QED BY <1>4, <1>5, <1>6, <1>7, <1>8, <1>9, <1>10, <1>11, <1>12,
        <1>13, <1>14, <1>15, <1>16, <1>17, <1>18 DEF Next, Tick

(***************************************************************************)
(* Whatever its callers and neighbours do, the bridge owes, says and       *)
(* carries on what its role demands.                                       *)
(***************************************************************************)
THEOREM SpeechInvariance == Spec => []SInv
  BY InitSInv, StepSInv, Invariance, PTL DEF Spec

(***************************************************************************)
(* No port keeps a BPDU or an acknowledgement it owes past its             *)
(* designation, in whatever order ticks and BPDUs change its role.         *)
(***************************************************************************)
THEOREM OwedByDesignatedHolds == Spec => []OwedByDesignated
<1>1. SInv => OwedByDesignated
  BY DEF SInv, TalksByRole, OwesByRole, OwedByDesignated
<1>. QED BY <1>1, SpeechInvariance, PTL

(***************************************************************************)
(* All BPDUs of an operation fit the roles and the vectors the operation   *)
(* ends with, those sent before these were settled too.                    *)
(***************************************************************************)
THEOREM SentByRoleHolds == Spec => []SentByRole
<1>1. IInv /\ SInv => SentByRole
  <2>. SUFFICES ASSUME IInv, SInv, NEW bpdu \in bridge.out, bpdu.type = "config"
                PROVE  LET p == bpdu.via
                       IN  /\ IsDesignatedPort(bridge, p)
                           /\ bridge.port[p].state # "blocking"
                           /\ bridge.port[p].info =
                                [root |-> bpdu.root, cost |-> bpdu.cost,
                                 bridge |-> bpdu.bridge, port |-> bpdu.port]
    BY DEF SInv, TalksByRole, SpokeByRole, SentByRole
  <2>. DEFINE p == bpdu.via
  <2>1. /\ IsDesignatedPort(bridge, p) /\ bridge.port[p].state # "blocking"
        /\ Believed(bridge, bpdu) /\ p \in EnabledPorts(bridge)
    BY DEF SInv, TalksByRole, SpokeByRole
  <2>3. bridge.port[p].info = OwnInfo(bridge, p)
    BY <2>1 DEF IInv, Sound, PortsAgree
  <2>. QED BY <2>1, <2>3 DEF Believed, OwnInfo
<1>. QED BY <1>1, Invariance, SpeechInvariance, PTL

(***************************************************************************)
(* However a bridge became the root, its hello timer runs.                 *)
(***************************************************************************)
THEOREM RootSpeaksHolds == Spec => []RootSpeaks
<1>1. SInv => RootSpeaks
  BY DEF SInv, Leads, Leading, RootSpeaks
<1>. QED BY <1>1, SpeechInvariance, PTL

(***************************************************************************)
(* A root that flags a topology change in its BPDUs runs the timer that    *)
(* ends it, even when it took the flag over from the root before it.       *)
(***************************************************************************)
THEOREM AnnouncementEndsHolds == Spec => []AnnouncementEnds
<1>1. SInv => AnnouncementEnds
  BY DEF SInv, Leads, Leading, AnnouncementEnds
<1>. QED BY <1>1, SpeechInvariance, PTL

(***************************************************************************)
(* While the id of the bridge stays, a detected change is never dropped:   *)
(* gaining or losing the rootship moves it to the other timer.             *)
(***************************************************************************)
THEOREM ChangeCarriedHolds == Spec => []ChangeCarried
<1>1. SInv => ChangeCarried
  BY DEF SInv, Carries, ChangeCarried
<1>. QED BY <1>1, SpeechInvariance, PTL

-----------------------------------------------------------------------------
(***************************************************************************)
(* How far the ports are on their way to forwarding.  Only the selection   *)
(* of states and the forward delay timers change it; every other procedure *)
(* keeps it.                                                               *)
(***************************************************************************)
SameWaits(b, t) == \A p \in Ports : Waits(t.port[p]) = Waits(b.port[p])

Turns(x, y) ==
  \/ Waits(y) = Waits(x)
  \/ Waits(y) \in Abandoned
  \/ x.state = "blocking" /\ Waits(y) = <<"listening", 0>>

Selected(b, t) == \A p \in Ports : Turns(b.port[p], t.port[p])

LEMMA StandingWaits ==
  ASSUME NEW b, NEW t, SameStanding(b, t)
  PROVE  SameWaits(b, t)
  BY DEF SameStanding, SamePort, SameWaits, Waits

LEMMA SelectedAround ==
  ASSUME NEW b, NEW t, NEW u, NEW x,
         SameWaits(b, t), Selected(t, u), SameWaits(u, x)
  PROVE  Selected(b, x)
<1>1. ASSUME NEW p \in Ports PROVE Turns(b.port[p], x.port[p])
  <2>1. /\ Waits(t.port[p]) = Waits(b.port[p]) /\ Waits(x.port[p]) = Waits(u.port[p])
        /\ Turns(t.port[p], u.port[p])
    BY DEF SameWaits, Selected
  <2>2. t.port[p].state = b.port[p].state
    BY <2>1 DEF Waits
  <2>. QED BY <2>1, <2>2 DEF Turns
<1>. QED BY <1>1 DEF Selected

LEMMA SameWaitsSelected ==
  ASSUME NEW b, NEW t, SameWaits(b, t)
  PROVE  SameWaits(b, b) /\ Selected(b, t)
  BY DEF SameWaits, Selected, Turns

(***************************************************************************)
(* PortStateSelection: a port turns only at the border of the tree.        *)
(***************************************************************************)
LEMMA SelectedPortTurns ==
  ASSUME NEW b \in Bridges, NEW p \in Ports
  PROVE  Turns(b.port[p], SelectedPort(b, p))
<1>. DEFINE x == b.port[p]
            y == [x EXCEPT !.message_age_timer = Off]
<1>1. x \in PortRecords /\ Silenced(x) \in PortRecords /\ y \in PortRecords
  BY SilencedShape, TimersHold DEF Bridges, PortRecords
<1>2. /\ Silenced(x).state = x.state
      /\ Silenced(x).forward_delay_timer = x.forward_delay_timer
      /\ y.state = x.state /\ y.forward_delay_timer = x.forward_delay_timer
  BY <1>1 DEF Silenced, PortRecords
<1>3. ASSUME NEW z \in PortRecords, z.state = x.state,
             z.forward_delay_timer = x.forward_delay_timer
      PROVE  Turns(x, MakeForwarding(z))
  <2>1. CASE z.state = "blocking"
    <3>1. Waits(MakeForwarding(z)) = <<"listening", 0>>
      BY <2>1 DEF MakeForwarding, WithState, Waits, PortRecords
    <3>. QED BY <3>1, <2>1, <1>3 DEF Turns
  <2>2. CASE z.state # "blocking"
    BY <2>2, <1>3 DEF MakeForwarding, Turns, Waits
  <2>. QED BY <2>1, <2>2
<1>4. p \in EnabledPorts(b) => Turns(x, MakeBlocking(Silenced(x)))
  <2>. SUFFICES ASSUME p \in EnabledPorts(b) PROVE Turns(x, MakeBlocking(Silenced(x)))
    OBVIOUS
  <2>. DEFINE s == Silenced(x)
  <2>1. s \in PortRecords /\ s.state = x.state /\ s.forward_delay_timer = x.forward_delay_timer
    BY <1>1, <1>2
  <2>. HIDE DEF s
  <2>2. s.state \in {"disabled", "blocking"} => Turns(x, MakeBlocking(s))
    BY <2>1 DEF MakeBlocking, Turns, Waits
  <2>3. s.state \notin {"disabled", "blocking"} => Turns(x, MakeBlocking(s))
    <3>. SUFFICES ASSUME s.state \notin {"disabled", "blocking"}
                  PROVE  Turns(x, MakeBlocking(s))
      OBVIOUS
    <3>1. Waits(MakeBlocking(s)) = <<"blocking", Off>>
      BY <2>1 DEF MakeBlocking, WithState, Waits, PortRecords
    <3>. QED BY <3>1 DEF Turns, Abandoned
  <2>4. Turns(x, MakeBlocking(s))
    BY <2>2, <2>3
  <2>. QED BY <2>4 DEF s
<1>5. SelectedPort(b, p) =
        CASE p \notin EnabledPorts(b) -> x
          [] p \in EnabledPorts(b) /\ p = b.root_port ->
               MakeForwarding(Silenced(x))
          [] p \in EnabledPorts(b) /\ p # b.root_port /\ IsDesignatedPort(b, p) ->
               MakeForwarding(y)
          [] OTHER -> MakeBlocking(Silenced(x))
  BY DEF SelectedPort
<1>6. Turns(x, x)
  BY DEF Turns
<1>. HIDE DEF x, y
<1>7. Turns(x, SelectedPort(b, p))
  BY <1>1, <1>2, <1>3, <1>4, <1>5, <1>6
<1>. QED BY <1>7 DEF x

LEMMA ConfigurationUpdateWaits ==
  ASSUME NEW b \in Bridges
  PROVE  ConfigurationUpdate(b) \in Bridges /\ SameWaits(b, ConfigurationUpdate(b))
<1>. DEFINE r == RootSelection(b)
            port == [p \in Ports |->
                       IF p \in EnabledPorts(r) /\ ServesSegment(r, p)
                       THEN [r.port[p] EXCEPT !.info = OwnInfo(r, p)]
                       ELSE r.port[p]]
            u == [r EXCEPT !.port = port]
<1>1. r \in Bridges /\ r.port = b.port
  BY RootSelectionSelects
<1>2. ConfigurationUpdate(b) = u
  BY DEF ConfigurationUpdate, DesignatedPortSelection
<1>. HIDE DEF r
<1>3. ASSUME NEW p \in Ports
      PROVE  port[p] \in PortRecords /\ Waits(port[p]) = Waits(r.port[p])
  <2>1. r.port[p] \in PortRecords
    BY <1>1 DEF Bridges
  <2>2. OwnInfo(r, p) \in Infos
    BY <1>1, PortsAssumption DEF OwnInfo, Infos, Bridges
  <2>. QED BY <2>1, <2>2 DEF Waits, PortRecords
<1>4. port \in [Ports -> PortRecords]
  BY <1>3
<1>. HIDE DEF port
<1>5. u \in Bridges /\ u.port = port
  BY <1>1, <1>4 DEF Bridges
<1>. QED BY <1>1, <1>2, <1>3, <1>5 DEF SameWaits

LEMMA ReconfigureTurns ==
  ASSUME NEW b \in Bridges, NEW w \in Whims
  PROVE  Reconfigure(b, w) \in Bridges /\ Selected(b, Reconfigure(b, w))
<1>. DEFINE u == ConfigurationUpdate(b)
            t == PortStateSelection(u, w)
<1>1. u \in Bridges /\ SameWaits(b, u)
  BY ConfigurationUpdateWaits
<1>. HIDE DEF u
<1>2. t \in Bridges /\ t.port = [p \in Ports |-> SelectedPort(u, p)]
  BY <1>1, PortStateSelectionShape
<1>. HIDE DEF t
<1>3. Selected(u, t) /\ SameWaits(t, t)
  BY <1>1, <1>2, SelectedPortTurns DEF Selected, SameWaits
<1>4. Selected(b, t)
  BY <1>1, <1>3, SelectedAround
<1>. QED BY <1>2, <1>4 DEF t, u, Reconfigure

LEMMA ReconfigureOrLeadTurns ==
  ASSUME NEW b \in Bridges, NEW w \in Whims
  PROVE  Selected(b, ReconfigureOrLead(b, w))
<1>. DEFINE t == Reconfigure(b, w)
<1>1. t \in Bridges /\ Selected(b, t)
  BY ReconfigureTurns
<1>. HIDE DEF t
<1>2. SameWaits(t, BecomeRootBridge(t, w)) /\ SameWaits(b, b)
  BY <1>1, BecomeRootBridgeKeeps, StandingWaits DEF SameWaits
<1>3. Selected(b, BecomeRootBridge(t, w))
  BY <1>1, <1>2, SelectedAround
<1>. QED BY <1>1, <1>3 DEF ReconfigureOrLead, t

(***************************************************************************)
(* The operations that end in a selection.                                 *)
(***************************************************************************)
LEMMA PortDisableTurns ==
  ASSUME NEW b \in Bridges, NEW p \in PortsOf(b), NEW w \in Whims
  PROVE  Selected(b, PortDisable(b, p, w))
<1>. DEFINE y == Silenced(WithState(b.port[p], "disabled"))
            x == [y EXCEPT !.info = OwnInfo(b, p),
                           !.message_age_timer = Off,
                           !.forward_delay_timer = Off]
            t == [b EXCEPT !.port[p] = x]
<1>1. p \in Ports /\ b.port[p] \in PortRecords
  BY DEF PortsOf, Bridges
<1>2. y \in PortRecords /\ y.state = "disabled"
  BY <1>1 DEF Silenced, WithState, PortRecords, StpStates
<1>3. PortDisable(b, p, w) = IF b.port[p].state = "disabled" THEN b ELSE ReconfigureOrLead(t, w)
  BY <1>1 DEF PortDisable
<1>. HIDE DEF y
<1>4. x \in PortRecords /\ x.state = "disabled" /\ x.forward_delay_timer = Off
  <2>1. OwnInfo(b, p) \in Infos
    BY <1>1, PortsAssumption DEF OwnInfo, Infos, Bridges
  <2>. QED BY <1>2, <2>1, TimersHold DEF PortRecords
<1>. HIDE DEF x
<1>5. t \in Bridges /\ t.port[p] = x /\ \A q \in Ports \ {p} : t.port[q] = b.port[q]
  BY <1>1, <1>4, PortReplaced
<1>. HIDE DEF t
<1>. DEFINE u == ReconfigureOrLead(t, w)
<1>6. Selected(t, u)
  BY <1>5, ReconfigureOrLeadTurns
<1>. HIDE DEF u
<1>7. Turns(b.port[p], u.port[p])
  <2>1. Turns(x, u.port[p])
    BY <1>1, <1>5, <1>6 DEF Selected
  <2>2. Waits(u.port[p]) \in Abandoned
    BY <1>4, <2>1 DEF Turns, Waits, Abandoned
  <2>. QED BY <2>2 DEF Turns
<1>8. Selected(b, u)
  BY <1>5, <1>6, <1>7 DEF Selected
<1>9. Selected(b, b)
  BY DEF Selected, Turns
<1>. QED BY <1>3, <1>8, <1>9 DEF u

LEMMA PortSetPathCostTurns ==
  ASSUME NEW b \in Bridges, NEW p \in PortsOf(b), NEW cost \in Nat \ {0}, NEW w \in Whims
  PROVE  Selected(b, PortSetPathCost(b, p, cost, w))
<1>. DEFINE x == [b.port[p] EXCEPT !.path_cost = cost]
            t == [b EXCEPT !.port[p] = x]
<1>1. p \in Ports /\ b.port[p] \in PortRecords
  BY DEF PortsOf, Bridges
<1>2. x \in PortRecords /\ Waits(x) = Waits(b.port[p])
  BY <1>1 DEF PortRecords, Waits
<1>3. PortSetPathCost(b, p, cost, w) = IF b.port[p].path_cost = cost THEN b ELSE Reconfigure(t, w)
  BY <1>1 DEF PortSetPathCost, Bridges
<1>. HIDE DEF x
<1>4. t \in Bridges /\ t.port[p] = x /\ \A q \in Ports \ {p} : t.port[q] = b.port[q]
  BY <1>1, <1>2, PortReplaced
<1>. HIDE DEF t
<1>5. SameWaits(b, t) /\ SameWaits(b, b) /\ SameWaits(Reconfigure(t, w), Reconfigure(t, w))
  BY <1>2, <1>4 DEF SameWaits
<1>6. Selected(b, Reconfigure(t, w))
  BY <1>4, <1>5, ReconfigureTurns, SelectedAround
<1>7. Selected(b, b)
  BY <1>5, SameWaitsSelected
<1>. QED BY <1>3, <1>6, <1>7

LEMMA BridgeIdTurns ==
  ASSUME NEW b \in Bridges, NEW new \in Nat, NEW w \in Whims
  PROVE  Selected(b, BridgeId(b, new, w))
<1>. DEFINE port == [p \in Ports |->
                       IF p \in EnabledPorts(b) /\ IsDesignatedPort(b, p)
                       THEN [b.port[p] EXCEPT !.info.bridge = new]
                       ELSE b.port[p]]
            t == [b EXCEPT !.port = port, !.bridge_id = new]
            u == Reconfigure(t, w)
<1>1. ASSUME NEW p \in Ports
      PROVE  port[p] \in PortRecords /\ Waits(port[p]) = Waits(b.port[p])
  <2>1. b.port[p] \in PortRecords /\ b.port[p].info \in Infos
    BY DEF Bridges, PortRecords
  <2>2. [b.port[p].info EXCEPT !.bridge = new] \in Infos
    BY <2>1 DEF Infos
  <2>. QED BY <2>1, <2>2 DEF PortRecords, Waits
<1>2. port \in [Ports -> PortRecords]
  BY <1>1
<1>3. BridgeId(b, new, w) =
        IF new = b.bridge_id THEN b
        ELSE IF IsRootBridge(u) /\ ~IsRootBridge(b) THEN BecomeRootBridge(u, w) ELSE u
  BY DEF BridgeId
<1>. HIDE DEF port
<1>4. t \in Bridges /\ t.port = port
  BY <1>2 DEF Bridges
<1>. HIDE DEF t
<1>5. SameWaits(b, t) /\ SameWaits(b, b)
  BY <1>1, <1>4 DEF SameWaits
<1>6. u \in Bridges /\ Selected(t, u)
  BY <1>4, ReconfigureTurns
<1>. HIDE DEF u
<1>7. SameWaits(u, u) /\ SameWaits(u, BecomeRootBridge(u, w))
  BY <1>6, BecomeRootBridgeKeeps, StandingWaits DEF SameWaits
<1>8. Selected(b, u) /\ Selected(b, BecomeRootBridge(u, w)) /\ Selected(b, b)
  BY <1>5, <1>6, <1>7, SelectedAround, SameWaitsSelected
<1>. QED BY <1>3, <1>8

LEMMA ReceivedBpduTurns ==
  ASSUME NEW b, Sound(b), NEW p \in PortsOf(b), NEW w \in Whims,
         NEW c \in ConfigContents \cup OtherContents
  PROVE  Selected(b, ReceivedBpdu(b, p, c, w))
<1>0. b \in Bridges /\ p \in Ports /\ SameWaits(b, b)
  BY DEF Sound, PortsOf, SameWaits
<1>1. CASE b.port[p].state = "disabled" \/ c.type = "malformed"
  BY <1>0, <1>1, SameWaitsSelected DEF ReceivedBpdu
<1>2. CASE b.port[p].state # "disabled" /\ c.type = "tcn"
  <2>. DEFINE t == TopologyChangeDetection(b, w)
              u == AcknowledgeTopologyChange(t, p, w)
  <2>1. ReceivedBpdu(b, p, c, w) = IF IsDesignatedPort(b, p) THEN u ELSE b
    BY <1>2 DEF ReceivedBpdu, ReceivedTcnBpdu
  <2>2. t \in Bridges /\ SameStanding(b, t)
    BY <1>0, TopologyChangeDetectionKeeps
  <2>. HIDE DEF t
  <2>3. SameStanding(b, u)
    BY <1>0, <2>2, AcknowledgeTopologyChangeKeeps, SameStandingTransitive
  <2>. HIDE DEF u
  <2>. QED BY <1>0, <2>1, <2>3, StandingWaits, SameWaitsSelected
<1>3. CASE b.port[p].state # "disabled" /\ c.type \notin {"malformed", "tcn"}
  <2>. DEFINE recorded == RecordConfigInformation(b, p, c)
              selected == Reconfigure(recorded, w)
              yielded == IF ~IsRootBridge(selected) /\ IsRootBridge(b)
                         THEN YieldRoot(selected, w)
                         ELSE selected
              accepted == IF p = yielded.root_port THEN FollowRoot(yielded, c, w) ELSE yielded
  <2>1. c \in ConfigContents /\ c.type = "config"
    BY <1>3 DEF ConfigContents, OtherContents
  <2>2. ReceivedBpdu(b, p, c, w) = ReceivedConfigBpdu(b, p, c, w)
    BY <1>3, <2>1 DEF ReceivedBpdu
  <2>3. AcceptConfig(b, p, c, w) = accepted
    BY DEF AcceptConfig
  <2>4. recorded \in Bridges /\ SameWaits(b, recorded)
    <3>1. recorded \in Bridges
      BY <1>0, <1>3, <2>1, RecordedPrepared DEF Prepared, Updatable, EnabledPorts
    <3>2. ASSUME NEW q \in Ports PROVE Waits(recorded.port[q]) = Waits(b.port[q])
      <4>1. b.port[q] \in PortRecords /\ b.port[p] \in PortRecords
        BY <1>0 DEF Bridges
      <4>. QED BY <1>0, <4>1 DEF RecordConfigInformation, Waits, Bridges, PortRecords
    <3>. QED BY <3>1, <3>2 DEF SameWaits
  <2>. HIDE DEF recorded
  <2>5. selected \in Bridges /\ Selected(recorded, selected)
    BY <2>4, ReconfigureTurns
  <2>. HIDE DEF selected
  <2>6. yielded \in Bridges /\ SameStanding(selected, yielded)
    BY <2>5, YieldRootKeeps DEF SameStanding, SamePort
  <2>. HIDE DEF yielded
  <2>7. SameStanding(yielded, FollowRoot(yielded, c, w)) /\ SameStanding(yielded, yielded)
    BY <2>1, <2>6, FollowRootKeeps DEF SameStanding, SamePort
  <2>8. SameStanding(selected, accepted)
    BY <2>6, <2>7, SameStandingTransitive
  <2>. HIDE DEF accepted
  <2>9. Selected(b, accepted)
    BY <2>4, <2>5, <2>8, StandingWaits, SelectedAround
  <2>10. Selected(b, TransmitConfigs(b, {p}, w))
    BY <1>0, TransmitConfigsKeeps, StandingWaits, SameWaitsSelected
  <2>11. Selected(b, b)
    BY <1>0, SameWaitsSelected
  <2>. QED BY <2>2, <2>3, <2>9, <2>10, <2>11 DEF ReceivedConfigBpdu
<1>. QED BY <1>1, <1>2, <1>3

LEMMA MessageAgeTickTurns ==
  ASSUME NEW b \in Bridges, NEW p \in Ports, NEW ticks \in Int, NEW w \in Whims
  PROVE  Selected(b, MessageAgeTick(b, p, ticks, w))
<1>. DEFINE timer == TimerAfter(b.port[p].message_age_timer, ticks, b.times.max_age)
            x == [b.port[p] EXCEPT !.message_age_timer = timer]
            aged == [b EXCEPT !.port[p] = x]
            y == [x EXCEPT !.info = OwnInfo(aged, p)]
            own == [aged EXCEPT !.port[p] = y]
<1>1. b.port[p] \in PortRecords
  BY DEF Bridges
<1>2. timer \in Timers
  BY <1>1, TimerAfterShape DEF PortRecords
<1>3. \/ MessageAgeTick(b, p, ticks, w) = aged
      \/ MessageAgeTick(b, p, ticks, w) = ReconfigureOrLead(BecomeDesignatedPort(aged, p), w)
  BY <1>1 DEF MessageAgeTick, MessageAgeTimerExpiry, Bridges, PortRecords
<1>. HIDE DEF timer
<1>4. x \in PortRecords /\ Waits(x) = Waits(b.port[p])
  BY <1>1, <1>2 DEF PortRecords, Waits
<1>. HIDE DEF x
<1>5. aged \in Bridges /\ aged.port[p] = x /\ \A q \in Ports \ {p} : aged.port[q] = b.port[q]
  BY <1>4, PortReplaced
<1>. HIDE DEF aged
<1>6. BecomeDesignatedPort(aged, p) = own
  BY <1>5 DEF BecomeDesignatedPort, Bridges
<1>7. y \in PortRecords /\ Waits(y) = Waits(b.port[p])
  BY <1>4, <1>5, PortsAssumption DEF PortRecords, OwnInfo, Infos, Bridges, Waits
<1>. HIDE DEF y
<1>8. own \in Bridges /\ own.port[p] = y /\ \A q \in Ports \ {p} : own.port[q] = aged.port[q]
  BY <1>5, <1>7, PortReplaced
<1>. HIDE DEF own
<1>9. SameWaits(b, aged) /\ SameWaits(b, own)
  BY <1>4, <1>5, <1>7, <1>8 DEF SameWaits
<1>. DEFINE u == ReconfigureOrLead(own, w)
<1>10. Selected(own, u)
  BY <1>8, ReconfigureOrLeadTurns
<1>. HIDE DEF u
<1>11. Selected(b, u)
  <2>1. SameWaits(u, u)
    BY DEF SameWaits
  <2>. QED BY <2>1, <1>9, <1>10, SelectedAround
<1>. QED BY <1>3, <1>6, <1>9, <1>11, SameWaitsSelected DEF u

(***************************************************************************)
(* The operations that make or destroy port p: it is out of the tree, or   *)
(* at the start of its way.                                                *)
(***************************************************************************)
Enters(b, t, p) ==
  /\ \A q \in Ports \ {p} : Turns(b.port[q], t.port[q])
  /\ \/ Waits(t.port[p]) \in Abandoned
     \/ Waits(t.port[p]) = <<"listening", 0>>

LEMMA PortEnableEnters ==
  ASSUME NEW b \in Bridges, NEW p \in Ports, b.port[p].state = "disabled", NEW w \in Whims
  PROVE  Enters(b, PortEnable(b, p, w), p)
<1>. DEFINE x == InitialPort(b, p, b.port[p].path_cost, "blocking", TRUE)
            t == [b EXCEPT !.port[p] = x]
            u == PortStateSelection(t, w)
<1>1. b.port[p] \in PortRecords /\ b.port[p].path_cost \in Nat \ {0}
  BY DEF Bridges, PortRecords
<1>2. OwnInfo(b, p) \in Infos
  BY PortsAssumption DEF OwnInfo, Infos, Bridges
<1>3. x \in PortRecords /\ Waits(x) = <<"blocking", Off>>
  BY <1>1, <1>2, TimersHold DEF InitialPort, PortRecords, StpStates, Waits
<1>4. PortEnable(b, p, w) = u
  BY DEF PortEnable, Bridges
<1>. HIDE DEF x
<1>5. t \in Bridges /\ t.port[p] = x /\ \A q \in Ports \ {p} : t.port[q] = b.port[q]
  BY <1>3, PortReplaced
<1>. HIDE DEF t
<1>6. u.port = [q \in Ports |-> SelectedPort(t, q)]
  <2>. HIDE DEF x
  <2>. QED BY <1>5, PortStateSelectionShape
<1>. HIDE DEF u
<1>7. Selected(t, u)
  BY <1>5, <1>6, SelectedPortTurns DEF Selected
<1>8. Turns(x, u.port[p])
  BY <1>5, <1>7 DEF Selected
<1>9. Waits(u.port[p]) \in Abandoned \/ Waits(u.port[p]) = <<"listening", 0>>
  BY <1>3, <1>8 DEF Turns, Abandoned
<1>10. \A q \in Ports \ {p} : Turns(b.port[q], u.port[q])
  BY <1>5, <1>7 DEF Selected
<1>. QED BY <1>4, <1>9, <1>10 DEF Enters

LEMMA AddedPortEnters ==
  ASSUME NEW b \in Bridges, NEW p \in Ports, p \notin PortsOf(b), NEW cost \in Nat \ {0},
         NEW reused \in BOOLEAN, NEW w \in Whims
  PROVE  Enters(b, PortEnable(CreatePort(b, p, cost, reused), p, w), p)
<1>. DEFINE x == InitialPort(b, p, cost, "disabled", FALSE)
            r == IF b.root_port = StalePort /\ reused THEN p ELSE b.root_port
            t == [b EXCEPT !.root_port = r, !.port[p] = x]
<1>1. x \in PortRecords /\ x.state = "disabled"
  <2>1. OwnInfo(b, p) \in Infos
    BY PortsAssumption DEF OwnInfo, Infos, Bridges
  <2>. QED BY <2>1, TimersHold DEF InitialPort, PortRecords, StpStates
<1>2. CreatePort(b, p, cost, reused) = t
  BY DEF CreatePort, Bridges
<1>. HIDE DEF x
<1>3. /\ t \in Bridges /\ t.port[p].state = "disabled"
      /\ \A q \in Ports \ {p} : t.port[q] = b.port[q]
  BY <1>1 DEF Bridges
<1>. HIDE DEF t
<1>. QED BY <1>2, <1>3, PortEnableEnters DEF Enters

(***************************************************************************)
(* The forward delay timer: its port waits, or has waited and advances.    *)
(***************************************************************************)
Waited(x, y, ticks, delay) ==
  \/ Waits(y) = Waits(x)
  \/ /\ Running(x.forward_delay_timer)
     /\ IF TimerExpired(x.forward_delay_timer, ticks, delay)
        THEN << <<x.state, y.state>>, y.forward_delay_timer >> \in Advancing
        ELSE Waits(y) = <<x.state, x.forward_delay_timer + ticks>>

LEMMA ForwardDelayTickWaits ==
  ASSUME NEW b \in Bridges, NEW p \in EnabledPorts(b), NEW ticks \in Int, NEW w \in Whims,
         Running(b.port[p].forward_delay_timer)
           <=> b.port[p].state \in {"listening", "learning"}
  PROVE  LET t == ForwardDelayTick(b, p, ticks, w)
         IN  /\ t \in Bridges
             /\ Waited(b.port[p], t.port[p], ticks, b.times.forward_delay)
             /\ \A q \in Ports \ {p} : Waits(t.port[q]) = Waits(b.port[q])
<1>. DEFINE d == b.port[p]
            delay == b.times.forward_delay
            timer == TimerAfter(d.forward_delay_timer, ticks, delay)
            expired == TimerExpired(d.forward_delay_timer, ticks, delay)
            x == [d EXCEPT !.forward_delay_timer = timer]
            aged == [b EXCEPT !.port[p] = x]
            On(z) == [b EXCEPT !.port[p] = z]
            f == ForwardDelayTick(b, p, ticks, w)
<1>1. p \in Ports /\ d \in PortRecords /\ d.forward_delay_timer \in Timers
  BY DEF EnabledPorts, PortsOf, Bridges, PortRecords
<1>2. /\ timer \in Timers
      /\ expired => timer = Off
      /\ ~expired => timer = IF Running(d.forward_delay_timer)
                              THEN d.forward_delay_timer + ticks ELSE Off
  BY <1>1, TimerAfterShape DEF TimerAfter
<1>3. f = IF expired THEN ForwardDelayTimerExpiry(aged, p, w) ELSE aged
  BY <1>1 DEF ForwardDelayTick, Bridges, PortRecords
<1>4. expired => Running(d.forward_delay_timer) /\ d.state \in {"listening", "learning"}
  BY DEF TimerExpired
<1>5. ~Running(d.forward_delay_timer) => d.forward_delay_timer = Off
  BY DEF Running
<1>. HIDE DEF timer, expired, f, d
<1>6. x \in PortRecords /\ x.state = d.state /\ x.forward_delay_timer = timer
  BY <1>1, <1>2 DEF PortRecords
<1>. HIDE DEF x
<1>7. aged.port[p] = x /\ \A z : [aged EXCEPT !.port[p] = z] = On(z)
  BY <1>1 DEF Bridges
<1>8. ASSUME NEW z \in PortRecords
      PROVE  /\ On(z) \in Bridges /\ On(z).port[p] = z
             /\ \A q \in Ports \ {p} : On(z).port[q] = b.port[q]
  BY <1>1, <1>8, PortReplaced
<1>9. CASE ~expired
  <2>1. Waited(d, x, ticks, delay)
    BY <1>2, <1>5, <1>6, <1>9 DEF Waited, Waits, expired
  <2>2. f = On(x)
    BY <1>3, <1>9
  <2>3. /\ On(x) \in Bridges /\ On(x).port[p] = x
        /\ \A q \in Ports \ {p} : On(x).port[q] = b.port[q]
    BY <1>6, <1>8
  <2>. HIDE DEF On
  <2>. QED BY <2>1, <2>2, <2>3 DEF f, d
<1>10. CASE expired /\ d.state = "listening"
  <2>. DEFINE z == [WithState(x, "learning") EXCEPT !.forward_delay_timer = 0]
  <2>1. f = On(z)
    <3>1. ForwardDelayTimerExpiry(aged, p, w) = [aged EXCEPT !.port[p] = z]
      BY <1>6, <1>7, <1>10 DEF ForwardDelayTimerExpiry
    <3>. QED BY <3>1, <1>3, <1>7, <1>10
  <2>2. z \in PortRecords /\ z.state = "learning" /\ z.forward_delay_timer = 0
    <3>1. 0 \in Timers
      BY TimersHold
    <3>. QED BY <1>6, <3>1 DEF WithState, PortRecords, StpStates
  <2>. HIDE DEF z
  <2>3. Waited(d, z, ticks, delay)
    BY <1>4, <1>10, <2>2 DEF Waited, Advancing, expired
  <2>4. /\ On(z) \in Bridges /\ On(z).port[p] = z
        /\ \A q \in Ports \ {p} : On(z).port[q] = b.port[q]
    BY <1>8, <2>2
  <2>. HIDE DEF On
  <2>. QED BY <2>1, <2>3, <2>4 DEF f, d
<1>11. CASE expired /\ d.state = "learning"
  <2>. DEFINE z == WithState(x, "forwarding")
              t == TopologyChangeDetection(On(z), w)
  <2>1. f = On(z) \/ f = t
    <3>. DEFINE open == [aged EXCEPT !.port[p] = z]
    <3>1. \/ ForwardDelayTimerExpiry(aged, p, w) = open
          \/ ForwardDelayTimerExpiry(aged, p, w) = TopologyChangeDetection(open, w)
      BY <1>6, <1>7, <1>11 DEF ForwardDelayTimerExpiry
    <3>2. open = On(z)
      BY <1>7
    <3>. HIDE DEF open, z, On
    <3>. QED BY <3>1, <3>2, <1>3, <1>11
  <2>2. z \in PortRecords /\ z.state = "forwarding" /\ z.forward_delay_timer = Off
    BY <1>2, <1>6, <1>11 DEF WithState, PortRecords, StpStates
  <2>. HIDE DEF z
  <2>3. Waited(d, z, ticks, delay)
    BY <1>4, <1>11, <2>2 DEF Waited, Advancing, expired
  <2>4. /\ On(z) \in Bridges /\ On(z).port[p] = z
        /\ \A q \in Ports \ {p} : On(z).port[q] = b.port[q]
    BY <1>8, <2>2
  <2>. HIDE DEF On
  <2>5. t \in Bridges /\ SameWaits(On(z), t)
    BY <2>4, TopologyChangeDetectionKeeps, StandingWaits
  <2>. HIDE DEF t
  <2>6. /\ Waits(t.port[p]) = Waits(z)
        /\ \A q \in Ports \ {p} : Waits(t.port[q]) = Waits(b.port[q])
    BY <1>1, <2>4, <2>5 DEF SameWaits
  <2>7. Waited(d, t.port[p], ticks, delay)
    BY <2>3, <2>6 DEF Waited, Waits
  <2>. QED BY <2>1, <2>3, <2>4, <2>5, <2>6, <2>7 DEF f, d
<1>. QED BY <1>4, <1>9, <1>10, <1>11

LEMMA PortTickWaits ==
  ASSUME NEW b, Sound(b), NEW p \in EnabledPorts(b), NEW ticks \in Int, NEW w \in Whims
  PROVE  LET t == PortTick(b, p, ticks, w)
         IN  /\ Waited(b.port[p], t.port[p], ticks, b.times.forward_delay)
             /\ \A q \in Ports \ {p} : Waits(t.port[q]) = Waits(b.port[q])
<1>. DEFINE t == ForwardDelayTick(b, p, ticks, w)
            u == HoldTick(t, p, ticks, w)
<1>1. /\ b \in Bridges /\ p \in Ports
      /\ Running(b.port[p].forward_delay_timer) <=> b.port[p].state \in {"listening", "learning"}
  BY DEF Sound, ProgressIsTimed, EnabledPorts, PortsOf
<1>2. /\ t \in Bridges
      /\ Waited(b.port[p], t.port[p], ticks, b.times.forward_delay)
      /\ \A q \in Ports \ {p} : Waits(t.port[q]) = Waits(b.port[q])
  BY <1>1, ForwardDelayTickWaits
<1>. HIDE DEF t
<1>3. \A q \in Ports : Waits(u.port[q]) = Waits(t.port[q])
  BY <1>1, <1>2, HoldTickKeeps, StandingWaits DEF SameWaits
<1>. HIDE DEF u
<1>4. Waited(b.port[p], u.port[p], ticks, b.times.forward_delay)
  BY <1>1, <1>2, <1>3 DEF Waited, Waits
<1>5. \A q \in Ports \ {p} : Waits(u.port[q]) = Waits(b.port[q])
  BY <1>2, <1>3
<1>. QED BY <1>4, <1>5 DEF PortTick, t, u

-----------------------------------------------------------------------------
(***************************************************************************)
(* Every step of a sound bridge keeps to the way of each port: it is       *)
(* selected, enters, leaves, or is on its way.                             *)
(***************************************************************************)
LEMMA StepProceeds == IInv /\ [Next]_vars => [\A p \in Ports : Proceeds(p)]_vars
<1>. SUFFICES ASSUME IInv, Next PROVE \A p \in Ports : Proceeds(p)
  BY DEF vars
<1>. DEFINE q == Quiet(bridge)
<1>1. /\ Sound(q) /\ q \in Bridges
      /\ q.port = bridge.port /\ q.times = bridge.times
      /\ PortsOf(q) = PortsOf(bridge)
      /\ EnabledPorts(q) = EnabledPorts(bridge)
      /\ \A w \in Outcomes(bridge) : w \in Whims
      /\ elapsed \in Int
  <2>1. Sound(bridge) /\ bridge \in Bridges
    BY DEF IInv, Sound
  <2>. QED BY <2>1, QuietSound, OutcomesAreWhims DEF IInv, Sound, Quiet, Bridges
<1>2. q = Quiet(bridge)
  OBVIOUS
<1>. HIDE DEF q
<1>3. ASSUME NEW p \in Ports, Turns(q.port[p], bridge'.port[p]) PROVE Proceeds(p)
  BY <1>1, <1>3 DEF Turns, Proceeds
<1>4. Selected(q, bridge') => \A p \in Ports : Proceeds(p)
  BY <1>3 DEF Selected
<1>5. ASSUME SameStanding(q, bridge') PROVE \A p \in Ports : Proceeds(p)
  BY <1>4, <1>5, StandingWaits, SameWaitsSelected
<1>6. ASSUME NEW p \in Ports, Enters(q, bridge', p),
             q.port[p].state \in {"disabled", "absent"}
      PROVE  \A o \in Ports : Proceeds(o)
  <2>1. Proceeds(p)
    BY <1>1, <1>6 DEF Enters, Proceeds
  <2>2. \A o \in Ports \ {p} : Proceeds(o)
    BY <1>3, <1>6 DEF Enters
  <2>. QED BY <2>1, <2>2
<1>7. ASSUME NEW p \in Ports, AddPort(p) PROVE \A o \in Ports : Proceeds(o)
  <2>1. PICK cost \in PathCosts, w \in Outcomes(bridge), reused \in BOOLEAN :
          bridge' = PortEnable(CreatePort(q, p, cost, reused), p, w)
    BY <1>2, <1>7 DEF AddPort
  <2>2. p \notin PortsOf(q) /\ q.port[p].state = "absent"
    BY <1>1, <1>7 DEF AddPort, PortsOf
  <2>3. Enters(q, bridge', p)
    BY <1>1, <2>1, <2>2, AddedPortEnters
  <2>. QED BY <1>6, <2>2, <2>3
<1>8. ASSUME NEW p \in Ports, RemovePort(p) PROVE \A o \in Ports : Proceeds(o)
  <2>1. bridge' = DestroyPort(q, p)
    BY <1>2, <1>8 DEF RemovePort
  <2>2. /\ bridge'.port[p] = AbsentPort
        /\ \A o \in Ports \ {p} : bridge'.port[o] = q.port[o]
    <3>. HIDE DEF AbsentPort
    <3>. QED BY <1>1, <2>1 DEF DestroyPort, Bridges
  <2>3. Waits(AbsentPort) \in Abandoned
    BY DEF Waits, AbsentPort, Abandoned
  <2>4. Selected(q, bridge')
    BY <2>2, <2>3 DEF Selected, Turns
  <2>. QED BY <1>4, <2>4
<1>9. ASSUME NEW p \in Ports, Receive(p) PROVE \A o \in Ports : Proceeds(o)
  <2>1. PICK bpdu \in Arriving(p), w \in Outcomes(bridge) : bridge' = ReceivedBpdu(q, p, bpdu, w)
    BY <1>2, <1>9 DEF Receive
  <2>2. bpdu \in ConfigContents \cup OtherContents
    BY DEF Arriving
  <2>3. Selected(q, bridge')
    BY <1>1, <1>9, <2>1, <2>2, ReceivedBpduTurns DEF Receive
  <2>. QED BY <1>4, <2>3
<1>10. ASSUME NEW p \in Ports, DisablePort(p) PROVE \A o \in Ports : Proceeds(o)
  <2>1. Selected(q, bridge')
    BY <1>1, <1>2, <1>10, PortDisableTurns DEF DisablePort
  <2>. QED BY <1>4, <2>1
<1>11. ASSUME NEW p \in Ports, EnablePort(p) PROVE \A o \in Ports : Proceeds(o)
  <2>1. PICK w \in Outcomes(bridge) : bridge' = PortEnable(q, p, w)
    BY <1>2, <1>11 DEF EnablePort
  <2>2. CASE q.port[p].state # "disabled"
    <3>1. SameStanding(q, bridge')
      BY <2>1, <2>2 DEF PortEnable, SameStanding, SamePort
    <3>. QED BY <1>5, <3>1
  <2>3. CASE q.port[p].state = "disabled"
    BY <1>1, <1>6, <2>1, <2>3, PortEnableEnters
  <2>. QED BY <2>2, <2>3
<1>12. ASSUME NEW p \in Ports, SetPathCost(p) PROVE \A o \in Ports : Proceeds(o)
  <2>1. Selected(q, bridge')
    BY <1>1, <1>2, <1>12, PortSetPathCostTurns DEF SetPathCost
  <2>. QED BY <1>4, <2>1
<1>13. ASSUME NEW p \in Ports, SetChangeDetection(p) PROVE \A o \in Ports : Proceeds(o)
  <2>1. PICK on \in BOOLEAN : bridge' = [q EXCEPT !.port[p].change_detection_enabled = on]
    BY <1>2, <1>13 DEF SetChangeDetection
  <2>2. \A o \in Ports : Waits(bridge'.port[o]) = Waits(q.port[o])
    BY <1>1, <2>1 DEF Waits, Bridges, PortRecords
  <2>. QED BY <1>4, <2>2 DEF Selected, Turns
<1>14. ASSUME SetBridgeId PROVE \A o \in Ports : Proceeds(o)
  <2>1. Selected(q, bridge')
    BY <1>1, <1>2, <1>14, BridgeIdTurns DEF SetBridgeId
  <2>. QED BY <1>4, <2>1
<1>15. ASSUME SetTimes PROVE \A o \in Ports : Proceeds(o)
  <2>1. bridge'.port = q.port
    BY <1>1, <1>2, <1>15 DEF SetTimes, SetBridgeTimes, Bridges
  <2>. QED BY <1>4, <2>1 DEF Selected, Turns
<1>16. ASSUME StartTick PROVE \A o \in Ports : Proceeds(o)
  <2>1. SameStanding(q, bridge')
    BY <1>1, <1>2, <1>16, BridgeTickKeeps DEF StartTick
  <2>. QED BY <1>5, <2>1
<1>17. ASSUME NEW p \in Ports, AgePort(p) PROVE \A o \in Ports : Proceeds(o)
  <2>1. Selected(q, bridge')
    BY <1>1, <1>2, <1>17, MessageAgeTickTurns DEF AgePort
  <2>. QED BY <1>4, <2>1
<1>18. ASSUME EndAging PROVE \A o \in Ports : Proceeds(o)
  <2>1. bridge' = q
    BY <1>2, <1>18 DEF EndAging
  <2>. QED BY <1>4, <2>1 DEF Selected, Turns
<1>19. ASSUME NEW p \in Ports, DelayPort(p) PROVE \A o \in Ports : Proceeds(o)
  <2>1. PICK w \in Outcomes(bridge) : bridge' = PortTick(q, p, elapsed, w)
    BY <1>2, <1>19 DEF DelayPort
  <2>2. p \in EnabledPorts(q) /\ phase = "delaying" /\ p \in todo
    BY <1>1, <1>19 DEF DelayPort, Visiting, IInv
  <2>3. /\ Waited(bridge.port[p], bridge'.port[p], elapsed, bridge.times.forward_delay)
        /\ \A o \in Ports \ {p} : Waits(bridge'.port[o]) = Waits(q.port[o])
    BY <1>1, <2>1, <2>2, PortTickWaits
  <2>4. Proceeds(p)
    BY <2>2, <2>3 DEF Waited, Proceeds
  <2>5. \A o \in Ports \ {p} : Proceeds(o)
    BY <1>3, <2>3 DEF Turns
  <2>. QED BY <2>4, <2>5
<1>20. ASSUME Report PROVE \A o \in Ports : Proceeds(o)
  <2>1. \A o \in Ports : Waits(bridge'.port[o]) = Waits(q.port[o])
    BY <1>1, <1>2, <1>20 DEF Report, Reported, Waits, Bridges, PortRecords
  <2>. QED BY <1>4, <2>1 DEF Selected, Turns
<1>. QED BY <1>7, <1>8, <1>9, <1>10, <1>11, <1>12, <1>13, <1>14, <1>15, <1>16, <1>17, <1>18,
        <1>19, <1>20 DEF Next, Tick

(***************************************************************************)
(* Whatever is heard, selected or set meanwhile (MakeForwarding,           *)
(* MakeBlocking, ForwardDelayTimerExpiry), a port serves the forward delay *)
(* in full before it learns, and again before it forwards, and never has   *)
(* to start over while it stays in the tree.                               *)
(***************************************************************************)
THEOREM DelayServedHolds == Spec => DelayServed
  BY Invariance, StepProceeds, PTL DEF Spec, DelayServed

-----------------------------------------------------------------------------

(***************************************************************************)
(* A procedure that takes a port from x to y neither makes nor deletes it, *)
(* and marks it as changed if its state is another one.                    *)
(***************************************************************************)
PortShown(x, y) ==
  /\ y.state = "absent" <=> x.state = "absent"
  /\ y.change_detection_enabled = x.change_detection_enabled
  /\ x.state_changed \/ y.state # x.state => y.state_changed

(***************************************************************************)
(* A port has ceased to learn.                                             *)
(***************************************************************************)
Ceased(x, y) ==
  /\ x.change_detection_enabled
  /\ stp_learn_in_state(x.state)
  /\ ~stp_learn_in_state(y.state)

(***************************************************************************)
(* What OnTimer will see of a step of the bridge from b to t: every port   *)
(* that changed is marked, and the flush is asked for when one that        *)
(* detects changes has ceased to learn.                                    *)
(***************************************************************************)
Shown(b, t) ==
  /\ \A p \in Ports : PortShown(b.port[p], t.port[p])
  /\ b.fdb_needs_flush => t.fdb_needs_flush
  /\ \A p \in Ports : Ceased(b.port[p], t.port[p]) => t.fdb_needs_flush

(***************************************************************************)
(* What two procedures show one after the other is shown.                  *)
(***************************************************************************)
LEMMA ShownTransitive ==
  ASSUME NEW b, NEW t, NEW u, Shown(b, t), Shown(t, u)
  PROVE  Shown(b, u)
<1>1. ASSUME NEW p \in Ports
      PROVE  PortShown(b.port[p], u.port[p])
  BY DEF Shown, PortShown
<1>2. ASSUME NEW p \in Ports, Ceased(b.port[p], u.port[p])
      PROVE  u.fdb_needs_flush
  <2>1. CASE stp_learn_in_state(t.port[p].state)
    BY <1>2, <2>1 DEF Shown, PortShown, Ceased
  <2>2. CASE ~stp_learn_in_state(t.port[p].state)
    BY <1>2, <2>2 DEF Shown, PortShown, Ceased
  <2>. QED BY <2>1, <2>2
<1>. QED BY <1>1, <1>2 DEF Shown

(***************************************************************************)
(* A procedure that leaves states and marks as they are, and asks for no   *)
(* flush to be given up, shows what it did: nothing.                       *)
(***************************************************************************)
SameStates(x, y) ==
  /\ y.state = x.state
  /\ y.change_detection_enabled = x.change_detection_enabled
  /\ y.state_changed = x.state_changed

(***************************************************************************)
(* Nothing changed, so nothing is to be shown.                             *)
(***************************************************************************)
LEMMA SameStatesShown ==
  ASSUME NEW b, NEW t,
         \A p \in Ports : SameStates(b.port[p], t.port[p]),
         t.fdb_needs_flush = b.fdb_needs_flush
  PROVE  Shown(b, t)
  BY DEF Shown, PortShown, Ceased, SameStates

(***************************************************************************)
(* The same for a procedure that leaves the ports alone.                   *)
(***************************************************************************)
LEMMA SamePortsShown ==
  ASSUME NEW b, NEW t, t.port = b.port,
         t.fdb_needs_flush = b.fdb_needs_flush
  PROVE  Shown(b, t)
  BY SameStatesShown DEF SameStates

-----------------------------------------------------------------------------
(***************************************************************************)
(* The procedures that send.                                               *)
(***************************************************************************)
LEMMA TransmitTcnShows ==
  ASSUME NEW b \in Bridges, NEW w
  PROVE  Shown(b, TransmitTcn(b, w))
<1>1. TransmitTcn(b, w).fdb_needs_flush = b.fdb_needs_flush
  BY DEF TransmitTcn, SendBPDU, Bridges
<1>. QED BY <1>1, TransmitTcnKeeps, SamePortsShown

(***************************************************************************)
(* TransmitConfig changes hold timers and what is owed.                    *)
(***************************************************************************)
LEMMA TransmitConfigsShows ==
  ASSUME NEW b \in Bridges, NEW w \in Whims, NEW P \in SUBSET Ports
  PROVE  Shown(b, TransmitConfigs(b, P, w))
<1>. DEFINE held == {p \in P : Running(b.port[p].hold_timer)}
            sending == {p \in P \ held : MessageAge(b, w) < b.times.max_age}
            port == [p \in Ports |->
                 IF p \in held
                 THEN [b.port[p] EXCEPT !.config_pending = TRUE]
                 ELSE IF p \in sending
                 THEN [b.port[p] EXCEPT !.topology_change_ack = FALSE,
                                        !.config_pending = FALSE,
                                        !.hold_timer = 0]
                 ELSE b.port[p]]
            new == {ConfigBpdu(b, p, w) : p \in
                 {q \in sending : ~stp_blocking_in_state(b.port[q].state)}}
            t == [b EXCEPT !.port = port, !.out = @ \cup new]
<1>1. CASE ~IsRootBridge(b) /\ b.root_port = NoPort
  <2>1. TransmitConfigs(b, P, w) = b
    BY <1>1 DEF TransmitConfigs
  <2>. QED BY <2>1, SamePortsShown
<1>2. CASE ~(~IsRootBridge(b) /\ b.root_port = NoPort)
  <2>1. TransmitConfigs(b, P, w) = t
    BY <1>2 DEF TransmitConfigs
  <2>2. \A p \in Ports : SameStates(b.port[p], port[p])
    <3>1. \A p \in Ports : b.port[p] \in PortRecords
      BY DEF Bridges
    <3>. QED BY <3>1 DEF SameStates, PortRecords
  <2>. HIDE DEF port, new
  <2>3. t.port = port /\ t.fdb_needs_flush = b.fdb_needs_flush
    BY DEF Bridges
  <2>. QED BY <2>1, <2>2, <2>3, SameStatesShown
<1>. QED BY <1>1, <1>2

(***************************************************************************)
(* So does ConfigBpduGeneration.                                           *)
(***************************************************************************)
LEMMA ConfigBpduGenerationShows ==
  ASSUME NEW b \in Bridges, NEW w \in Whims
  PROVE  Shown(b, ConfigBpduGeneration(b, w))
  BY TransmitConfigsShows DEF ConfigBpduGeneration, EnabledPorts, PortsOf

(***************************************************************************)
(* TopologyChangeDetection asks for the flush.                             *)
(***************************************************************************)
LEMMA TopologyChangeDetectionShows ==
  ASSUME NEW b \in Bridges, NEW w
  PROVE  /\ TopologyChangeDetection(b, w).fdb_needs_flush = TRUE
         /\ Shown(b, TopologyChangeDetection(b, w))
<1>. DEFINE told == IF IsRootBridge(b)
                    THEN [b EXCEPT !.topology_change = TRUE,
                                   !.topology_change_timer = 0]
                    ELSE IF ~b.topology_change_detected
                    THEN [TransmitTcn(b, w) EXCEPT !.tcn_timer = 0]
                    ELSE b
            t == TopologyChangeDetection(b, w)
<1>1. told \in Bridges
  <2>1. 0 \in Timers
    BY TimersHold
  <2>. QED BY <2>1, TransmitTcnKeeps DEF Bridges
<1>2. t = [told EXCEPT !.fdb_needs_flush = TRUE,
                       !.topology_change_detected = TRUE]
  BY DEF TopologyChangeDetection
<1>. HIDE DEF told
<1>3. t.fdb_needs_flush = TRUE
  BY <1>1, <1>2 DEF Bridges
<1>4. t.port = b.port
  BY TopologyChangeDetectionKeeps
<1>. HIDE DEF t
<1>5. Shown(b, t)
  BY <1>3, <1>4 DEF Shown, PortShown, Ceased
<1>. QED BY <1>3, <1>5 DEF t

-----------------------------------------------------------------------------
(***************************************************************************)
(* The selections.                                                         *)
(***************************************************************************)
LEMMA ConfigurationUpdateShows ==
  ASSUME NEW b \in Bridges
  PROVE  Shown(b, ConfigurationUpdate(b))
<1>. DEFINE r == RootSelection(b)
            t == DesignatedPortSelection(r)
<1>1. r \in Bridges /\ r.port = b.port
  BY RootSelectionSelects
<1>2. r.fdb_needs_flush = b.fdb_needs_flush
  BY DEF RootSelection, Bridges
<1>. HIDE DEF r
<1>3. t.fdb_needs_flush = r.fdb_needs_flush
  BY <1>1 DEF DesignatedPortSelection, Bridges
<1>4. ASSUME NEW p \in Ports PROVE SameStates(r.port[p], t.port[p])
  <2>1. r.port[p] \in PortRecords
    BY <1>1 DEF Bridges
  <2>2. \/ t.port[p] = [r.port[p] EXCEPT !.info = OwnInfo(r, p)]
        \/ t.port[p] = r.port[p]
    BY <1>1 DEF DesignatedPortSelection, Bridges
  <2>. QED BY <2>1, <2>2 DEF SameStates, PortRecords
<1>5. ConfigurationUpdate(b) = t
  BY DEF ConfigurationUpdate, r
<1>. HIDE DEF t
<1>6. Shown(b, r) /\ Shown(r, t)
  BY <1>1, <1>2, <1>3, <1>4, SamePortsShown, SameStatesShown
<1>. QED BY <1>5, <1>6, ShownTransitive

(***************************************************************************)
(* The port records PortStateSelection is built from.                      *)
(***************************************************************************)
LEMMA WithStateShows ==
  ASSUME NEW x \in PortRecords, x.state # "absent",
         NEW state \in StpStates
  PROVE  /\ WithState(x, state) \in PortRecords
         /\ WithState(x, state).state = state
         /\ PortShown(x, WithState(x, state))
<1>. DEFINE y == WithState(x, state)
<1>1. /\ y \in PortRecords
      /\ y.state = state
      /\ y.change_detection_enabled = x.change_detection_enabled
      /\ y.state_changed = (x.state_changed \/ x.state # state)
  BY DEF WithState, PortRecords, StpStates
<1>. HIDE DEF y
<1>2. PortShown(x, y)
  BY <1>1 DEF PortShown, StpStates
<1>. QED BY <1>1, <1>2 DEF y

(***************************************************************************)
(* MakeForwarding lets no port cease to learn.                             *)
(***************************************************************************)
LEMMA MakeForwardingShows ==
  ASSUME NEW x \in PortRecords, x.state \notin {"absent", "disabled"}
  PROVE  /\ PortShown(x, MakeForwarding(x))
         /\ ~Ceased(x, MakeForwarding(x))
         /\ x.state # "blocking" => MakeForwarding(x) = x
         /\ x.state = "blocking" => MakeForwarding(x).state = "listening"
<1>1. CASE x.state = "blocking"
  <2>. DEFINE y == WithState(x, "listening")
              z == [y EXCEPT !.forward_delay_timer = 0]
  <2>1. y \in PortRecords /\ y.state = "listening" /\ PortShown(x, y)
    BY WithStateShows DEF StpStates
  <2>2. MakeForwarding(x) = z
    BY <1>1 DEF MakeForwarding
  <2>. HIDE DEF y
  <2>3. SameStates(y, z)
    BY <2>1 DEF SameStates, PortRecords
  <2>. HIDE DEF z
  <2>. QED BY <1>1, <2>1, <2>2, <2>3 DEF SameStates, PortShown, Ceased, stp_learn_in_state
<1>2. CASE x.state # "blocking"
  BY <1>2 DEF MakeForwarding, PortShown, Ceased
<1>. QED BY <1>1, <1>2

(***************************************************************************)
(* MakeBlocking marks the port, and leaves one that blocks alone.          *)
(***************************************************************************)
LEMMA MakeBlockingShows ==
  ASSUME NEW x \in PortRecords, x.state \notin {"absent", "disabled"}
  PROVE  /\ PortShown(x, MakeBlocking(x))
         /\ x.state = "blocking" => MakeBlocking(x) = x
         /\ x.state # "blocking" => MakeBlocking(x).state = "blocking"
<1>1. CASE x.state # "blocking"
  <2>. DEFINE y == WithState(x, "blocking")
              z == [y EXCEPT !.forward_delay_timer = Off]
  <2>1. y \in PortRecords /\ y.state = "blocking" /\ PortShown(x, y)
    BY WithStateShows DEF StpStates
  <2>2. MakeBlocking(x) = z
    BY <1>1 DEF MakeBlocking
  <2>. HIDE DEF y
  <2>3. SameStates(y, z)
    BY <2>1 DEF SameStates, PortRecords
  <2>. HIDE DEF z
  <2>. QED BY <1>1, <2>1, <2>2, <2>3 DEF SameStates, PortShown
<1>2. CASE x.state = "blocking"
  BY <1>2 DEF MakeBlocking, PortShown
<1>. QED BY <1>1, <1>2

(***************************************************************************)
(* PortStateSelection marks the ports it changes; one ceases to learn only *)
(* if it leaves traffic behind, none begins to, and a port whose state     *)
(* fits its role keeps it.                                                 *)
(***************************************************************************)
LEMMA SelectedPortShows ==
  ASSUME NEW b \in Bridges, NEW p \in Ports
  PROVE  /\ PortShown(b.port[p], SelectedPort(b, p))
         /\ Ceased(b.port[p], SelectedPort(b, p))
              => p \in EnabledPorts(b) /\ LeavesTraffic(b, p)
         /\ b.port[p].state = "blocking"
                <=> p # b.root_port /\ ~IsDesignatedPort(b, p)
              => SelectedPort(b, p).state = b.port[p].state
         /\ stp_learn_in_state(SelectedPort(b, p).state)
              => stp_learn_in_state(b.port[p].state)
<1>. DEFINE x == b.port[p]
            y == [x EXCEPT !.message_age_timer = Off]
<1>1. /\ x \in PortRecords /\ Silenced(x) \in PortRecords
      /\ SameStates(x, Silenced(x))
  <2>1. x \in PortRecords
    BY DEF Bridges
  <2>. QED BY <2>1, SilencedShape DEF Silenced, SameStates, PortRecords
<1>2. y \in PortRecords /\ SameStates(x, y)
  BY <1>1, TimersHold DEF PortRecords, SameStates
<1>3. p \in EnabledPorts(b) => x.state \notin {"absent", "disabled"}
  BY DEF EnabledPorts, PortsOf
<1>4. SelectedPort(b, p) =
        CASE p \notin EnabledPorts(b) -> x
          [] p \in EnabledPorts(b) /\ p = b.root_port ->
               MakeForwarding(Silenced(x))
          [] p \in EnabledPorts(b) /\ p # b.root_port /\ IsDesignatedPort(b, p) ->
               MakeForwarding(y)
          [] OTHER -> MakeBlocking(Silenced(x))
  BY DEF SelectedPort
<1>. DEFINE s == Silenced(x)
<1>5. s \in PortRecords /\ SameStates(x, s)
  BY <1>1
<1>6. LeavesTraffic(b, p) <=> /\ p # b.root_port /\ ~IsDesignatedPort(b, p)
                              /\ stp_learn_in_state(x.state)
                              /\ x.change_detection_enabled
  BY DEF LeavesTraffic
<1>. HIDE DEF x, y, s
<1>7. CASE p \notin EnabledPorts(b)
  BY <1>4, <1>7 DEF x, PortShown, Ceased
<1>8. CASE p \in EnabledPorts(b) /\ p = b.root_port
  <2>1. SelectedPort(b, p) = MakeForwarding(s)
    BY <1>4, <1>8 DEF s
  <2>2. /\ PortShown(s, MakeForwarding(s))
        /\ ~Ceased(s, MakeForwarding(s))
        /\ s.state # "blocking" => MakeForwarding(s) = s
        /\ s.state = "blocking" => MakeForwarding(s).state = "listening"
    BY <1>3, <1>5, <1>8, MakeForwardingShows DEF SameStates
  <2>. QED BY <2>1, <2>2, <1>5, <1>8 DEF x, SameStates, PortShown, Ceased, stp_learn_in_state
<1>9. CASE p \in EnabledPorts(b) /\ p # b.root_port /\ IsDesignatedPort(b, p)
  <2>1. SelectedPort(b, p) = MakeForwarding(y)
    BY <1>4, <1>9
  <2>2. /\ PortShown(y, MakeForwarding(y))
        /\ ~Ceased(y, MakeForwarding(y))
        /\ y.state # "blocking" => MakeForwarding(y) = y
        /\ y.state = "blocking" => MakeForwarding(y).state = "listening"
    BY <1>2, <1>3, <1>9, MakeForwardingShows DEF SameStates
  <2>. QED BY <2>1, <2>2, <1>2, <1>9 DEF x, SameStates, PortShown, Ceased, stp_learn_in_state
<1>10. CASE p \in EnabledPorts(b) /\ p # b.root_port /\ ~IsDesignatedPort(b, p)
  <2>1. SelectedPort(b, p) = MakeBlocking(s)
    BY <1>4, <1>10 DEF s
  <2>2. /\ PortShown(s, MakeBlocking(s))
        /\ s.state = "blocking" => MakeBlocking(s) = s
        /\ s.state # "blocking" => MakeBlocking(s).state = "blocking"
    BY <1>3, <1>5, <1>10, MakeBlockingShows DEF SameStates
  <2>. QED BY <2>1, <2>2, <1>5, <1>6, <1>10 DEF x, SameStates, PortShown, Ceased, stp_learn_in_state
<1>. QED BY <1>7, <1>8, <1>9, <1>10

(***************************************************************************)
(* PortStateSelection asks for the flush whenever a port has ceased to     *)
(* learn.                                                                  *)
(***************************************************************************)
LEMMA PortStateSelectionShows ==
  ASSUME NEW b \in Bridges, NEW w \in Whims
  PROVE  Shown(b, PortStateSelection(b, w))
<1>. DEFINE selected == [p \in Ports |-> SelectedPort(b, p)]
            before == IF w.late THEN b ELSE [b EXCEPT !.port = selected]
            detected == TopologyChangeDetection(before, w)
            t == PortStateSelection(b, w)
<1>1. selected \in [Ports -> PortRecords]
  BY SelectedPortAgrees
<1>2. t.port = selected
  BY PortStateSelectionShape
<1>3. t = IF \E p \in EnabledPorts(b) : LeavesTraffic(b, p)
          THEN [detected EXCEPT !.port = selected]
          ELSE [b EXCEPT !.port = selected]
  BY DEF PortStateSelection
<1>. HIDE DEF t
<1>4. \A p \in Ports : /\ PortShown(b.port[p], t.port[p])
                       /\ Ceased(b.port[p], t.port[p])
                            => p \in EnabledPorts(b) /\ LeavesTraffic(b, p)
  BY <1>2, SelectedPortShows
<1>. HIDE DEF selected
<1>5. before \in Bridges
  BY <1>1 DEF Bridges
<1>. HIDE DEF before
<1>6. detected \in Bridges /\ detected.fdb_needs_flush = TRUE
  BY <1>5, TopologyChangeDetectionKeeps, TopologyChangeDetectionShows
<1>. HIDE DEF detected
<1>7. CASE \E p \in EnabledPorts(b) : LeavesTraffic(b, p)
  <2>1. t.fdb_needs_flush = TRUE
    BY <1>3, <1>6, <1>7 DEF Bridges
  <2>. QED BY <2>1, <1>4 DEF Shown, t
<1>8. CASE ~ \E p \in EnabledPorts(b) : LeavesTraffic(b, p)
  <2>1. t.fdb_needs_flush = b.fdb_needs_flush
    BY <1>3, <1>8 DEF Bridges
  <2>. QED BY <2>1, <1>4, <1>8 DEF Shown, t
<1>. QED BY <1>7, <1>8

(***************************************************************************)
(* So does Reconfigure, which ends in it.                                  *)
(***************************************************************************)
LEMMA ReconfigureShows ==
  ASSUME NEW b, Updatable(b), NEW w \in Whims
  PROVE  Shown(b, Reconfigure(b, w))
<1>. DEFINE u == ConfigurationUpdate(b)
<1>1. b \in Bridges /\ u \in Bridges
  BY ConfigurationUpdateAgrees DEF Selectable, Updatable
<1>2. Shown(b, u)
  BY <1>1, ConfigurationUpdateShows
<1>3. Reconfigure(b, w) = PortStateSelection(u, w)
  BY DEF Reconfigure
<1>. HIDE DEF u
<1>. QED BY <1>1, <1>2, <1>3, PortStateSelectionShows, ShownTransitive

-----------------------------------------------------------------------------
(***************************************************************************)
(* The steps that are combined into operations.                            *)
(***************************************************************************)
LEMMA BecomeRootBridgeShows ==
  ASSUME NEW b \in Bridges, NEW w \in Whims
  PROVE  Shown(b, BecomeRootBridge(b, w))
<1>. DEFINE owning == [b EXCEPT !.times = b.bridge_times]
            told == TopologyChangeDetection(owning, w)
            detected == [told EXCEPT !.tcn_timer = Off]
            spread == ConfigBpduGeneration(detected, w)
            t == BecomeRootBridge(b, w)
<1>1. owning \in Bridges /\ Shown(b, owning)
  <2>1. owning \in Bridges /\ owning.port = b.port
        /\ owning.fdb_needs_flush = b.fdb_needs_flush
    BY DEF Bridges
  <2>. QED BY <2>1, SamePortsShown
<1>2. t = [spread EXCEPT !.hello_timer = 0]
  BY DEF BecomeRootBridge
<1>. HIDE DEF owning
<1>3. told \in Bridges /\ Shown(owning, told)
  BY <1>1, TopologyChangeDetectionKeeps, TopologyChangeDetectionShows
<1>. HIDE DEF told
<1>4. detected \in Bridges /\ Shown(told, detected)
  <2>1. detected \in Bridges /\ detected.port = told.port
        /\ detected.fdb_needs_flush = told.fdb_needs_flush
    BY <1>3, TimersHold DEF Bridges
  <2>. QED BY <2>1, SamePortsShown
<1>. HIDE DEF detected
<1>5. spread \in Bridges /\ Shown(detected, spread)
  BY <1>4, ConfigBpduGenerationKeeps, ConfigBpduGenerationShows
<1>. HIDE DEF spread, t
<1>6. Shown(spread, t)
  <2>1. t.port = spread.port /\ t.fdb_needs_flush = spread.fdb_needs_flush
    BY <1>2, <1>5 DEF Bridges
  <2>. QED BY <2>1, SamePortsShown
<1>. QED BY <1>1, <1>3, <1>4, <1>5, <1>6, ShownTransitive DEF t

(***************************************************************************)
(* Reconfigure and what follows when this bridge becomes the root.         *)
(***************************************************************************)
LEMMA ReconfigureOrLeadShows ==
  ASSUME NEW b, Updatable(b), NEW w \in Whims
  PROVE  Shown(b, ReconfigureOrLead(b, w))
<1>. DEFINE next == Reconfigure(b, w)
<1>1. next \in Bridges /\ Shown(b, next)
  BY ReconfigureSound, ReconfigureShows DEF Sound
<1>2. \/ ReconfigureOrLead(b, w) = next
      \/ ReconfigureOrLead(b, w) = BecomeRootBridge(next, w)
  BY DEF ReconfigureOrLead
<1>. HIDE DEF next
<1>. QED BY <1>1, <1>2, BecomeRootBridgeShows, ShownTransitive

(***************************************************************************)
(* Receiving a TCN: detection, then the acknowledgement.                   *)
(***************************************************************************)
LEMMA AcknowledgeTopologyChangeShows ==
  ASSUME NEW b \in Bridges, NEW p \in Ports, NEW w \in Whims
  PROVE  Shown(b, AcknowledgeTopologyChange(b, p, w))
<1>. DEFINE noted == [b EXCEPT !.port[p].topology_change_ack = TRUE]
<1>1. b.port[p] \in PortRecords
  BY DEF Bridges
<1>2. noted \in Bridges /\ Shown(b, noted)
  <2>. DEFINE x == [b.port[p] EXCEPT !.topology_change_ack = TRUE]
  <2>1. x \in PortRecords /\ SameStates(b.port[p], x)
    BY <1>1 DEF PortRecords, SameStates
  <2>2. noted = [b EXCEPT !.port[p] = x]
    BY DEF Bridges
  <2>. HIDE DEF x, noted
  <2>3. noted \in Bridges /\ noted.fdb_needs_flush = b.fdb_needs_flush
    BY <2>1, <2>2 DEF Bridges
  <2>4. \A q \in Ports : SameStates(b.port[q], noted.port[q])
    BY <2>1, <2>2 DEF Bridges, SameStates
  <2>. QED BY <2>3, <2>4, SameStatesShown
<1>3. AcknowledgeTopologyChange(b, p, w) = TransmitConfigs(noted, {p}, w)
  BY DEF AcknowledgeTopologyChange
<1>. HIDE DEF noted
<1>. QED BY <1>2, <1>3, TransmitConfigsShows, ShownTransitive

(***************************************************************************)
(* Rootship that is lost changes no port.                                  *)
(***************************************************************************)
LEMMA YieldRootShows ==
  ASSUME NEW b \in Bridges, NEW w
  PROVE  Shown(b, YieldRoot(b, w))
<1>. DEFINE quiet == [b EXCEPT !.hello_timer = Off]
            sent == TransmitTcn(quiet, w)
            t == YieldRoot(b, w)
<1>1. quiet \in Bridges /\ Shown(b, quiet)
  <2>1. quiet \in Bridges /\ quiet.port = b.port
        /\ quiet.fdb_needs_flush = b.fdb_needs_flush
    BY TimersHold DEF Bridges
  <2>. QED BY <2>1, SamePortsShown
<1>2. t = IF b.topology_change_detected
          THEN [sent EXCEPT !.topology_change_timer = Off, !.tcn_timer = 0]
          ELSE quiet
  BY DEF YieldRoot
<1>. HIDE DEF quiet, t
<1>3. sent \in Bridges /\ Shown(quiet, sent)
  BY <1>1, TransmitTcnKeeps, TransmitTcnShows
<1>. HIDE DEF sent
<1>4. CASE b.topology_change_detected
  <2>1. t.port = sent.port /\ t.fdb_needs_flush = sent.fdb_needs_flush
    BY <1>2, <1>3, <1>4 DEF Bridges
  <2>2. Shown(sent, t)
    BY <2>1, SamePortsShown
  <2>. QED BY <2>2, <1>1, <1>3, ShownTransitive DEF t
<1>5. CASE ~b.topology_change_detected
  BY <1>1, <1>2, <1>5 DEF t
<1>. QED BY <1>4, <1>5

(***************************************************************************)
(* Following the root may ask for a flush, and takes none back.            *)
(***************************************************************************)
LEMMA FollowRootShows ==
  ASSUME NEW b \in Bridges, NEW c \in ConfigContents, NEW w \in Whims
  PROVE  Shown(b, FollowRoot(b, c, w))
<1>. DEFINE told == [b EXCEPT !.times = c.times, !.topology_change = c.tc]
            relayed == ConfigBpduGeneration(told, w)
            settled == IF c.tca THEN TopologyChangeAcknowledged(relayed)
                       ELSE relayed
            t == FollowRoot(b, c, w)
<1>1. told \in Bridges /\ Shown(b, told)
  <2>1. told \in Bridges /\ told.port = b.port
        /\ told.fdb_needs_flush = b.fdb_needs_flush
    BY DEF Bridges, ConfigContents
  <2>. QED BY <2>1, SamePortsShown
<1>2. t = [settled EXCEPT !.fdb_needs_flush = @ \/ c.tc]
  BY DEF FollowRoot
<1>. HIDE DEF told, t
<1>3. relayed \in Bridges /\ Shown(told, relayed)
  BY <1>1, ConfigBpduGenerationKeeps, ConfigBpduGenerationShows
<1>. HIDE DEF relayed
<1>4. settled \in Bridges /\ Shown(relayed, settled)
  <2>1. settled \in Bridges /\ settled.port = relayed.port
        /\ settled.fdb_needs_flush = relayed.fdb_needs_flush
    BY <1>3, TimersHold DEF TopologyChangeAcknowledged, Bridges
  <2>. QED BY <2>1, SamePortsShown
<1>. HIDE DEF settled
<1>5. Shown(settled, t)
  <2>1. t.port = settled.port
        /\ t.fdb_needs_flush = (settled.fdb_needs_flush \/ c.tc)
    BY <1>2, <1>4 DEF Bridges
  <2>2. \A p \in Ports : PortShown(settled.port[p], t.port[p])
                         /\ ~Ceased(settled.port[p], t.port[p])
    BY <2>1 DEF PortShown, Ceased
  <2>. QED BY <2>1, <2>2 DEF Shown
<1>. QED BY <1>1, <1>3, <1>4, <1>5, ShownTransitive DEF t

-----------------------------------------------------------------------------
(***************************************************************************)
(* The operations VSwitch drives, on a sound bridge.                       *)
(***************************************************************************)
LEMMA QuietShows ==
  ASSUME NEW b \in Bridges
  PROVE  Shown(b, Quiet(b))
<1>1. Quiet(b).port = b.port /\ Quiet(b).fdb_needs_flush = b.fdb_needs_flush
  BY DEF Quiet, Bridges
<1>. QED BY <1>1, SamePortsShown

(***************************************************************************)
(* One port record is replaced by one in the same state, and nothing else  *)
(* is.                                                                     *)
(***************************************************************************)
LEMMA PortReplacedShown ==
  ASSUME NEW b \in Bridges, NEW p \in Ports, NEW x \in PortRecords,
         PortShown(b.port[p], x), ~Ceased(b.port[p], x)
  PROVE  Shown(b, [b EXCEPT !.port[p] = x])
<1>. DEFINE t == [b EXCEPT !.port[p] = x]
<1>1. /\ t.port[p] = x /\ \A q \in Ports \ {p} : t.port[q] = b.port[q]
      /\ t.fdb_needs_flush = b.fdb_needs_flush
  BY DEF Bridges
<1>. HIDE DEF t
<1>2. \A q \in Ports : PortShown(b.port[q], t.port[q]) /\ ~Ceased(b.port[q], t.port[q])
  BY <1>1 DEF PortShown, Ceased
<1>3. Shown(b, t)
  BY <1>1, <1>2 DEF Shown
<1>. QED BY <1>3 DEF t

(***************************************************************************)
(* Whatever BPDU arrives.                                                  *)
(***************************************************************************)
LEMMA ReceivedBpduShows ==
  ASSUME NEW b, Sound(b), NEW p \in PortsOf(b), NEW w \in Whims,
         NEW c \in ConfigContents \cup OtherContents
  PROVE  Shown(b, ReceivedBpdu(b, p, c, w))
<1>0. b \in Bridges /\ p \in Ports /\ b.port[p] \in PortRecords
  BY DEF Sound, PortsOf, Bridges
<1>. DEFINE recorded == RecordConfigInformation(b, p, c)
            selected == Reconfigure(recorded, w)
            yielded == IF ~IsRootBridge(selected) /\ IsRootBridge(b)
                       THEN YieldRoot(selected, w)
                       ELSE selected
<1>1. Shown(b, b)
  BY SamePortsShown
<1>2. Shown(b, ReceivedTcnBpdu(b, p, w))
  <2>. DEFINE told == TopologyChangeDetection(b, w)
  <2>1. told \in Bridges /\ Shown(b, told)
    BY <1>0, TopologyChangeDetectionKeeps, TopologyChangeDetectionShows
  <2>2. \/ ReceivedTcnBpdu(b, p, w) = AcknowledgeTopologyChange(told, p, w)
        \/ ReceivedTcnBpdu(b, p, w) = b
    BY DEF ReceivedTcnBpdu
  <2>. HIDE DEF told
  <2>. QED BY <2>1, <2>2, <1>0, <1>1, AcknowledgeTopologyChangeShows, ShownTransitive
<1>3. ASSUME c.type = "config"
      PROVE  Shown(b, AcceptConfig(b, p, c, w))
  <2>1. c \in ConfigContents
    BY <1>3 DEF ConfigContents, OtherContents
  <2>2. Updatable(recorded) /\ Shown(b, recorded)
    <3>. DEFINE info == [root |-> c.root, cost |-> c.cost,
                         bridge |-> c.bridge, port |-> c.port]
                x == [b.port[p] EXCEPT !.info = info,
                                       !.message_age_timer = c.message_age]
                t == [b EXCEPT !.port[p] = x]
    <3>1. info \in Infos /\ c.message_age \in Timers /\ Running(c.message_age)
      BY <2>1, TimersHold DEF ConfigContents, Infos
    <3>2. recorded = t
      BY <1>0 DEF RecordConfigInformation, Bridges, PortRecords
    <3>. HIDE DEF info
    <3>3. /\ x \in PortRecords
          /\ SameStates(b.port[p], x)
          /\ x.forward_delay_timer = b.port[p].forward_delay_timer
          /\ Running(x.message_age_timer)
      BY <1>0, <3>1 DEF PortRecords, SameStates
    <3>. HIDE DEF x
    <3>4. /\ t \in Bridges
          /\ t.port[p] = x
          /\ \A q \in Ports \ {p} : t.port[q] = b.port[q]
          /\ t.bridge_id = b.bridge_id
      BY <1>0, <3>3, PortReplaced
    <3>5. Shown(b, t)
      BY <1>0, <3>3, PortReplacedShown DEF SameStates, PortShown, Ceased
    <3>. HIDE DEF t
    <3>6. EnabledPorts(t) = EnabledPorts(b) /\ EnabledPorts(b) \subseteq Ports
      BY <1>0, <3>3, <3>4 DEF EnabledPorts, PortsOf, SameStates
    <3>7. \A q \in Ports \ {p} : IsDesignatedPort(t, q) <=> IsDesignatedPort(b, q)
      BY <3>4 DEF IsDesignatedPort
    <3>8. ForeignInfoIsTimed(t)
      BY <3>3, <3>4, <3>6, <3>7 DEF Sound, HeardInfoIsTimed, ForeignInfoIsTimed
    <3>9. ProgressIsTimed(t)
      BY <3>3, <3>4, <3>6 DEF Sound, ProgressIsTimed, SameStates
    <3>. QED BY <3>2, <3>4, <3>5, <3>8, <3>9 DEF Updatable
  <2>3. AcceptConfig(b, p, c, w) = IF p = yielded.root_port
                                   THEN FollowRoot(yielded, c, w) ELSE yielded
    BY DEF AcceptConfig
  <2>. HIDE DEF recorded
  <2>4. selected \in Bridges /\ Shown(recorded, selected)
    BY <2>2, ReconfigureSound, ReconfigureShows DEF Sound
  <2>. HIDE DEF selected
  <2>5. yielded \in Bridges /\ Shown(b, yielded)
    <3>1. Shown(b, selected)
      BY <2>2, <2>4, ShownTransitive
    <3>2. YieldRoot(selected, w) \in Bridges /\ Shown(b, YieldRoot(selected, w))
      BY <3>1, <2>4, YieldRootKeeps, YieldRootShows, ShownTransitive
    <3>. QED BY <3>1, <3>2, <2>4
  <2>. HIDE DEF yielded
  <2>6. Shown(b, FollowRoot(yielded, c, w))
    BY <2>1, <2>5, FollowRootShows, ShownTransitive
  <2>. QED BY <2>3, <2>5, <2>6
<1>4. c.type = "config" => Shown(b, ReceivedConfigBpdu(b, p, c, w))
  BY <1>0, <1>1, <1>3, TransmitConfigsShows DEF ReceivedConfigBpdu
<1>5. \/ ReceivedBpdu(b, p, c, w) = b
      \/ c.type = "config" /\ ReceivedBpdu(b, p, c, w) = ReceivedConfigBpdu(b, p, c, w)
      \/ ReceivedBpdu(b, p, c, w) = ReceivedTcnBpdu(b, p, w)
  BY DEF ReceivedBpdu, ConfigContents, OtherContents
<1>. QED BY <1>1, <1>2, <1>4, <1>5

(***************************************************************************)
(* The timers of the bridge.                                               *)
(***************************************************************************)
LEMMA BridgeTickShows ==
  ASSUME NEW b \in Bridges, NEW ticks \in Int, NEW w \in Whims
  PROVE  Shown(b, BridgeTick(b, ticks, w))
<1>1. ASSUME NEW x \in Bridges
      PROVE  HelloTick(x, ticks, w) \in Bridges /\ Shown(x, HelloTick(x, ticks, w))
  <2>. DEFINE spread == ConfigBpduGeneration(x, w)
              timer == TimerAfter(x.hello_timer, ticks, x.times.hello_time)
  <2>1. timer \in Timers /\ 0 \in Timers
    BY TimersHold, TimerAfterShape DEF Bridges
  <2>2. spread \in Bridges /\ Shown(x, spread)
    BY ConfigBpduGenerationKeeps, ConfigBpduGenerationShows
  <2>3. \/ HelloTick(x, ticks, w) = [spread EXCEPT !.hello_timer = 0]
        \/ HelloTick(x, ticks, w) = [x EXCEPT !.hello_timer = timer]
    BY DEF HelloTick, Bridges
  <2>. HIDE DEF spread, timer
  <2>4. /\ [spread EXCEPT !.hello_timer = 0] \in Bridges
        /\ Shown(spread, [spread EXCEPT !.hello_timer = 0])
    BY <2>1, <2>2, SamePortsShown DEF Bridges
  <2>5. /\ [x EXCEPT !.hello_timer = timer] \in Bridges
        /\ Shown(x, [x EXCEPT !.hello_timer = timer])
    BY <2>1, SamePortsShown DEF Bridges
  <2>. QED BY <2>2, <2>3, <2>4, <2>5, ShownTransitive
<1>2. ASSUME NEW x \in Bridges
      PROVE  TcnTick(x, ticks, w) \in Bridges /\ Shown(x, TcnTick(x, ticks, w))
  <2>. DEFINE sent == TransmitTcn(x, w)
              timer == TimerAfter(x.tcn_timer, ticks, x.bridge_times.hello_time)
  <2>1. timer \in Timers /\ 0 \in Timers
    BY TimersHold, TimerAfterShape DEF Bridges
  <2>2. sent \in Bridges /\ Shown(x, sent)
    BY TransmitTcnKeeps, TransmitTcnShows
  <2>3. \/ TcnTick(x, ticks, w) = [sent EXCEPT !.tcn_timer = 0]
        \/ TcnTick(x, ticks, w) = [x EXCEPT !.tcn_timer = timer]
    BY DEF TcnTick, Bridges
  <2>. HIDE DEF sent, timer
  <2>4. /\ [sent EXCEPT !.tcn_timer = 0] \in Bridges
        /\ Shown(sent, [sent EXCEPT !.tcn_timer = 0])
    BY <2>1, <2>2, SamePortsShown DEF Bridges
  <2>5. /\ [x EXCEPT !.tcn_timer = timer] \in Bridges
        /\ Shown(x, [x EXCEPT !.tcn_timer = timer])
    BY <2>1, SamePortsShown DEF Bridges
  <2>. QED BY <2>2, <2>3, <2>4, <2>5, ShownTransitive
<1>3. ASSUME NEW x \in Bridges
      PROVE  Shown(x, TopologyChangeTick(x, ticks))
  <2>1. /\ TopologyChangeTick(x, ticks).port = x.port
        /\ TopologyChangeTick(x, ticks).fdb_needs_flush = x.fdb_needs_flush
    BY DEF TopologyChangeTick, Bridges
  <2>. QED BY <2>1, SamePortsShown
<1>. QED BY <1>1, <1>2, <1>3, ShownTransitive DEF BridgeTick

(***************************************************************************)
(* The message age timer of a port.                                        *)
(***************************************************************************)
LEMMA MessageAgeTickShows ==
  ASSUME NEW b, Sound(b), NEW p \in EnabledPorts(b), NEW ticks \in Int,
         NEW w \in Whims
  PROVE  Shown(b, MessageAgeTick(b, p, ticks, w))
<1>. DEFINE timer == TimerAfter(b.port[p].message_age_timer, ticks, b.times.max_age)
            expired == TimerExpired(b.port[p].message_age_timer, ticks, b.times.max_age)
            x == [b.port[p] EXCEPT !.message_age_timer = timer]
            aged == [b EXCEPT !.port[p] = x]
            y == [x EXCEPT !.info = OwnInfo(aged, p)]
            own == [aged EXCEPT !.port[p] = y]
<1>1. b \in Bridges /\ p \in Ports /\ b.port[p] \in PortRecords
  BY DEF Sound, EnabledPorts, PortsOf, Bridges
<1>2. timer \in Timers
  BY <1>1, TimerAfterShape DEF PortRecords
<1>3. MessageAgeTick(b, p, ticks, w)
        = IF expired THEN MessageAgeTimerExpiry(aged, p, w) ELSE aged
  BY <1>1 DEF MessageAgeTick, Bridges, PortRecords
<1>. HIDE DEF timer, expired
<1>4. /\ x \in PortRecords /\ SameStates(b.port[p], x)
      /\ x.forward_delay_timer = b.port[p].forward_delay_timer
  BY <1>1, <1>2 DEF PortRecords, SameStates
<1>. HIDE DEF x
<1>5. /\ aged \in Bridges
      /\ aged.port[p] = x
      /\ \A q \in Ports \ {p} : aged.port[q] = b.port[q]
      /\ aged.bridge_id = b.bridge_id
  BY <1>1, <1>4, PortReplaced
<1>6. Shown(b, aged)
  BY <1>1, <1>4, PortReplacedShown DEF SameStates, PortShown, Ceased
<1>. HIDE DEF aged
<1>7. CASE ~expired
  BY <1>3, <1>6, <1>7
<1>8. CASE expired
  <2>1. BecomeDesignatedPort(aged, p) = own
    BY <1>1, <1>5 DEF BecomeDesignatedPort, Bridges
  <2>2. /\ y \in PortRecords /\ SameStates(x, y) /\ y.info = OwnInfo(aged, p)
        /\ y.forward_delay_timer = x.forward_delay_timer
    <3>1. OwnInfo(aged, p) \in Infos
      BY <1>1, <1>5, PortsAssumption DEF OwnInfo, Infos, Bridges
    <3>. QED BY <3>1, <1>4 DEF PortRecords, SameStates
  <2>. HIDE DEF y
  <2>3. /\ own \in Bridges
        /\ own.port[p] = y
        /\ \A q \in Ports \ {p} : own.port[q] = b.port[q]
        /\ own.bridge_id = b.bridge_id
    BY <1>1, <1>5, <2>2, PortReplaced
  <2>4. Shown(aged, own)
    BY <1>1, <1>5, <2>2, PortReplacedShown DEF SameStates, PortShown, Ceased
  <2>. HIDE DEF own
  <2>5. EnabledPorts(own) = EnabledPorts(b) /\ EnabledPorts(b) \subseteq Ports
    BY <1>1, <1>4, <2>2, <2>3 DEF EnabledPorts, PortsOf, SameStates
  <2>6. IsDesignatedPort(own, p)
    BY <1>5, <2>2, <2>3 DEF IsDesignatedPort, OwnInfo
  <2>7. ForeignInfoIsTimed(own)
    BY <2>3, <2>5, <2>6 DEF Sound, HeardInfoIsTimed, ForeignInfoIsTimed,
                            IsDesignatedPort
  <2>8. ProgressIsTimed(own)
    BY <1>4, <2>2, <2>3, <2>5 DEF Sound, ProgressIsTimed, SameStates
  <2>9. Shown(own, ReconfigureOrLead(own, w))
    BY <2>3, <2>7, <2>8, ReconfigureOrLeadShows DEF Updatable
  <2>10. MessageAgeTick(b, p, ticks, w) = ReconfigureOrLead(own, w)
    BY <1>3, <1>8, <2>1 DEF MessageAgeTimerExpiry
  <2>. QED BY <1>6, <2>4, <2>9, <2>10, ShownTransitive
<1>. QED BY <1>7, <1>8

(***************************************************************************)
(* The forward delay timer of a port, which never lets it cease to learn.  *)
(***************************************************************************)
LEMMA ForwardDelayTickShows ==
  ASSUME NEW b, Sound(b), NEW p \in EnabledPorts(b), NEW ticks \in Int,
         NEW w
  PROVE  Shown(b, ForwardDelayTick(b, p, ticks, w))
<1>. DEFINE timer == TimerAfter(b.port[p].forward_delay_timer, ticks, b.times.forward_delay)
            expired == TimerExpired(b.port[p].forward_delay_timer, ticks, b.times.forward_delay)
            x == [b.port[p] EXCEPT !.forward_delay_timer = timer]
            aged == [b EXCEPT !.port[p] = x]
            y == WithState(x, "learning")
            z == [y EXCEPT !.forward_delay_timer = 0]
            v == WithState(x, "forwarding")
            open == [aged EXCEPT !.port[p] = v]
            t == ForwardDelayTick(b, p, ticks, w)
<1>1. b \in Bridges /\ p \in Ports /\ b.port[p] \in PortRecords
  BY DEF Sound, EnabledPorts, PortsOf, Bridges
<1>2. timer \in Timers /\ b.port[p].state # "absent"
  BY <1>1, TimerAfterShape DEF PortRecords, EnabledPorts, PortsOf
<1>3. t = IF expired THEN ForwardDelayTimerExpiry(aged, p, w) ELSE aged
  BY <1>1 DEF ForwardDelayTick, Bridges, PortRecords
<1>. HIDE DEF timer, expired, t
<1>4. x \in PortRecords /\ SameStates(b.port[p], x)
  BY <1>1, <1>2 DEF PortRecords, SameStates
<1>. HIDE DEF x
<1>5. aged \in Bridges /\ aged.port[p] = x
  BY <1>1, <1>4, PortReplaced
<1>6. Shown(b, aged)
  BY <1>1, <1>4, PortReplacedShown DEF SameStates, PortShown, Ceased
<1>. HIDE DEF aged
<1>7. /\ y \in PortRecords /\ y.state = "learning" /\ PortShown(x, y)
      /\ v \in PortRecords /\ v.state = "forwarding" /\ PortShown(x, v)
  BY <1>2, <1>4, WithStateShows DEF StpStates, SameStates
<1>8. \/ t = aged
      \/ aged.port[p].state = "listening" /\ t = [aged EXCEPT !.port[p] = z]
      \/ t = open
      \/ t = TopologyChangeDetection(open, w)
  BY <1>3, <1>5 DEF ForwardDelayTimerExpiry
<1>. HIDE DEF y, v
<1>9. z \in PortRecords /\ SameStates(y, z)
  BY <1>7, TimersHold DEF PortRecords, SameStates
<1>. HIDE DEF z
<1>10. Shown(aged, [aged EXCEPT !.port[p] = z])
  <2>1. PortShown(x, z) /\ ~Ceased(x, z)
    BY <1>7, <1>9 DEF SameStates, PortShown, Ceased, stp_learn_in_state
  <2>. QED BY <2>1, <1>1, <1>5, <1>9, PortReplacedShown
<1>11. open \in Bridges /\ Shown(aged, open)
  <2>1. ~Ceased(x, v)
    BY <1>7 DEF Ceased, stp_learn_in_state
  <2>. QED BY <2>1, <1>1, <1>5, <1>7, PortReplaced, PortReplacedShown
<1>. HIDE DEF open
<1>12. Shown(open, TopologyChangeDetection(open, w))
  BY <1>11, TopologyChangeDetectionShows
<1>13. Shown(b, t)
  BY <1>6, <1>8, <1>10, <1>11, <1>12, ShownTransitive
<1>. QED BY <1>13 DEF t

(***************************************************************************)
(* The second walk of a tick, over the forward delay and hold timers.      *)
(***************************************************************************)
LEMMA PortTickShows ==
  ASSUME NEW b, Sound(b), NEW p \in EnabledPorts(b), NEW ticks \in Int,
         NEW w \in Whims
  PROVE  Shown(b, PortTick(b, p, ticks, w))
<1>. DEFINE t == ForwardDelayTick(b, p, ticks, w)
            timer == TimerAfter(t.port[p].hold_timer, ticks, HoldTime)
            x == [t.port[p] EXCEPT !.hold_timer = timer]
            aged == [t EXCEPT !.port[p] = x]
<1>1. t \in Bridges /\ Shown(b, t) /\ p \in Ports
  BY ForwardDelayTickSound, ForwardDelayTickShows DEF Sound, EnabledPorts, PortsOf
<1>2. PortTick(b, p, ticks, w) = HoldTick(t, p, ticks, w)
  BY DEF PortTick
<1>. HIDE DEF t
<1>3. t.port[p] \in PortRecords
  BY <1>1 DEF Bridges
<1>4. timer \in Timers
  BY <1>3, TimerAfterShape DEF PortRecords
<1>5. \/ HoldTick(t, p, ticks, w) = aged
      \/ HoldTick(t, p, ticks, w) = TransmitConfigs(aged, {p}, w)
  BY <1>1, <1>3 DEF HoldTick, Bridges, PortRecords
<1>. HIDE DEF timer
<1>6. x \in PortRecords /\ SameStates(t.port[p], x)
  BY <1>3, <1>4 DEF PortRecords, SameStates
<1>. HIDE DEF x
<1>7. aged \in Bridges /\ Shown(t, aged)
  BY <1>1, <1>3, <1>6, PortReplaced, PortReplacedShown DEF SameStates, PortShown, Ceased
<1>. HIDE DEF aged
<1>8. Shown(aged, TransmitConfigs(aged, {p}, w))
  BY <1>1, <1>7, TransmitConfigsShows
<1>. QED BY <1>1, <1>2, <1>5, <1>7, <1>8, ShownTransitive

-----------------------------------------------------------------------------
(***************************************************************************)
(* The ports of a bridge after what is shown, and after a port was added   *)
(* or removed: the others stay as they are, because a sound bridge has     *)
(* nothing to select anew.                                                 *)
(***************************************************************************)
LEMMA ShownPortsOf ==
  ASSUME NEW b, NEW t, Shown(b, t)
  PROVE  PortsOf(t) = PortsOf(b)
  BY DEF Shown, PortShown, PortsOf

(***************************************************************************)
(* CreatePort makes one disabled port and touches no other.                *)
(***************************************************************************)
Created(b, p, t) ==
  /\ t.port[p].state = "disabled"
  /\ \A q \in Ports \ {p} : t.port[q] = b.port[q]
  /\ t.fdb_needs_flush = b.fdb_needs_flush

LEMMA CreatePortShape ==
  ASSUME NEW b, Sound(b), NEW p \in Ports, p \notin PortsOf(b),
         NEW cost \in Nat \ {0}, NEW reused \in BOOLEAN
  PROVE  Created(b, p, CreatePort(b, p, cost, reused))
<1>. DEFINE x == InitialPort(b, p, cost, "disabled", FALSE)
            r == IF b.root_port = StalePort /\ reused THEN p ELSE b.root_port
            t == CreatePort(b, p, cost, reused)
<1>1. b \in Bridges
  BY DEF Sound
<1>2. t = [b EXCEPT !.root_port = r, !.port[p] = x]
  BY DEF CreatePort
<1>3. x.state = "disabled"
  BY DEF InitialPort
<1>. HIDE DEF x, r, t
<1>4. /\ t.port[p] = x /\ \A q \in Ports \ {p} : t.port[q] = b.port[q]
      /\ t.fdb_needs_flush = b.fdb_needs_flush
  BY <1>1, <1>2 DEF Bridges
<1>. QED BY <1>3, <1>4 DEF t, Created

(***************************************************************************)
(* From b to t the port p was added: it neither learns nor forwards yet,   *)
(* is marked, and the other ports are in the states they were in.          *)
(***************************************************************************)
Added(b, p, t) ==
  /\ t.port[p].state \notin {"absent", "learning", "forwarding"}
  /\ t.port[p].state_changed
  /\ t.port[p].change_detection_enabled
  /\ \A q \in Ports \ {p} :
       /\ PortShown(b.port[q], t.port[q])
       /\ t.port[q].state = b.port[q].state
  /\ b.fdb_needs_flush => t.fdb_needs_flush

(***************************************************************************)
(* PortEnable of a new port: it listens or blocks, and no other changes.   *)
(***************************************************************************)
LEMMA PortEnableShape ==
  ASSUME NEW b, Sound(b), NEW p \in PortsOf(b), b.port[p].state = "disabled",
         NEW w \in Whims
  PROVE  Added(b, p, PortEnable(b, p, w))
<1>. DEFINE x == InitialPort(b, p, b.port[p].path_cost, "blocking", TRUE)
            u == [b EXCEPT !.port[p] = x]
            t == PortEnable(b, p, w)
<1>0. b \in Bridges /\ p \in Ports
  BY DEF Sound, PortsOf
<1>1. /\ x \in PortRecords /\ x.state = "blocking" /\ x.info = OwnInfo(b, p)
      /\ x.state_changed = TRUE /\ x.change_detection_enabled = TRUE
  <2>1. b.port[p].path_cost \in Nat \ {0}
    <3>1. b.port[p] \in PortRecords
      BY <1>0 DEF Bridges
    <3>. QED BY <3>1 DEF PortRecords
  <2>2. x \in PortRecords
    BY <2>1, <1>0, TimersHold, PortsAssumption DEF InitialPort, PortRecords, OwnInfo, Infos, Bridges, StpStates
  <2>. QED BY <2>2 DEF InitialPort
<1>2. t = PortStateSelection(u, w)
  BY DEF PortEnable
<1>. HIDE DEF x
<1>3. /\ u \in Bridges /\ u.port[p] = x
      /\ \A q \in Ports \ {p} : u.port[q] = b.port[q]
      /\ u.bridge_id = b.bridge_id /\ u.root_port = b.root_port
      /\ u.fdb_needs_flush = b.fdb_needs_flush
  BY <1>0, <1>1 DEF Bridges
<1>. HIDE DEF u, t
<1>4. t.port = [q \in Ports |-> SelectedPort(u, q)]
  BY <1>2, <1>3, PortStateSelectionShape
<1>5. Shown(u, t)
  BY <1>2, <1>3, PortStateSelectionShows
<1>6. ASSUME NEW q \in Ports \ {p}
      PROVE  /\ PortShown(b.port[q], t.port[q])
             /\ t.port[q].state = b.port[q].state
  <2>1. PortShown(b.port[q], t.port[q])
    BY <1>3, <1>5 DEF Shown
  <2>2. CASE q \in EnabledPorts(b)
    <3>1. u.port[q].state = "blocking"
            <=> q # u.root_port /\ ~IsDesignatedPort(u, q)
      BY <1>3, <2>2 DEF Sound, RolesAgree, IsDesignatedPort
    <3>2. SelectedPort(u, q).state = u.port[q].state
      BY <1>3, <3>1, SelectedPortShows
    <3>. QED BY <1>3, <1>4, <2>1, <3>2
  <2>3. CASE q \notin EnabledPorts(b)
    <3>1. q \notin EnabledPorts(u)
      BY <1>3, <2>3 DEF EnabledPorts, PortsOf
    <3>. QED BY <1>3, <1>4, <2>1, <3>1, SelectedPortAgrees
  <2>. QED BY <2>1, <2>2, <2>3
<1>7. /\ t.port[p].state \notin {"absent", "learning", "forwarding"}
      /\ t.port[p].state_changed
      /\ t.port[p].change_detection_enabled
  <2>1. PortShown(x, t.port[p])
    BY <1>0, <1>3, <1>5 DEF Shown
  <2>2. t.port[p].state \notin {"learning", "forwarding"}
    BY <1>0, <1>1, <1>3, <1>4, SelectedPortShows DEF stp_learn_in_state
  <2>. QED BY <2>1, <2>2, <1>1 DEF PortShown
<1>8. b.fdb_needs_flush => t.fdb_needs_flush
  BY <1>3, <1>5 DEF Shown
<1>. QED BY <1>6, <1>7, <1>8 DEF t, Added

-----------------------------------------------------------------------------
(***************************************************************************)
(* The inductive invariant: the switch's registers agree with the bridge,  *)
(* and every port detects changes, so that a flush is asked for as long as *)
(* an address is known behind a port that does not learn.                  *)
(***************************************************************************)
FlushOwed ==
  \A p \in PortsOf(bridge) :
    /\ ~stp_learn_in_state(bridge.port[p].state)
    /\ \E m \in Macs : table[m].sink = sinks[p]
    => bridge.fdb_needs_flush

SwitchIInv ==
  /\ IInv
  /\ SwitchTypeOK
  /\ EntriesLive
  /\ NoChangeMissed
  /\ \A p \in PortsOf(bridge) : bridge.port[p].change_detection_enabled
  /\ FlushOwed

USE SinksAssumption, MacsAssumption, MacTicksAssumption

(***************************************************************************)
(* The port of a sink is the one that it is registered for.                *)
(***************************************************************************)
LEMMA PortOfSink ==
  ASSUME SwitchTypeOK
  PROVE  /\ \A p \in PortsOf(bridge) :
              sinks[p] \in Attached /\ sinks[p] # Nowhere /\ PortOf(sinks[p]) = p
         /\ \A s \in Attached :
              PortOf(s) \in PortsOf(bridge) /\ sinks[PortOf(s)] = s
         /\ Attached \subseteq Sinks
<1>1. ASSUME NEW p \in PortsOf(bridge)
      PROVE  sinks[p] \in Attached /\ sinks[p] # Nowhere /\ PortOf(sinks[p]) = p
  <2>1. p \in Ports /\ sinks[p] # Nowhere
    BY DEF SwitchTypeOK
  <2>2. \E q \in Ports : sinks[q] = sinks[p]
    BY <2>1
  <2>3. PortOf(sinks[p]) \in Ports /\ sinks[PortOf(sinks[p])] = sinks[p]
    BY <2>2 DEF PortOf
  <2>. QED BY <2>1, <2>3 DEF SwitchTypeOK, Attached
<1>2. ASSUME NEW s \in Attached
      PROVE  PortOf(s) \in PortsOf(bridge) /\ sinks[PortOf(s)] = s
  <2>1. s # Nowhere /\ \E q \in Ports : sinks[q] = s
    BY DEF Attached
  <2>2. PortOf(s) \in Ports /\ sinks[PortOf(s)] = s
    BY <2>1 DEF PortOf
  <2>. QED BY <2>1, <2>2 DEF SwitchTypeOK
<1>3. Attached \subseteq Sinks
  BY DEF Attached, SwitchTypeOK
<1>. QED BY <1>1, <1>2, <1>3

(***************************************************************************)
(* An entry of the right type is none exactly when it holds no sink.       *)
(***************************************************************************)
LEMMA EntryShape ==
  ASSUME NEW entry \in Entries
  PROVE  /\ entry.sink \in Sinks \cup {Nowhere}
         /\ entry = NoEntry <=> entry.sink = Nowhere
         /\ NoEntry.sink = Nowhere
  BY DEF Entries, NoEntry

(***************************************************************************)
(* The invariant holds at the start.                                       *)
(***************************************************************************)
LEMMA InitSwitchIInv == SwitchInit => SwitchIInv
<1>. SUFFICES ASSUME SwitchInit PROVE SwitchIInv
  OBVIOUS
<1>1. IInv
  BY InitIInv DEF SwitchInit
<1>2. PortsOf(bridge) = {}
  BY DEF SwitchInit, Init, NewBridge, AbsentPort, PortsOf
<1>3. \A m \in Macs : table[m] = NoEntry /\ table[m].sink = Nowhere
  BY DEF SwitchInit, NoEntry
<1>4. TypeOK
  BY <1>1 DEF IInv, Sound, RootPortOK, TypeOK
<1>5. SwitchTypeOK
  BY <1>2, <1>4 DEF SwitchInit, SwitchTypeOK, StpStates, Entries, Frames
<1>6. EntriesLive
  BY <1>3 DEF EntriesLive
<1>. QED BY <1>1, <1>2, <1>5, <1>6 DEF SwitchIInv, NoChangeMissed, FlushOwed

(***************************************************************************)
(* A step of the bridge that shows what it does, while the sinks stay:     *)
(* the table may lose entries, and gain one of a sink whose port learns.   *)
(***************************************************************************)
Learning(s) ==
  \E p \in PortsOf(bridge) :
    sinks[p] = s /\ stp_learn_in_state(bridge'.port[p].state)

LEMMA ShownKeepsSwitchIInv ==
  ASSUME SwitchIInv, IInv', Shown(bridge, bridge'),
         sinks' = sinks, known' = known,
         table' \in [Macs -> Entries], frame' \in Frames,
         \A m \in Macs : \/ table'[m].sink \in {Nowhere, table[m].sink}
                         \/ Learning(table'[m].sink)
  PROVE  SwitchIInv'
<1>1. PortsOf(bridge') = PortsOf(bridge)
  BY ShownPortsOf
<1>2. PortsOf(bridge) \subseteq Ports
  BY DEF PortsOf
<1>3. TypeOK'
  BY DEF IInv, Sound, RootPortOK, TypeOK
<1>4. SwitchTypeOK'
  BY <1>1, <1>3 DEF SwitchIInv, SwitchTypeOK
<1>5. \A s : Learning(s) => s \in Attached
  BY PortOfSink DEF SwitchIInv, Learning
<1>6. EntriesLive'
  BY <1>5 DEF SwitchIInv, EntriesLive, Attached
<1>7. NoChangeMissed'
  BY <1>1, <1>2 DEF SwitchIInv, NoChangeMissed, Shown, PortShown
<1>8. \A p \in PortsOf(bridge') : bridge'.port[p].change_detection_enabled
  BY <1>1, <1>2 DEF SwitchIInv, Shown, PortShown
<1>9. FlushOwed'
  <2>. SUFFICES ASSUME NEW p \in PortsOf(bridge), NEW m \in Macs,
                       ~stp_learn_in_state(bridge'.port[p].state),
                       table'[m].sink = sinks[p]
                PROVE  bridge'.fdb_needs_flush
    BY <1>1 DEF FlushOwed
  <2>1. p \in Ports /\ sinks[p] # Nowhere
    BY PortOfSink, <1>2 DEF SwitchIInv
  <2>2. table[m].sink = sinks[p]
    BY <2>1, <1>2 DEF Learning, SwitchIInv, SwitchTypeOK
  <2>3. CASE stp_learn_in_state(bridge.port[p].state)
    BY <2>1, <2>3 DEF SwitchIInv, Shown, Ceased
  <2>4. CASE ~stp_learn_in_state(bridge.port[p].state)
    BY <2>2, <2>4 DEF SwitchIInv, Shown, FlushOwed
  <2>. QED BY <2>3, <2>4
<1>. QED BY <1>4, <1>6, <1>7, <1>8, <1>9 DEF SwitchIInv

(***************************************************************************)
(* What an AddPort of the bridge does to its ports.                        *)
(***************************************************************************)
LEMMA AddPortShape ==
  ASSUME IInv, NEW p \in Ports, AddPort(p)
  PROVE  /\ IInv'
         /\ p \notin PortsOf(bridge)
         /\ PortsOf(bridge') = PortsOf(bridge) \cup {p}
         /\ Added(bridge, p, bridge')
<1>. DEFINE b == Quiet(bridge)
<1>1. IInv'
  BY StepIInv DEF Next
<1>2. /\ Sound(b) /\ b.port = bridge.port
      /\ b.fdb_needs_flush = bridge.fdb_needs_flush
  <2>1. Sound(b) /\ bridge \in Bridges
    BY QuietSound DEF IInv, Sound
  <2>. QED BY <2>1 DEF Quiet, Bridges
<1>3. p \notin PortsOf(bridge) /\ p \notin PortsOf(b)
  BY <1>2 DEF AddPort, PortsOf
<1>4. PICK cost \in PathCosts, w \in Outcomes(bridge), reused \in BOOLEAN :
        bridge' = PortEnable(CreatePort(b, p, cost, reused), p, w)
  BY DEF AddPort
<1>. DEFINE c == CreatePort(b, p, cost, reused)
<1>5. w \in Whims /\ cost \in Nat \ {0}
  BY OutcomesAreWhims, CostAssumption
<1>6. Sound(c) /\ p \in PortsOf(c)
  BY <1>2, <1>5, CreatePortSound
<1>7. Created(b, p, c)
  BY <1>2, <1>3, <1>5, CreatePortShape
<1>. HIDE DEF b, c
<1>8. bridge' = PortEnable(c, p, w)
  BY <1>4 DEF c
<1>9. Added(c, p, bridge')
  BY <1>5, <1>6, <1>7, <1>8, PortEnableShape DEF Created
<1>10. Added(bridge, p, bridge')
  BY <1>2, <1>7, <1>9 DEF Added, Created
<1>11. PortsOf(bridge') = PortsOf(bridge) \cup {p}
  BY <1>10 DEF PortsOf, Added
<1>. QED BY <1>1, <1>3, <1>10, <1>11

(***************************************************************************)
(* What a RemovePort does.                                                 *)
(***************************************************************************)
LEMMA RemovePortShape ==
  ASSUME IInv, NEW p \in Ports, RemovePort(p)
  PROVE  /\ IInv'
         /\ PortsOf(bridge') = PortsOf(bridge) \ {p}
         /\ \A q \in Ports \ {p} : bridge'.port[q] = bridge.port[q]
         /\ bridge'.fdb_needs_flush = bridge.fdb_needs_flush
<1>. DEFINE b == Quiet(bridge)
<1>1. IInv'
  BY StepIInv DEF Next
<1>2. /\ b \in Bridges /\ b.port = bridge.port
      /\ b.fdb_needs_flush = bridge.fdb_needs_flush
  <2>1. bridge \in Bridges
    BY DEF IInv, Sound
  <2>. QED BY <2>1, QuietKeeps DEF Quiet, Bridges
<1>3. bridge' = DestroyPort(b, p)
  BY DEF RemovePort
<1>. HIDE DEF b
<1>4. /\ bridge'.port[p] = AbsentPort
      /\ \A q \in Ports \ {p} : bridge'.port[q] = b.port[q]
      /\ bridge'.fdb_needs_flush = b.fdb_needs_flush
  <2>. HIDE DEF AbsentPort
  <2>. QED BY <1>2, <1>3 DEF DestroyPort, Bridges
<1>5. PortsOf(bridge') = PortsOf(bridge) \ {p}
  <2>1. AbsentPort.state = "absent"
    BY DEF AbsentPort
  <2>. HIDE DEF AbsentPort
  <2>. QED BY <2>1, <1>2, <1>4 DEF PortsOf
<1>. QED BY <1>1, <1>2, <1>4, <1>5

(***************************************************************************)
(* The steps that keep the sinks show what the bridge did.                 *)
(***************************************************************************)
LEMMA BridgeStepShown ==
  ASSUME IInv, \/ \E p \in Ports : Receive(p) \/ AgePort(p) \/ DelayPort(p)
               \/ StartTick \/ EndAging
  PROVE  IInv' /\ Shown(bridge, bridge')
<1>. DEFINE b == Quiet(bridge)
<1>1. IInv'
  BY StepIInv DEF Next, Tick
<1>2. Sound(b) /\ b \in Bridges /\ Shown(bridge, b)
  BY QuietSound, QuietShows DEF IInv, Sound
<1>3. PortsOf(b) = PortsOf(bridge) /\ EnabledPorts(b) = EnabledPorts(bridge)
  BY QuietSound DEF IInv
<1>4. Outcomes(bridge) \subseteq Whims /\ elapsed \in Int
  BY OutcomesAreWhims DEF IInv
<1>5. ASSUME NEW p \in Ports, Receive(p) PROVE Shown(b, bridge')
  <2>1. PICK bpdu \in Arriving(p), w \in Outcomes(bridge) :
          bridge' = ReceivedBpdu(b, p, bpdu, w)
    BY <1>5 DEF Receive
  <2>2. bpdu \in ConfigContents \cup OtherContents
    BY BpduAssumption DEF Arriving
  <2>3. p \in PortsOf(b)
    BY <1>3, <1>5 DEF Receive
  <2>. HIDE DEF b
  <2>. QED BY <1>2, <1>4, <2>1, <2>2, <2>3, ReceivedBpduShows
<1>6. ASSUME NEW p \in Ports, AgePort(p) PROVE Shown(b, bridge')
  <2>1. PICK w \in Outcomes(bridge) : bridge' = MessageAgeTick(b, p, elapsed, w)
    BY <1>6 DEF AgePort
  <2>2. p \in EnabledPorts(b)
    BY <1>3, <1>6 DEF AgePort, Visiting, IInv
  <2>. HIDE DEF b
  <2>. QED BY <1>2, <1>4, <2>1, <2>2, MessageAgeTickShows
<1>7. ASSUME NEW p \in Ports, DelayPort(p) PROVE Shown(b, bridge')
  <2>1. PICK w \in Outcomes(bridge) : bridge' = PortTick(b, p, elapsed, w)
    BY <1>7 DEF DelayPort
  <2>2. p \in EnabledPorts(b)
    BY <1>3, <1>7 DEF DelayPort, Visiting, IInv
  <2>. HIDE DEF b
  <2>. QED BY <1>2, <1>4, <2>1, <2>2, PortTickShows
<1>8. ASSUME StartTick PROVE Shown(b, bridge')
  <2>1. PICK w \in Outcomes(bridge) : bridge' = BridgeTick(b, elapsed, w)
    BY <1>8 DEF StartTick
  <2>. HIDE DEF b
  <2>. QED BY <1>2, <1>4, <2>1, BridgeTickShows
<1>9. ASSUME EndAging PROVE Shown(bridge, bridge')
  BY <1>2, <1>9 DEF EndAging
<1>. HIDE DEF b
<1>. QED BY <1>1, <1>2, <1>5, <1>6, <1>7, <1>8, <1>9, ShownTransitive

-----------------------------------------------------------------------------
(***************************************************************************)
(* One lemma for each thing the switch does.                               *)
(***************************************************************************)
LEMMA AddSinkKeeps ==
  ASSUME SwitchIInv, NEW s \in Sinks, NEW p \in Ports, AddSink(s, p)
  PROVE  SwitchIInv'
<1>1. /\ IInv' /\ p \notin PortsOf(bridge)
      /\ PortsOf(bridge') = PortsOf(bridge) \cup {p}
      /\ Added(bridge, p, bridge')
  BY AddPortShape DEF AddSink, SwitchIInv
<1>2. /\ s \notin Attached /\ s # Nowhere /\ frame' = NoFrame /\ table' = table
      /\ sinks' = [sinks EXCEPT ![p] = s]
      /\ known' = [known EXCEPT ![p] = "disabled"]
  BY DEF AddSink
<1>3. /\ sinks \in [Ports -> Sinks \cup {Nowhere}]
      /\ PortsOf(bridge) = {q \in Ports : sinks[q] # Nowhere}
      /\ \A q, r \in Ports : sinks[q] = sinks[r] /\ sinks[q] # Nowhere => q = r
      /\ known \in [Ports -> StpStates]
      /\ table \in [Macs -> Entries]
  BY DEF SwitchIInv, SwitchTypeOK
<1>4. \A q \in Ports : sinks[q] # s
  BY <1>2 DEF Attached
<1>5. SwitchTypeOK'
  <2>1. TypeOK'
    BY <1>1 DEF IInv, Sound, RootPortOK, TypeOK
  <2>2. sinks' \in [Ports -> Sinks \cup {Nowhere}]
    BY <1>2, <1>3
  <2>3. \A q, r \in Ports : sinks'[q] = sinks'[r] /\ sinks'[q] # Nowhere => q = r
    BY <1>2, <1>3, <1>4
  <2>4. PortsOf(bridge') = {q \in Ports : sinks'[q] # Nowhere}
    BY <1>1, <1>2, <1>3
  <2>5. known' \in [Ports -> StpStates]
    BY <1>2, <1>3 DEF StpStates
  <2>. QED BY <1>2, <1>3, <2>1, <2>2, <2>3, <2>4, <2>5 DEF SwitchTypeOK, Frames
<1>6. EntriesLive'
  <2>1. sinks[p] = Nowhere
    BY <1>1, <1>3
  <2>2. Attached \subseteq Attached'
    BY <1>2, <1>3, <2>1 DEF Attached
  <2>. QED BY <1>2, <2>2 DEF SwitchIInv, EntriesLive
<1>7. NoChangeMissed'
  BY <1>1, <1>2, <1>3 DEF SwitchIInv, NoChangeMissed, Added, PortShown
<1>8. \A q \in PortsOf(bridge') : bridge'.port[q].change_detection_enabled
  BY <1>1, <1>3 DEF SwitchIInv, Added, PortShown
<1>9. FlushOwed'
  <2>1. \A m \in Macs : table[m].sink # s
    BY <1>2 DEF SwitchIInv, EntriesLive
  <2>. SUFFICES ASSUME NEW q \in PortsOf(bridge'), NEW m \in Macs,
                       ~stp_learn_in_state(bridge'.port[q].state),
                       table'[m].sink = sinks'[q]
                PROVE  bridge'.fdb_needs_flush
    BY DEF FlushOwed
  <2>2. q # p
    BY <1>2, <1>3, <2>1
  <2>3. q \in PortsOf(bridge) /\ q \in Ports
    BY <2>2, <1>1, <1>3
  <2>4. sinks'[q] = sinks[q] /\ bridge'.port[q].state = bridge.port[q].state
    BY <1>1, <1>2, <1>3, <2>2, <2>3 DEF Added
  <2>. QED BY <1>1, <1>2, <2>3, <2>4 DEF SwitchIInv, FlushOwed, Added
<1>. QED BY <1>1, <1>5, <1>6, <1>7, <1>8, <1>9 DEF SwitchIInv

LEMMA RemoveSinkKeeps ==
  ASSUME SwitchIInv, NEW s \in Sinks, RemoveSink(s)
  PROVE  SwitchIInv'
<1>. DEFINE p == PortOf(s)
<1>1. /\ p \in PortsOf(bridge) /\ p \in Ports /\ sinks[p] = s /\ s # Nowhere
      /\ s \in Attached
  BY PortOfSink DEF RemoveSink, SwitchIInv, PortsOf
<1>2. /\ IInv' /\ PortsOf(bridge') = PortsOf(bridge) \ {p}
      /\ \A q \in Ports \ {p} : bridge'.port[q] = bridge.port[q]
      /\ bridge'.fdb_needs_flush = bridge.fdb_needs_flush
  BY <1>1, RemovePortShape DEF RemoveSink, SwitchIInv
<1>3. /\ sinks' = [sinks EXCEPT ![p] = Nowhere]
      /\ table' = ForgetSink(s)
      /\ frame' = NoFrame /\ known' = known
  BY DEF RemoveSink
<1>. HIDE DEF p
<1>4. /\ sinks \in [Ports -> Sinks \cup {Nowhere}]
      /\ PortsOf(bridge) = {q \in Ports : sinks[q] # Nowhere}
      /\ \A q, r \in Ports : sinks[q] = sinks[r] /\ sinks[q] # Nowhere => q = r
      /\ known \in [Ports -> StpStates]
      /\ table \in [Macs -> Entries]
  BY DEF SwitchIInv, SwitchTypeOK
<1>5. \A m \in Macs :
        table'[m] = IF table[m].sink = s THEN NoEntry ELSE table[m]
  BY <1>3 DEF ForgetSink
<1>6. NoEntry.sink = Nowhere /\ NoEntry \in Entries
  BY DEF NoEntry, Entries
<1>. HIDE DEF NoEntry
<1>7. SwitchTypeOK'
  <2>1. TypeOK'
    BY <1>2 DEF IInv, Sound, RootPortOK, TypeOK
  <2>2. table' \in [Macs -> Entries]
    BY <1>3, <1>4, <1>6 DEF ForgetSink
  <2>3. sinks' \in [Ports -> Sinks \cup {Nowhere}]
    BY <1>3, <1>4
  <2>4. \A q, r \in Ports : sinks'[q] = sinks'[r] /\ sinks'[q] # Nowhere => q = r
    BY <1>3, <1>4
  <2>5. PortsOf(bridge') = {q \in Ports : sinks'[q] # Nowhere}
    BY <1>2, <1>3, <1>4
  <2>. QED BY <1>3, <1>4, <2>1, <2>2, <2>3, <2>4, <2>5 DEF SwitchTypeOK, Frames
<1>8. Attached' = Attached \ {s}
  <2>1. \A q \in Ports : sinks'[q] = IF q = p THEN Nowhere ELSE sinks[q]
    BY <1>3, <1>4
  <2>2. \A q \in Ports : q # p => sinks[q] # s
    BY <1>1, <1>4
  <2>. QED BY <2>1, <2>2, <1>1 DEF Attached
<1>9. EntriesLive'
  BY <1>5, <1>6, <1>8 DEF SwitchIInv, EntriesLive
<1>10. NoChangeMissed'
  BY <1>2, <1>3, <1>4 DEF SwitchIInv, NoChangeMissed
<1>11. \A q \in PortsOf(bridge') : bridge'.port[q].change_detection_enabled
  BY <1>2, <1>4 DEF SwitchIInv
<1>12. FlushOwed'
  <2>. SUFFICES ASSUME NEW q \in PortsOf(bridge'), NEW m \in Macs,
                       ~stp_learn_in_state(bridge'.port[q].state),
                       table'[m].sink = sinks'[q]
                PROVE  bridge'.fdb_needs_flush
    BY DEF FlushOwed
  <2>1. q \in PortsOf(bridge) /\ q \in Ports \ {p}
    BY <1>2, <1>4
  <2>2. sinks'[q] = sinks[q] /\ sinks[q] # Nowhere
    BY <1>3, <1>4, <2>1
  <2>3. table[m].sink = sinks[q]
    BY <1>5, <1>6, <2>2
  <2>. QED BY <1>2, <2>1, <2>3 DEF SwitchIInv, FlushOwed
<1>. QED BY <1>2, <1>7, <1>9, <1>10, <1>11, <1>12 DEF SwitchIInv

LEMMA InputBpduKeeps ==
  ASSUME SwitchIInv, NEW s \in Sinks, InputBpdu(s)
  PROVE  SwitchIInv'
<1>1. PortOf(s) \in Ports
  BY PortOfSink DEF InputBpdu, SwitchIInv, PortsOf
<1>2. IInv' /\ Shown(bridge, bridge')
  BY <1>1, BridgeStepShown DEF InputBpdu, SwitchIInv
<1>3. /\ frame' \in Frames /\ table' = table /\ sinks' = sinks /\ known' = known
      /\ table' \in [Macs -> Entries]
  BY DEF InputBpdu, Frames, SwitchIInv, SwitchTypeOK
<1>. QED BY <1>2, <1>3, ShownKeepsSwitchIInv

LEMMA InputDataKeeps ==
  ASSUME SwitchIInv, NEW s \in Sinks, InputData(s)
  PROVE  SwitchIInv'
<1>1. /\ s \in Attached /\ phase = "idle"
      /\ phase' = phase /\ todo' = todo /\ elapsed' = elapsed
      /\ bridge' = Quiet(bridge) /\ sinks' = sinks /\ known' = known
  BY DEF InputData, Operation
<1>2. IInv'
  BY <1>1, QuietSound DEF SwitchIInv, IInv
<1>3. Shown(bridge, bridge')
  BY <1>1, QuietShows DEF SwitchIInv, IInv, Sound
<1>4. PICK src \in Macs \cup {Group}, dst \in Macs \cup {Group} :
        /\ table' = InsertMac(s, src)
        /\ frame' = [from |-> s, dst |-> dst, to |-> Outputs(s, dst, table')]
  BY DEF InputData
<1>5. Attached \subseteq Sinks /\ Open \subseteq Sinks
  BY PortOfSink DEF Open, SwitchIInv
<1>6. frame' \in Frames
  <2>1. Outputs(s, dst, table') \subseteq Sinks
    BY <1>5 DEF Outputs
  <2>. QED BY <1>4, <2>1 DEF Frames
<1>7. table' \in [Macs -> Entries]
  <2>1. [sink |-> s, age |-> 0] \in Entries
    BY DEF Entries
  <2>2. table \in [Macs -> Entries]
    BY DEF SwitchIInv, SwitchTypeOK
  <2>. QED BY <1>4, <2>1, <2>2 DEF InsertMac
<1>8. ASSUME NEW m \in Macs
      PROVE  table'[m].sink = table[m].sink \/ Learning(table'[m].sink)
  <2>1. CASE src \in Macs /\ stp_learn_in_state(StateOf(s)) /\ m = src
    <3>1. table'[m].sink = s
      BY <1>4, <2>1 DEF InsertMac, SwitchIInv, SwitchTypeOK
    <3>2. PortOf(s) \in PortsOf(bridge) /\ sinks[PortOf(s)] = s
      BY <1>1, PortOfSink DEF SwitchIInv
    <3>3. bridge'.port = bridge.port
      BY <1>1 DEF Quiet, SwitchIInv, IInv, Sound, Bridges
    <3>. QED BY <2>1, <3>1, <3>2, <3>3 DEF Learning, StateOf
  <2>2. CASE ~(src \in Macs /\ stp_learn_in_state(StateOf(s)) /\ m = src)
    BY <1>4, <2>2 DEF InsertMac, SwitchIInv, SwitchTypeOK
  <2>. QED BY <2>1, <2>2
<1>. QED BY <1>1, <1>2, <1>3, <1>6, <1>7, <1>8, ShownKeepsSwitchIInv

(***************************************************************************)
(* What is left of the table when some of it has timed out.                *)
(***************************************************************************)
LEMMA AgedTablesShape ==
  ASSUME SwitchIInv, NEW aged \in AgedTables
  PROVE  /\ aged \in [Macs -> Entries]
         /\ \A m \in Macs : aged[m].sink \in {Nowhere, table[m].sink}
<1>1. Attached \subseteq Sinks
  BY PortOfSink DEF SwitchIInv
<1>2. aged \in [Macs -> {NoEntry} \cup [sink: Attached, age: 1..(MacTicks - 1)]]
  BY DEF AgedTables
<1>3. aged \in [Macs -> Entries]
  BY <1>1, <1>2 DEF Entries
<1>4. ASSUME NEW m \in Macs
      PROVE  aged[m].sink \in {Nowhere, table[m].sink}
  <2>1. MayBecome(table[m], aged[m]) /\ table[m] \in Entries
    BY DEF AgedTables, SwitchIInv, SwitchTypeOK
  <2>2. [table[m] EXCEPT !.age = @ + 1].sink = table[m].sink
    BY <2>1 DEF Entries, NoEntry
  <2>3. NoEntry.sink = Nowhere
    BY DEF NoEntry
  <2>. QED BY <2>1, <2>2, <2>3 DEF MayBecome
<1>. QED BY <1>3, <1>4

LEMMA BeginOnTimerKeeps ==
  ASSUME SwitchIInv, BeginOnTimer
  PROVE  SwitchIInv'
<1>1. IInv' /\ Shown(bridge, bridge')
  BY BridgeStepShown DEF BeginOnTimer, SwitchIInv
<1>2. /\ frame' \in Frames /\ sinks' = sinks /\ known' = known
      /\ table' \in AgedTables
  BY DEF BeginOnTimer, Frames
<1>. QED BY <1>1, <1>2, AgedTablesShape, ShownKeepsSwitchIInv

LEMMA WithinTickKeeps ==
  ASSUME SwitchIInv, WithinTick
  PROVE  SwitchIInv'
<1>1. IInv' /\ Shown(bridge, bridge')
  BY BridgeStepShown DEF WithinTick, SwitchIInv
<1>2. /\ frame' \in Frames /\ table' = table /\ sinks' = sinks /\ known' = known
      /\ table' \in [Macs -> Entries]
  BY DEF WithinTick, Frames, SwitchIInv, SwitchTypeOK
<1>. QED BY <1>1, <1>2, ShownKeepsSwitchIInv

LEMMA EndOnTimerKeeps ==
  ASSUME SwitchIInv, EndOnTimer
  PROVE  SwitchIInv'
<1>1. IInv' /\ bridge' = Reported(Quiet(bridge))
  BY StepIInv DEF EndOnTimer, Report, Next, Tick, SwitchIInv
<1>2. /\ bridge \in Bridges
      /\ \A p \in Ports : bridge.port[p] \in PortRecords
  BY DEF SwitchIInv, IInv, Sound, Bridges
<1>3. ASSUME NEW p \in Ports
      PROVE  /\ bridge'.port[p].state = bridge.port[p].state
             /\ bridge'.port[p].change_detection_enabled
                  = bridge.port[p].change_detection_enabled
  <2>1. Quiet(bridge).port = bridge.port /\ Quiet(bridge) \in Bridges
    BY <1>2, QuietKeeps DEF Quiet, Bridges
  <2>. HIDE DEF Quiet
  <2>2. bridge'.port[p] = [bridge.port[p] EXCEPT !.state_changed = FALSE]
    BY <1>1, <2>1 DEF Reported, Bridges
  <2>3. bridge.port[p] \in PortRecords
    BY <1>2
  <2>. QED BY <2>2, <2>3 DEF PortRecords
<1>4. PortsOf(bridge') = PortsOf(bridge) /\ PortsOf(bridge) \subseteq Ports
  BY <1>3 DEF PortsOf
<1>5. /\ sinks' = sinks /\ frame' \in Frames
      /\ known' = [p \in Ports |-> IF p \in ChangedPorts(bridge)
                                   THEN bridge.port[p].state ELSE known[p]]
  BY DEF EndOnTimer, Frames
<1>6. PICK aged :
        /\ table' = Survivors(aged) /\ aged \in [Macs -> Entries]
        /\ \A m \in Macs : aged[m].sink \in {Nowhere, table[m].sink}
  BY AgedTablesShape DEF EndOnTimer, SwitchIInv, SwitchTypeOK
<1>7. /\ table' \in [Macs -> Entries]
      /\ \A m \in Macs : table'[m].sink \in {Nowhere, table[m].sink}
      /\ bridge.fdb_needs_flush => \A m \in Macs : table'[m].sink = Nowhere
  <2>1. NoEntry \in Entries /\ NoEntry.sink = Nowhere
    BY DEF NoEntry, Entries
  <2>. HIDE DEF NoEntry
  <2>. QED BY <1>6, <2>1 DEF Survivors, FlushDue
<1>8. SwitchTypeOK'
  <2>1. TypeOK'
    BY <1>1 DEF IInv, Sound, RootPortOK, TypeOK
  <2>2. known' \in [Ports -> StpStates]
    <3>1. \A p \in Ports : bridge.port[p].state \in StpStates \cup {"absent"}
      BY <1>2 DEF PortRecords, StpStates
    <3>2. \A p \in PortsOf(bridge) : bridge.port[p].state \in StpStates
      BY <3>1 DEF PortsOf
    <3>. QED BY <1>5, <3>2 DEF ChangedPorts, SwitchIInv, SwitchTypeOK
  <2>. QED BY <1>4, <1>5, <1>7, <2>1, <2>2 DEF SwitchIInv, SwitchTypeOK
<1>9. EntriesLive'
  BY <1>5, <1>7 DEF SwitchIInv, EntriesLive, Attached
<1>10. NoChangeMissed'
  <2>1. \A p \in PortsOf(bridge) : known'[p] = bridge.port[p].state
    BY <1>4, <1>5 DEF SwitchIInv, NoChangeMissed, ChangedPorts
  <2>. QED BY <1>3, <1>4, <2>1 DEF NoChangeMissed
<1>11. \A p \in PortsOf(bridge') : bridge'.port[p].change_detection_enabled
  BY <1>3, <1>4 DEF SwitchIInv
<1>12. FlushOwed'
  <2>. SUFFICES ASSUME NEW p \in PortsOf(bridge), NEW m \in Macs,
                       ~stp_learn_in_state(bridge'.port[p].state),
                       table'[m].sink = sinks[p]
                PROVE  FALSE
    BY <1>4, <1>5 DEF FlushOwed
  <2>1. sinks[p] # Nowhere /\ p \in Ports
    BY PortOfSink, <1>4 DEF SwitchIInv
  <2>2. table[m].sink = sinks[p] /\ ~bridge.fdb_needs_flush
    BY <1>7, <2>1
  <2>. QED BY <1>3, <2>1, <2>2 DEF SwitchIInv, FlushOwed
<1>. QED BY <1>1, <1>8, <1>9, <1>10, <1>11, <1>12 DEF SwitchIInv

LEMMA SwitchStutterKeeps ==
  ASSUME SwitchIInv, UNCHANGED switchVars
  PROVE  SwitchIInv'
  BY DEF SwitchIInv, switchVars, vars, IInv, SwitchTypeOK, TypeOK, EntriesLive, Attached, NoChangeMissed, FlushOwed

(***************************************************************************)
(* Every step keeps the invariant.                                         *)
(***************************************************************************)
LEMMA StepSwitchIInv == SwitchIInv /\ [SwitchNext]_switchVars => SwitchIInv'
  BY AddSinkKeeps, RemoveSinkKeeps, InputBpduKeeps, InputDataKeeps,
     BeginOnTimerKeeps, WithinTickKeeps, EndOnTimerKeeps, SwitchStutterKeeps
     DEF SwitchNext, OnTimer

LEMMA SwitchInvariance == SwitchSpec => []SwitchIInv
  BY InitSwitchIInv, StepSwitchIInv, PTL DEF SwitchSpec

-----------------------------------------------------------------------------
(***************************************************************************)
(* Types hold; a sink has one port, and the bridge has no port without a   *)
(* sink: CVSwitchImp and CVSwitchSTP never disagree on who is connected.   *)
(***************************************************************************)
THEOREM SwitchTypesHold == SwitchSpec => []SwitchTypeOK
<1>1. SwitchIInv => SwitchTypeOK
  BY DEF SwitchIInv
<1>. QED BY <1>1, SwitchInvariance, PTL

(***************************************************************************)
(* RemoveSink leaves no entry that holds the pointer of the sink that it   *)
(* took away, and nothing brings one back.                                 *)
(***************************************************************************)
THEOREM EntriesAlwaysLive == SwitchSpec => []EntriesLive
<1>1. SwitchIInv => EntriesLive
  BY DEF SwitchIInv
<1>. QED BY <1>1, SwitchInvariance, PTL

(***************************************************************************)
(* Whatever happens between two runs of OnTimer, the second sees every     *)
(* port whose state is not the one that was reported last.                 *)
(***************************************************************************)
THEOREM ChangesAlwaysSeen == SwitchSpec => []NoChangeMissed
<1>1. SwitchIInv => NoChangeMissed
  BY DEF SwitchIInv
<1>. QED BY <1>1, SwitchInvariance, PTL

(***************************************************************************)
(* As long as an address is known behind a port that left the tree, the    *)
(* OnTimer to come empties the table.                                      *)
(***************************************************************************)
THEOREM StaleEntriesGo == SwitchSpec => []StaleEntriesFlushed
<1>1. SwitchIInv => StaleEntriesFlushed
  BY PortOfSink DEF SwitchIInv, FlushOwed, StaleEntriesFlushed, StateOf, FlushDue
<1>. QED BY <1>1, SwitchInvariance, PTL

-----------------------------------------------------------------------------
(***************************************************************************)
(* The sinks that are in the tree are those of the ports that forward.     *)
(***************************************************************************)
Forwarding(f, b) ==
  {f[p] : p \in {q \in PortsOf(b) : stp_forward_in_state(b.port[q].state)}}

LEMMA OpenIsForwarding ==
  ASSUME NEW f, NEW b,
         PortsOf(b) = {p \in Ports : f[p] # Nowhere},
         \A p, q \in Ports : f[p] = f[q] /\ f[p] # Nowhere => p = q
  PROVE  {s \in {f[p] : p \in Ports} \ {Nowhere} :
            stp_forward_in_state(b.port[CHOOSE p \in Ports : f[p] = s].state)}
           = Forwarding(f, b)
<1>. DEFINE at(s) == CHOOSE p \in Ports : f[p] = s
<1>1. ASSUME NEW q \in Ports, f[q] # Nowhere PROVE at(f[q]) = q
  <2>1. at(f[q]) \in Ports /\ f[at(f[q])] = f[q]
    OBVIOUS
  <2>. QED BY <1>1, <2>1
<1>. HIDE DEF at
<1>2. {s \in {f[p] : p \in Ports} \ {Nowhere} :
         stp_forward_in_state(b.port[at(s)].state)} = Forwarding(f, b)
  BY <1>1 DEF Forwarding
<1>. QED BY <1>2 DEF at

LEMMA OpenNow ==
  ASSUME SwitchTypeOK
  PROVE  Open = Forwarding(sinks, bridge)
  BY OpenIsForwarding DEF SwitchTypeOK, Open, Attached, StateOf, PortOf

LEMMA OpenNext ==
  ASSUME SwitchTypeOK'
  PROVE  Open' = Forwarding(sinks', bridge')
  BY OpenIsForwarding DEF SwitchTypeOK, Open, Attached, StateOf, PortOf

Places == [m \in Macs |-> table[m].sink]

LEMMA InitPromise == SwitchInit => Promise!Init
<1>. SUFFICES ASSUME SwitchInit PROVE Promise!Init
  OBVIOUS
<1>1. Attached = {} /\ Open = {}
  BY DEF SwitchInit, Attached, Open
<1>2. frame = NoFrame /\ \A m \in Macs : table[m].sink = Nowhere
  BY DEF SwitchInit, NoEntry
<1>. QED BY <1>1, <1>2 DEF Promise!Init

LEMMA AddSinkAttaches ==
  ASSUME SwitchIInv, SwitchIInv', NEW s \in Sinks, NEW p \in Ports, AddSink(s, p)
  PROVE  Promise!Attach(s)
<1>1. /\ p \notin PortsOf(bridge)
      /\ PortsOf(bridge') = PortsOf(bridge) \cup {p}
      /\ Added(bridge, p, bridge')
  BY AddPortShape DEF AddSink, SwitchIInv
<1>2. /\ s \notin Attached /\ s # Nowhere /\ frame' = NoFrame /\ table' = table
      /\ \A q \in Ports : sinks'[q] = IF q = p THEN s ELSE sinks[q]
      /\ sinks[p] = Nowhere /\ PortsOf(bridge) \subseteq Ports
  BY <1>1 DEF AddSink, SwitchIInv, SwitchTypeOK
<1>3. Attached' = Attached \cup {s}
  BY <1>2 DEF Attached
<1>4. Forwarding(sinks', bridge') = Forwarding(sinks, bridge)
  <2>1. ~stp_forward_in_state(bridge'.port[p].state)
    BY <1>1 DEF Added, stp_forward_in_state
  <2>2. \A q \in PortsOf(bridge) :
          /\ bridge'.port[q].state = bridge.port[q].state
          /\ sinks'[q] = sinks[q]
    BY <1>1, <1>2 DEF Added
  <2>. QED BY <1>1, <2>1, <2>2 DEF Forwarding
<1>5. Open' = Open
  BY <1>4, OpenNow, OpenNext DEF SwitchIInv
<1>. QED BY <1>2, <1>3, <1>5 DEF Promise!Attach

LEMMA RemoveSinkDetaches ==
  ASSUME SwitchIInv, SwitchIInv', NEW s \in Sinks, RemoveSink(s)
  PROVE  Promise!Detach(s)
<1>. DEFINE p == PortOf(s)
<1>1. /\ p \in PortsOf(bridge) /\ p \in Ports /\ sinks[p] = s /\ s # Nowhere
      /\ s \in Attached
  BY PortOfSink DEF RemoveSink, SwitchIInv, PortsOf
<1>2. /\ PortsOf(bridge') = PortsOf(bridge) \ {p}
      /\ \A q \in Ports \ {p} : bridge'.port[q] = bridge.port[q]
  BY <1>1, RemovePortShape DEF RemoveSink, SwitchIInv
<1>3. /\ \A q \in Ports : sinks'[q] = IF q = p THEN Nowhere ELSE sinks[q]
      /\ table' = ForgetSink(s) /\ frame' = NoFrame
      /\ \A q \in Ports : q # p => sinks[q] # s
      /\ PortsOf(bridge) \subseteq Ports
  BY <1>1 DEF RemoveSink, SwitchIInv, SwitchTypeOK
<1>. HIDE DEF p
<1>4. Attached' = Attached \ {s}
  BY <1>1, <1>3 DEF Attached
<1>5. Forwarding(sinks', bridge') = Forwarding(sinks, bridge) \ {s}
  BY <1>1, <1>2, <1>3 DEF Forwarding
<1>6. Open' = Open \ {s}
  BY <1>5, OpenNow, OpenNext DEF SwitchIInv
<1>7. \A m \in Macs :
        table'[m].sink = IF table[m].sink = s THEN Nowhere ELSE table[m].sink
  BY <1>3 DEF ForgetSink, NoEntry
<1>. QED BY <1>1, <1>3, <1>4, <1>6, <1>7 DEF Promise!Detach

(***************************************************************************)
(* A step that keeps the sinks and at most forgets addresses.              *)
(***************************************************************************)
LEMMA ForgettingChanges ==
  ASSUME SwitchIInv, SwitchIInv', sinks' = sinks, frame' = NoFrame,
         \A m \in Macs : table'[m].sink \in {Nowhere, table[m].sink}
  PROVE  Promise!Change
<1>1. Attached' = Attached
  BY DEF Attached
<1>2. Open' \subseteq Attached'
  BY DEF Open
<1>. QED BY <1>1, <1>2 DEF Promise!Change, Promise!Forgetting

LEMMA OnTimerChanges ==
  ASSUME SwitchIInv, SwitchIInv', OnTimer
  PROVE  Promise!Change
<1>1. sinks' = sinks /\ frame' = NoFrame
  BY DEF OnTimer, BeginOnTimer, WithinTick, EndOnTimer
<1>2. CASE BeginOnTimer
  BY <1>1, <1>2, AgedTablesShape, ForgettingChanges DEF BeginOnTimer
<1>3. CASE WithinTick
  BY <1>1, <1>3, ForgettingChanges DEF WithinTick
<1>4. CASE EndOnTimer
  <2>1. PICK aged :
          /\ table' = Survivors(aged)
          /\ \A m \in Macs : aged[m].sink \in {Nowhere, table[m].sink}
    BY <1>4, AgedTablesShape DEF EndOnTimer
  <2>2. \A m \in Macs : table'[m].sink \in {Nowhere, table[m].sink}
    BY <2>1 DEF Survivors, NoEntry
  <2>. QED BY <1>1, <2>2, ForgettingChanges
<1>. QED BY <1>2, <1>3, <1>4 DEF OnTimer

LEMMA InputDataRelaysOrDrops ==
  ASSUME SwitchIInv, SwitchIInv', NEW s \in Sinks, InputData(s)
  PROVE  \E src, dst \in Macs \cup {Group} :
           Promise!Relay(s, src, dst) \/ Promise!Drop(s, src, dst)
<1>1. /\ s \in Attached /\ sinks' = sinks /\ bridge' = Quiet(bridge)
  BY DEF InputData
<1>2. PICK src \in Macs \cup {Group}, dst \in Macs \cup {Group} :
        /\ table' = InsertMac(s, src)
        /\ frame' = [from |-> s, dst |-> dst, to |-> Outputs(s, dst, table')]
  BY DEF InputData
<1>3. Attached' = Attached
  BY <1>1 DEF Attached
<1>4. Open' = Open
  <2>1. bridge'.port = bridge.port
    BY <1>1 DEF Quiet, SwitchIInv, IInv, Sound, Bridges
  <2>2. Forwarding(sinks', bridge') = Forwarding(sinks, bridge)
    BY <1>1, <2>1 DEF Forwarding, PortsOf
  <2>. QED BY <2>2, OpenNow, OpenNext DEF SwitchIInv
<1>5. s \in Open <=> stp_forward_in_state(StateOf(s))
  BY <1>1 DEF Open
<1>6. stp_forward_in_state(StateOf(s)) => stp_learn_in_state(StateOf(s))
  BY DEF stp_forward_in_state, stp_learn_in_state
<1>7. table \in [Macs -> Entries] /\ table' \in [Macs -> Entries]
  BY DEF SwitchIInv, SwitchTypeOK
<1>8. \A m \in Macs : table'[m] = NoEntry <=> table'[m].sink = Nowhere
  BY <1>7, EntryShape
<1>9. /\ src \in Macs /\ stp_learn_in_state(StateOf(s)) =>
           Places' = [Places EXCEPT ![src] = s]
      /\ ~(src \in Macs /\ stp_learn_in_state(StateOf(s))) => Places' = Places
  <2>1. [sink |-> s, age |-> 0].sink = s
    OBVIOUS
  <2>. QED BY <1>2, <1>7, <2>1 DEF InsertMac, Places
<1>10. CASE stp_forward_in_state(StateOf(s))
  <2>1. Places' = Promise!Learnt(s, src)
    BY <1>6, <1>9, <1>10 DEF Promise!Learnt, Places
  <2>2. Outputs(s, dst, table')
          = IF dst \in Macs /\ Places'[dst] # Nowhere
            THEN (Open \cap {Places'[dst]}) \ {s} ELSE Open \ {s}
    BY <1>8, <1>10 DEF Outputs, Places
  <2>3. Promise!Relay(s, src, dst)
    BY <1>2, <1>3, <1>4, <1>5, <1>10, <2>1, <2>2
       DEF Promise!Relay, Promise!Targets, Places
  <2>. QED BY <2>3
<1>11. CASE ~stp_forward_in_state(StateOf(s))
  <2>1. Places' \in {Places, Promise!Learnt(s, src)}
    BY <1>9 DEF Promise!Learnt, Places
  <2>2. Outputs(s, dst, table') = {}
    BY <1>11 DEF Outputs
  <2>3. Promise!Drop(s, src, dst)
    BY <1>1, <1>2, <1>3, <1>4, <1>5, <1>11, <2>1, <2>2 DEF Promise!Drop, Places
  <2>. QED BY <2>3
<1>. QED BY <1>10, <1>11

LEMMA StepPromise ==
  SwitchIInv /\ SwitchIInv' /\ [SwitchNext]_switchVars => [Promise!Next]_(Promise!vars)
<1>. SUFFICES ASSUME SwitchIInv, SwitchIInv', [SwitchNext]_switchVars
              PROVE  [Promise!Next]_(Promise!vars)
  OBVIOUS
<1>1. ASSUME NEW s \in Sinks, NEW p \in Ports, AddSink(s, p) PROVE Promise!Next
  BY <1>1, AddSinkAttaches DEF Promise!Next
<1>2. ASSUME NEW s \in Sinks, RemoveSink(s) PROVE Promise!Next
  BY <1>2, RemoveSinkDetaches DEF Promise!Next
<1>3. ASSUME NEW s \in Sinks, InputBpdu(s) PROVE Promise!Next
  <2>1. Promise!Change
    BY <1>3, ForgettingChanges DEF InputBpdu
  <2>. QED BY <2>1 DEF Promise!Next
<1>4. ASSUME NEW s \in Sinks, InputData(s) PROVE Promise!Next
  BY <1>4, InputDataRelaysOrDrops DEF Promise!Next
<1>5. ASSUME OnTimer PROVE Promise!Next
  BY <1>5, OnTimerChanges DEF Promise!Next
<1>6. ASSUME UNCHANGED switchVars PROVE UNCHANGED Promise!vars
  BY <1>6 DEF switchVars, vars, Promise!vars, Open, Attached, StateOf, PortOf
<1>. QED BY <1>1, <1>2, <1>3, <1>4, <1>5, <1>6 DEF SwitchNext

(***************************************************************************)
(* The switch with its ports, its spanning tree and its timers keeps the   *)
(* promise of LearningSwitch, for any sinks, addresses and times.          *)
(***************************************************************************)
THEOREM SwitchKeepsPromise == SwitchSpec => ImplementsLearningSwitch
  BY InitPromise, StepPromise, SwitchInvariance, PTL
     DEF SwitchSpec, ImplementsLearningSwitch, Promise!Spec
=============================================================================
