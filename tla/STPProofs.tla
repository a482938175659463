----------------------------- MODULE STPProofs -----------------------------
(***************************************************************************)
(* What each procedure of STP does to the standing of a bridge, for every  *)
(* value of its constants: the operations of a sound bridge leave it sound;*)
(* and what a bridge says: the BPDUs each procedure sends and owes, and the*)
(* news of topology changes it passes on.                                  *)
(***************************************************************************)
EXTENDS STP, WellFoundedInduction, TLAPS

(***************************************************************************)
(* The fields that say what a bridge and its ports stand for: everything   *)
(* but the flags, the hold timers, the timers and times of the bridge and  *)
(* the BPDUs sent.                                                         *)
(***************************************************************************)
SamePort(x, y) ==
  /\ y.state = x.state
  /\ y.path_cost = x.path_cost
  /\ y.info = x.info
  /\ y.message_age_timer = x.message_age_timer
  /\ y.forward_delay_timer = x.forward_delay_timer

SameStanding(b, t) ==
  /\ t.bridge_id = b.bridge_id
  /\ t.designated_root = b.designated_root
  /\ t.root_path_cost = b.root_path_cost
  /\ t.root_port = b.root_port
  /\ \A p \in Ports : SamePort(b.port[p], t.port[p])

(***************************************************************************)
(* Both know of the same changes, and run the same timers for the bridge.  *)
(***************************************************************************)
SameNews(b, t) ==
  /\ t.hello_timer = b.hello_timer
  /\ t.tcn_timer = b.tcn_timer
  /\ t.topology_change_timer = b.topology_change_timer
  /\ t.topology_change_detected = b.topology_change_detected
  /\ t.topology_change = b.topology_change

(***************************************************************************)
(* What every operation keeps of a bridge.                                 *)
(***************************************************************************)
RootPortOK(b) == b.root_port \in {NoPort, StalePort} \cup PortsOf(b)

Sound(b) ==
  /\ b \in Bridges
  /\ RootPortOK(b)
  /\ RootAgrees(b)
  /\ PortsAgree(b)
  /\ RolesAgree(b)
  /\ HeardInfoIsTimed(b)
  /\ ProgressIsTimed(b)

USE PortsAssumption, HoldTimeAssumption, AgeIncrementAssumption

(***************************************************************************)
(* What timers hold.                                                       *)
(***************************************************************************)
LEMMA TimersHold ==
  /\ Off \in Timers /\ ~Running(Off)
  /\ \A n \in Int : n \in Timers /\ Running(n)
  /\ \A timer \in Timers : Running(timer) => timer \in Int
  BY OffAssumption DEF Timers, Running

(***************************************************************************)
(* Soundness is about the standing of the bridge only.                     *)
(***************************************************************************)
LEMMA SameSets ==
  ASSUME NEW b, NEW t, SameStanding(b, t)
  PROVE  /\ PortsOf(t) = PortsOf(b)
         /\ EnabledPorts(t) = EnabledPorts(b)
         /\ \A p \in Ports : IsDesignatedPort(t, p) <=> IsDesignatedPort(b, p)
  BY DEF SameStanding, SamePort, PortsOf, EnabledPorts, IsDesignatedPort

(***************************************************************************)
(* A bridge in the same standing as a sound one is sound.                  *)
(***************************************************************************)
LEMMA SameStandingSound ==
  ASSUME NEW b, NEW t \in Bridges, SameStanding(b, t), Sound(b)
  PROVE  Sound(t)
<1>1. /\ PortsOf(t) = PortsOf(b)
      /\ EnabledPorts(t) = EnabledPorts(b)
      /\ \A p \in Ports : IsDesignatedPort(t, p) <=> IsDesignatedPort(b, p)
  BY SameSets
<1>2. RootPortOK(t)
  BY <1>1 DEF Sound, RootPortOK, SameStanding
<1>3. RootAgrees(t)
  BY <1>1 DEF Sound, RootAgrees, RootPortOK, Orphan, SameStanding, SamePort, PortsOf, NoPort, StalePort
<1>4. PortsAgree(t)
  BY <1>1 DEF Sound, PortsAgree, SameStanding, SamePort, OwnInfo, EnabledPorts, PortsOf
<1>5. RolesAgree(t)
  BY <1>1 DEF Sound, RolesAgree, SameStanding, SamePort, EnabledPorts, PortsOf
<1>6. HeardInfoIsTimed(t) /\ ProgressIsTimed(t)
  BY <1>1 DEF Sound, HeardInfoIsTimed, ProgressIsTimed, SameStanding, SamePort, EnabledPorts, PortsOf
<1>. QED BY <1>2, <1>3, <1>4, <1>5, <1>6 DEF Sound

(***************************************************************************)
(* Standing in the same way is transitive.                                 *)
(***************************************************************************)
LEMMA SameStandingTransitive ==
  ASSUME NEW b, NEW t, NEW u, SameStanding(b, t), SameStanding(t, u)
  PROVE  SameStanding(b, u)
  BY DEF SameStanding, SamePort

-----------------------------------------------------------------------------
(***************************************************************************)
(* Sending changes the standing of nothing.                                *)
(***************************************************************************)
LEMMA SendTcnKeeps ==
  ASSUME NEW b \in Bridges, NEW p
  PROVE  /\ SendBPDU(b, p, Tcn(p)) \in Bridges
         /\ SameStanding(b, SendBPDU(b, p, Tcn(p)))
         /\ SendBPDU(b, p, Tcn(p)).port = b.port
<1>1. CASE p \in PortsOf(b) /\ ~stp_blocking_in_state(b.port[p].state)
  <2>1. Tcn(p) \in SentBpdus
    BY <1>1 DEF PortsOf, Tcn, SentBpdus
  <2>. QED BY <1>1, <2>1 DEF SendBPDU, Bridges, SameStanding, SamePort
<1>2. CASE ~(p \in PortsOf(b) /\ ~stp_blocking_in_state(b.port[p].state))
  BY <1>2 DEF SendBPDU, SameStanding, SamePort
<1>. QED BY <1>1, <1>2

(***************************************************************************)
(* TransmitTcn only adds to what is sent.                                  *)
(***************************************************************************)
LEMMA TransmitTcnKeeps ==
  ASSUME NEW b \in Bridges, NEW w
  PROVE  /\ TransmitTcn(b, w) \in Bridges
         /\ SameStanding(b, TransmitTcn(b, w))
         /\ TransmitTcn(b, w).port = b.port
  BY SendTcnKeeps DEF TransmitTcn

(***************************************************************************)
(* The age a config BPDU carries is a natural number.                      *)
(***************************************************************************)
LEMMA MessageAgeType ==
  ASSUME NEW b \in Bridges, NEW w \in Whims
  PROVE  MessageAge(b, w) \in Nat
<1>1. w.age \in Nat
  BY DEF Whims
<1>2. CASE ~IsRootBridge(b) /\ b.root_port \in Ports
             /\ Running(b.port[b.root_port].message_age_timer)
  <2>. DEFINE timer == b.port[b.root_port].message_age_timer
  <2>1. b.port[b.root_port] \in PortRecords
    BY <1>2 DEF Bridges
  <2>2. timer \in Timers
    BY <2>1 DEF PortRecords
  <2>3. timer \in Int
    BY <2>2, <1>2, TimersHold
  <2>4. MessageAge(b, w) = (timer + AgeIncrement) % AgeModulus
    BY <1>2 DEF MessageAge
  <2>. HIDE DEF timer
  <2>. QED BY <2>3, <2>4 DEF AgeModulus
<1>3. CASE ~(~IsRootBridge(b) /\ b.root_port \in Ports
               /\ Running(b.port[b.root_port].message_age_timer))
  <2>1. MessageAge(b, w) = 0 \/ MessageAge(b, w) = (w.age + AgeIncrement) % AgeModulus
    BY <1>3 DEF MessageAge
  <2>. QED BY <2>1, <1>1 DEF AgeModulus
<1>. QED BY <1>2, <1>3

(***************************************************************************)
(* A config BPDU of a port has the type of what is sent.                   *)
(***************************************************************************)
LEMMA ConfigBpduType ==
  ASSUME NEW b \in Bridges, NEW w \in Whims, NEW p \in Ports
  PROVE  ConfigBpdu(b, p, w) \in SentBpdus
<1>1. MessageAge(b, w) \in Nat
  BY MessageAgeType
<1>2. b.port[p] \in PortRecords
  BY DEF Bridges
<1>. QED BY <1>1, <1>2 DEF ConfigBpdu, SentBpdus, Bridges, PortRecords

(***************************************************************************)
(* TransmitConfigs keeps roles, states and the timers of roles and states. *)
(***************************************************************************)
LEMMA TransmitConfigsKeeps ==
  ASSUME NEW b \in Bridges, NEW w \in Whims, NEW P \in SUBSET Ports
  PROVE  /\ TransmitConfigs(b, P, w) \in Bridges
         /\ SameStanding(b, TransmitConfigs(b, P, w))
<1>. DEFINE held == {p \in P : Running(b.port[p].hold_timer)}
            sending == {p \in P \ held : MessageAge(b, w) < b.times.max_age}
            port == [p \in Ports |->
                 IF p \in held
                 THEN [b.port[p] EXCEPT !.config_pending = TRUE]
                 ELSE IF p \in sending
                 THEN [b.port[p] EXCEPT !.topology_change_ack = FALSE,
                                        !.config_pending = FALSE,
                                        !.hold_timer = 0]
                 ELSE b.port[p]]
            new == {ConfigBpdu(b, p, w) : p \in
                 {q \in sending : ~stp_blocking_in_state(b.port[q].state)}}
            t == [b EXCEPT !.port = port, !.out = @ \cup new]
<1>1. CASE ~IsRootBridge(b) /\ b.root_port = NoPort
  BY <1>1 DEF TransmitConfigs, SameStanding, SamePort
<1>2. CASE ~(~IsRootBridge(b) /\ b.root_port = NoPort)
  <2>1. TransmitConfigs(b, P, w) = t
    BY <1>2 DEF TransmitConfigs
  <2>2. port \in [Ports -> PortRecords]
    <3>1. ASSUME NEW x \in PortRecords
          PROVE  /\ [x EXCEPT !.config_pending = TRUE] \in PortRecords
                 /\ [x EXCEPT !.topology_change_ack = FALSE,
                              !.config_pending = FALSE,
                              !.hold_timer = 0] \in PortRecords
      <4>1. 0 \in Timers
        BY TimersHold
      <4>. QED BY <4>1 DEF PortRecords
    <3>2. \A p \in Ports : b.port[p] \in PortRecords
      BY DEF Bridges
    <3>. QED BY <3>1, <3>2
  <2>3. new \in SUBSET SentBpdus
    BY ConfigBpduType
  <2>4. t \in Bridges
    <3>. HIDE DEF port, new
    <3>. QED BY <2>2, <2>3 DEF Bridges
  <2>5. \A p \in Ports : SamePort(b.port[p], port[p])
    BY DEF SamePort, Bridges, PortRecords
  <2>6. SameStanding(b, t)
    <3>. HIDE DEF port, new
    <3>. QED BY <2>5 DEF SameStanding, Bridges
  <2>. QED BY <2>1, <2>4, <2>6
<1>. QED BY <1>1, <1>2

(***************************************************************************)
(* So does ConfigBpduGeneration.                                           *)
(***************************************************************************)
LEMMA ConfigBpduGenerationKeeps ==
  ASSUME NEW b \in Bridges, NEW w \in Whims
  PROVE  /\ ConfigBpduGeneration(b, w) \in Bridges
         /\ SameStanding(b, ConfigBpduGeneration(b, w))
  BY TransmitConfigsKeeps DEF ConfigBpduGeneration, EnabledPorts, PortsOf

(***************************************************************************)
(* TopologyChangeDetection changes flags and timers of the bridge only.    *)
(***************************************************************************)
LEMMA TopologyChangeDetectionKeeps ==
  ASSUME NEW b \in Bridges, NEW w
  PROVE  /\ TopologyChangeDetection(b, w) \in Bridges
         /\ SameStanding(b, TopologyChangeDetection(b, w))
         /\ TopologyChangeDetection(b, w).port = b.port
<1>. DEFINE told == IF IsRootBridge(b)
                    THEN [b EXCEPT !.topology_change = TRUE,
                                   !.topology_change_timer = 0]
                    ELSE IF ~b.topology_change_detected
                    THEN [TransmitTcn(b, w) EXCEPT !.tcn_timer = 0]
                    ELSE b
<1>1. told \in Bridges /\ SameStanding(b, told) /\ told.port = b.port
  <2>1. CASE IsRootBridge(b)
    <3>1. 0 \in Timers
      BY TimersHold
    <3>. QED BY <2>1, <3>1 DEF Bridges, SameStanding, SamePort
  <2>2. CASE ~IsRootBridge(b) /\ ~b.topology_change_detected
    BY <2>2, TransmitTcnKeeps, TimersHold DEF Bridges, SameStanding, SamePort
  <2>3. CASE ~IsRootBridge(b) /\ b.topology_change_detected
    BY <2>3 DEF SameStanding, SamePort
  <2>. QED BY <2>1, <2>2, <2>3
<1>2. TopologyChangeDetection(b, w)
        = [told EXCEPT !.fdb_needs_flush = TRUE,
                       !.topology_change_detected = TRUE]
  BY DEF TopologyChangeDetection
<1>. HIDE DEF told
<1>. QED BY <1>1, <1>2 DEF Bridges, SameStanding, SamePort

-----------------------------------------------------------------------------
(***************************************************************************)
(* Root selection.  Among any candidates there is a best one, so CHOOSE    *)
(* picks a candidate: priority vectors are well-founded.                   *)
(***************************************************************************)
LessThan == {ss \in Nat \X Nat : ss[1] < ss[2]}

(***************************************************************************)
(* The order of the naturals is well founded.                              *)
(***************************************************************************)
LEMMA LessThanWellFounded == IsWellFoundedOn(LessThan, Nat)
  BY NatLessThanWellFounded DEF OpToRel, LessThan

(***************************************************************************)
(* A non-empty set of vectors of naturals has a first one in the           *)
(* lexicographic order: the CHOOSE of RootSelection has something to       *)
(* choose.                                                                 *)
(***************************************************************************)
LEMMA BestVector ==
  ASSUME NEW T, T \subseteq [1..5 -> Nat], T # {}
  PROVE  \E x \in T : \A y \in T : ~Precedes(y, x, 5)
<1>1. IsWellFoundedOn(LexProductOrdering(LessThan, Nat, 5), [1..5 -> Nat])
  BY LessThanWellFounded, WFLexProductOrdering
<1>2. PICK x \in T : \A y \in T : <<y, x>> \notin LexProductOrdering(LessThan, Nat, 5)
  BY <1>1, WFMin
<1>3. ASSUME NEW y \in T, Precedes(y, x, 5) PROVE FALSE
  <2>. DEFINE ff == <<y, x>>
  <2>1. ff[1] = y /\ ff[2] = x
    OBVIOUS
  <2>2. ff \in [1..5 -> Nat] \X [1..5 -> Nat]
    OBVIOUS
  <2>3. PICK j \in 1..5 : y[j] < x[j] /\ \A i \in 1..(j - 1) : y[i] = x[i]
    BY <1>3 DEF Precedes
  <2>4. y[j] \in Nat /\ x[j] \in Nat
    OBVIOUS
  <2>5. <<y[j], x[j]>> \in LessThan
    BY <2>3, <2>4 DEF LessThan
  <2>6. ff \in LexProductOrdering(LessThan, Nat, 5)
    <3>. HIDE DEF ff
    <3>. QED BY <2>1, <2>2, <2>3, <2>5 DEF LexProductOrdering
  <2>. QED BY <2>6, <1>2
<1>. QED BY <1>3

(***************************************************************************)
(* BestRootPort is one of the candidates, and the others are no better.    *)
(***************************************************************************)
LEMMA BestRootPortIsCandidate ==
  ASSUME NEW b \in Bridges, RootCandidates(b) # {}
  PROVE  BestRootPort(b) \in RootCandidates(b)
<1>. DEFINE V == {RootVector(b, p) : p \in RootCandidates(b)}
<1>1. ASSUME NEW p \in RootCandidates(b)
      PROVE  RootVector(b, p) \in [1..5 -> Nat]
  <2>1. p \in Ports /\ p \in Nat
    BY DEF RootCandidates, EnabledPorts, PortsOf
  <2>2. b.port[p] \in PortRecords
    BY <2>1 DEF Bridges
  <2>3. /\ b.port[p].info \in Infos
        /\ b.port[p].info.cost + b.port[p].path_cost \in Nat
    BY <2>2 DEF PortRecords, Infos
  <2>. QED BY <2>1, <2>3 DEF RootVector, Infos
<1>2. PICK x \in V : \A y \in V : ~Precedes(y, x, 5)
  <2>1. V \subseteq [1..5 -> Nat] /\ V # {}
    BY <1>1
  <2>. QED BY <2>1, BestVector
<1>3. PICK p \in RootCandidates(b) : x = RootVector(b, p)
  OBVIOUS
<1>4. \A q \in RootCandidates(b) : ~SupersedesRoot(b, p, q)
  BY <1>2, <1>3 DEF SupersedesRoot
<1>. QED BY <1>4 DEF BestRootPort

(***************************************************************************)
(* What ConfigurationUpdate needs of a bridge: the information of every    *)
(* port that is not designated is timed, and so is every port's progress.  *)
(***************************************************************************)
ForeignInfoIsTimed(b) ==
  \A p \in EnabledPorts(b) :
    ~IsDesignatedPort(b, p) => Running(b.port[p].message_age_timer)

Updatable(b) ==
  b \in Bridges /\ ForeignInfoIsTimed(b) /\ ProgressIsTimed(b)

(***************************************************************************)
(* What PortStateSelection needs: only the states may disagree with the    *)
(* roles, and the message age timers of designated ports may still run.    *)
(***************************************************************************)
Selectable(b) ==
  /\ Updatable(b)
  /\ RootPortOK(b)
  /\ RootAgrees(b)
  /\ PortsAgree(b)
  /\ b.root_port \in EnabledPorts(b) /\ IsDesignatedPort(b, b.root_port)
       => ~Running(b.port[b.root_port].message_age_timer)

RootSelected(b) ==
  \/ /\ b.root_port = NoPort
     /\ b.designated_root = b.bridge_id
     /\ b.root_path_cost = 0
  \/ /\ b.root_port \in EnabledPorts(b)
     /\ ~IsDesignatedPort(b, b.root_port)
     /\ b.designated_root < b.bridge_id
     /\ b.designated_root = b.port[b.root_port].info.root
     /\ b.root_path_cost = b.port[b.root_port].info.cost
                             + b.port[b.root_port].path_cost

(***************************************************************************)
(* After RootSelection the root port, the designated root and the root     *)
(* path cost agree.                                                        *)
(***************************************************************************)
LEMMA RootSelectionSelects ==
  ASSUME NEW b \in Bridges
  PROVE  /\ RootSelection(b) \in Bridges
         /\ RootSelection(b).port = b.port
         /\ RootSelection(b).bridge_id = b.bridge_id
         /\ RootSelected(RootSelection(b))
<1>1. CASE RootCandidates(b) = {}
  <2>. DEFINE t == [b EXCEPT !.root_port = NoPort,
                             !.designated_root = b.bridge_id,
                             !.root_path_cost = 0]
  <2>1. RootSelection(b) = t
    BY <1>1 DEF RootSelection
  <2>2. /\ t \in Bridges
        /\ t.port = b.port /\ t.bridge_id = b.bridge_id
        /\ t.root_port = NoPort
        /\ t.designated_root = b.bridge_id
        /\ t.root_path_cost = 0
    BY DEF Bridges
  <2>. QED BY <2>1, <2>2 DEF RootSelected
<1>2. CASE RootCandidates(b) # {}
  <2>. DEFINE r == BestRootPort(b)
              t == [b EXCEPT !.root_port = r,
                             !.designated_root = b.port[r].info.root,
                             !.root_path_cost = b.port[r].info.cost
                                                  + b.port[r].path_cost]
  <2>1. RootSelection(b) = t
    BY <1>2 DEF RootSelection
  <2>2. r \in RootCandidates(b)
    BY <1>2, BestRootPortIsCandidate
  <2>3. r \in Ports /\ r \in EnabledPorts(b)
    BY <2>2 DEF RootCandidates, EnabledPorts, PortsOf
  <2>5. /\ ~IsDesignatedPort(b, r)
        /\ b.port[r].info.root < b.bridge_id
    BY <2>2 DEF RootCandidates
  <2>. HIDE DEF r
  <2>4. /\ b.port[r].info.root \in Nat
        /\ b.port[r].info.cost + b.port[r].path_cost \in Nat
    <3>1. b.port[r] \in PortRecords
      BY <2>3 DEF Bridges
    <3>2. b.port[r].info \in Infos /\ b.port[r].path_cost \in Nat
      BY <3>1 DEF PortRecords
    <3>. QED BY <3>2 DEF Infos
  <2>6. /\ t \in Bridges
        /\ t.port = b.port /\ t.bridge_id = b.bridge_id
        /\ t.root_port = r
        /\ t.designated_root = b.port[r].info.root
        /\ t.root_path_cost = b.port[r].info.cost + b.port[r].path_cost
    BY <2>3, <2>4 DEF Bridges
  <2>7. EnabledPorts(t) = EnabledPorts(b)
    BY <2>6 DEF EnabledPorts, PortsOf
  <2>. HIDE DEF t
  <2>. QED BY <2>1, <2>3, <2>5, <2>6, <2>7
        DEF RootSelected, IsDesignatedPort
<1>. QED BY <1>1, <1>2

(***************************************************************************)
(* The chosen root port does not serve its own segment.                    *)
(***************************************************************************)
LEMMA RootPortKeepsInfo ==
  ASSUME NEW b \in Bridges, RootSelected(b), b.root_port # NoPort
  PROVE  ~ServesSegment(b, b.root_port)
<1>. DEFINE r == b.root_port
<1>1. /\ r \in Ports
      /\ ~IsDesignatedPort(b, r)
      /\ b.designated_root = b.port[r].info.root
      /\ b.root_path_cost = b.port[r].info.cost + b.port[r].path_cost
  BY DEF RootSelected, EnabledPorts, PortsOf
<1>2. /\ b.port[r].path_cost \in Nat \ {0}
      /\ b.port[r].info.cost \in Nat
  BY <1>1 DEF Bridges, PortRecords, Infos
<1>3. b.root_path_cost > b.port[r].info.cost
  BY <1>1, <1>2
<1>. DEFINE u == <<b.root_path_cost, b.bridge_id, r>>
            v == <<b.port[r].info.cost, b.port[r].info.bridge,
                   b.port[r].info.port + 1>>
<1>4. ~Precedes(u, v, 3)
  <2>1. u[1] > v[1] /\ u[1] \in Nat /\ v[1] \in Nat
    BY <1>1, <1>2, <1>3
  <2>. HIDE DEF u, v
  <2>2. ASSUME NEW j \in 1..3, u[j] < v[j], \A i \in 1..(j - 1) : u[i] = v[i]
        PROVE  FALSE
    <3>1. CASE j = 1
      BY <3>1, <2>1, <2>2
    <3>2. CASE j # 1
      <4>1. 1 \in 1..(j - 1)
        BY <3>2
      <4>. QED BY <4>1, <2>1, <2>2
    <3>. QED BY <3>1, <3>2
  <2>. QED BY <2>2 DEF Precedes
<1>. QED BY <1>1, <1>4 DEF ServesSegment

(***************************************************************************)
(* DesignatedPortSelection leaves every enabled port with the bridge's     *)
(* root, and gives designated ports the bridge's own information.          *)
(***************************************************************************)
LEMMA DesignatedPortSelectionAgrees ==
  ASSUME NEW b \in Bridges, RootSelected(b), ForeignInfoIsTimed(b),
         ProgressIsTimed(b)
  PROVE  /\ Selectable(DesignatedPortSelection(b))
         /\ PortsOf(DesignatedPortSelection(b)) = PortsOf(b)
         /\ EnabledPorts(DesignatedPortSelection(b)) = EnabledPorts(b)
<1>. DEFINE port == [p \in Ports |->
                       IF p \in EnabledPorts(b) /\ ServesSegment(b, p)
                       THEN [b.port[p] EXCEPT !.info = OwnInfo(b, p)]
                       ELSE b.port[p]]
            t == [b EXCEPT !.port = port]
<1>1. DesignatedPortSelection(b) = t
  BY DEF DesignatedPortSelection
<1>2. \A p \in Ports : OwnInfo(b, p) \in Infos
  BY DEF OwnInfo, Infos, Bridges
<1>3. \A p \in Ports : b.port[p] \in PortRecords
  BY DEF Bridges
<1>4. ASSUME NEW p \in Ports
      PROVE  /\ port[p] \in PortRecords
             /\ port[p].state = b.port[p].state
             /\ port[p].path_cost = b.port[p].path_cost
             /\ port[p].message_age_timer = b.port[p].message_age_timer
             /\ port[p].forward_delay_timer = b.port[p].forward_delay_timer
             /\ p \in EnabledPorts(b) /\ ServesSegment(b, p)
                  => port[p].info = OwnInfo(b, p)
             /\ ~(p \in EnabledPorts(b) /\ ServesSegment(b, p))
                  => port[p].info = b.port[p].info
  BY <1>2, <1>3 DEF PortRecords
<1>5. port \in [Ports -> PortRecords]
  BY <1>4
<1>. HIDE DEF port
<1>6. /\ t \in Bridges
      /\ t.port = port
      /\ t.bridge_id = b.bridge_id /\ t.designated_root = b.designated_root
      /\ t.root_path_cost = b.root_path_cost /\ t.root_port = b.root_port
  BY <1>5 DEF Bridges
<1>. HIDE DEF t
<1>7. PortsOf(t) = PortsOf(b) /\ EnabledPorts(t) = EnabledPorts(b)
  BY <1>4, <1>6 DEF PortsOf, EnabledPorts
<1>8. \A p \in Ports : OwnInfo(t, p) = OwnInfo(b, p)
  BY <1>6 DEF OwnInfo
<1>9. EnabledPorts(b) \subseteq Ports /\ EnabledPorts(b) \subseteq PortsOf(b)
  BY DEF EnabledPorts, PortsOf
<1>10. ASSUME NEW p \in EnabledPorts(b)
       PROVE  /\ IsDesignatedPort(t, p) <=> ServesSegment(b, p)
              /\ ServesSegment(b, p) => t.port[p].info = OwnInfo(t, p)
              /\ ~ServesSegment(b, p) => /\ t.port[p].info = b.port[p].info
                                         /\ ~IsDesignatedPort(b, p)
                                         /\ b.port[p].info.root = b.designated_root
  <2>1. CASE ServesSegment(b, p)
    BY <2>1, <1>4, <1>6, <1>8, <1>9 DEF IsDesignatedPort, OwnInfo
  <2>2. CASE ~ServesSegment(b, p)
    <3>1. t.port[p].info = b.port[p].info
      BY <2>2, <1>4, <1>6, <1>9
    <3>2. ~IsDesignatedPort(b, p) /\ b.port[p].info.root = b.designated_root
      BY <2>2 DEF ServesSegment
    <3>3. ~IsDesignatedPort(t, p)
      BY <3>1, <3>2, <1>6 DEF IsDesignatedPort
    <3>. QED BY <2>2, <3>1, <3>2, <3>3
  <2>. QED BY <2>1, <2>2
<1>11. PortsAgree(t)
  BY <1>6, <1>7, <1>10 DEF PortsAgree, OwnInfo
<1>12. ForeignInfoIsTimed(t)
  BY <1>4, <1>6, <1>7, <1>9, <1>10 DEF ForeignInfoIsTimed
<1>13. ProgressIsTimed(t)
  BY <1>4, <1>6, <1>7, <1>9 DEF ProgressIsTimed
<1>14. RootPortOK(t)
  BY <1>6, <1>7, <1>9 DEF RootSelected, RootPortOK
<1>15. t.root_port \in EnabledPorts(t) => ~IsDesignatedPort(t, t.root_port)
  BY <1>6, <1>7, <1>9, <1>10, RootPortKeepsInfo DEF NoPort
<1>16. RootAgrees(t)
  <2>1. CASE b.root_port = NoPort
    BY <2>1, <1>6, <1>9 DEF RootSelected, RootAgrees, NoPort
  <2>2. CASE b.root_port # NoPort
    <3>1. b.root_port \in EnabledPorts(b) /\ b.root_port \in Ports
      BY <2>2, <1>9 DEF RootSelected
    <3>2. ~ServesSegment(b, b.root_port)
      BY <2>2, RootPortKeepsInfo
    <3>3. /\ t.port[t.root_port].info = b.port[b.root_port].info
          /\ t.port[t.root_port].path_cost = b.port[b.root_port].path_cost
          /\ t.port[t.root_port].state = b.port[b.root_port].state
      BY <3>1, <3>2, <1>4, <1>6, <1>10
    <3>4. t.port[t.root_port].state # "disabled"
      BY <3>1, <3>3 DEF EnabledPorts
    <3>. QED BY <2>2, <3>1, <3>3, <3>4, <1>6 DEF RootSelected, RootAgrees
  <2>. QED BY <2>1, <2>2
<1>. QED BY <1>1, <1>6, <1>7, <1>11, <1>12, <1>13, <1>14, <1>15, <1>16
      DEF Selectable, Updatable

(***************************************************************************)
(* ConfigurationUpdate establishes the agreement on the root, whatever was *)
(* there before.                                                           *)
(***************************************************************************)
LEMMA ConfigurationUpdateAgrees ==
  ASSUME NEW b, Updatable(b)
  PROVE  /\ Selectable(ConfigurationUpdate(b))
         /\ PortsOf(ConfigurationUpdate(b)) = PortsOf(b)
         /\ EnabledPorts(ConfigurationUpdate(b)) = EnabledPorts(b)
<1>. DEFINE r == RootSelection(b)
<1>1. /\ r \in Bridges /\ r.port = b.port /\ r.bridge_id = b.bridge_id
      /\ RootSelected(r)
  BY RootSelectionSelects DEF Updatable
<1>. HIDE DEF r
<1>2. /\ PortsOf(r) = PortsOf(b) /\ EnabledPorts(r) = EnabledPorts(b)
      /\ ForeignInfoIsTimed(r) /\ ProgressIsTimed(r)
  BY <1>1 DEF Updatable, ForeignInfoIsTimed, ProgressIsTimed,
              IsDesignatedPort, EnabledPorts, PortsOf
<1>3. ConfigurationUpdate(b) = DesignatedPortSelection(r)
  BY DEF ConfigurationUpdate, r
<1>. QED BY <1>1, <1>2, <1>3, DesignatedPortSelectionAgrees

-----------------------------------------------------------------------------
(***************************************************************************)
(* Port state selection restores what roles and timers are to agree on.    *)
(***************************************************************************)
Timed(port) ==
  Running(port.forward_delay_timer) <=> port.state \in {"listening", "learning"}

(***************************************************************************)
(* What MakeForwarding leaves as it is, and what it does to state and      *)
(* timer.                                                                  *)
(***************************************************************************)
LEMMA MakeForwardingShape ==
  ASSUME NEW x \in PortRecords, x.state \notin {"absent", "disabled"}
  PROVE  /\ MakeForwarding(x) \in PortRecords
         /\ MakeForwarding(x).path_cost = x.path_cost
         /\ MakeForwarding(x).info = x.info
         /\ MakeForwarding(x).message_age_timer = x.message_age_timer
         /\ MakeForwarding(x).state \notin {"absent", "disabled", "blocking"}
         /\ Timed(x) => Timed(MakeForwarding(x))
<1>1. CASE x.state = "blocking"
  <2>. DEFINE y == WithState(x, "listening")
              z == [y EXCEPT !.forward_delay_timer = 0]
  <2>1. /\ y \in PortRecords /\ y.state = "listening"
        /\ y.path_cost = x.path_cost /\ y.info = x.info
        /\ y.message_age_timer = x.message_age_timer
    BY DEF WithState, PortRecords, StpStates
  <2>. HIDE DEF y
  <2>2. /\ z \in PortRecords /\ z.state = y.state
        /\ z.path_cost = y.path_cost /\ z.info = y.info
        /\ z.message_age_timer = y.message_age_timer
        /\ z.forward_delay_timer = 0
    BY <2>1, TimersHold DEF PortRecords
  <2>3. MakeForwarding(x) = z
    BY <1>1 DEF MakeForwarding, y
  <2>. QED BY <2>1, <2>2, <2>3, TimersHold DEF Timed
<1>2. CASE x.state # "blocking"
  BY <1>2 DEF MakeForwarding
<1>. QED BY <1>1, <1>2

(***************************************************************************)
(* The same of MakeBlocking.                                               *)
(***************************************************************************)
LEMMA MakeBlockingShape ==
  ASSUME NEW x \in PortRecords, x.state \notin {"absent", "disabled"}
  PROVE  /\ MakeBlocking(x) \in PortRecords
         /\ MakeBlocking(x).path_cost = x.path_cost
         /\ MakeBlocking(x).info = x.info
         /\ MakeBlocking(x).message_age_timer = x.message_age_timer
         /\ MakeBlocking(x).state = "blocking"
         /\ Timed(x) => Timed(MakeBlocking(x))
<1>1. CASE x.state # "blocking"
  BY <1>1, TimersHold DEF MakeBlocking, WithState, PortRecords, StpStates, Running, Timed
<1>2. CASE x.state = "blocking"
  BY <1>2 DEF MakeBlocking
<1>. QED BY <1>1, <1>2

(***************************************************************************)
(* The same of Silenced.                                                   *)
(***************************************************************************)
LEMMA SilencedShape ==
  ASSUME NEW x \in PortRecords
  PROVE  Silenced(x) \in PortRecords /\ SamePort(x, Silenced(x))
  BY DEF Silenced, SamePort, PortRecords

(***************************************************************************)
(* The state PortStateSelection gives a port fits its role, and its timers *)
(* fit its state.                                                          *)
(***************************************************************************)
LEMMA SelectedPortAgrees ==
  ASSUME NEW b \in Bridges, NEW p \in Ports
  PROVE  /\ SelectedPort(b, p) \in PortRecords
         /\ p \notin EnabledPorts(b) => SelectedPort(b, p) = b.port[p]
         /\ SelectedPort(b, p).path_cost = b.port[p].path_cost
         /\ SelectedPort(b, p).info = b.port[p].info
         /\ p \in EnabledPorts(b) =>
              /\ SelectedPort(b, p).state \notin {"absent", "disabled"}
              /\ SelectedPort(b, p).state = "blocking"
                   <=> p # b.root_port /\ ~IsDesignatedPort(b, p)
              /\ SelectedPort(b, p).message_age_timer
                   = IF p # b.root_port /\ IsDesignatedPort(b, p)
                     THEN Off ELSE b.port[p].message_age_timer
              /\ Timed(b.port[p]) => Timed(SelectedPort(b, p))
<1>. DEFINE x == b.port[p]
            y == [x EXCEPT !.message_age_timer = Off]
<1>1. x \in PortRecords /\ Silenced(x) \in PortRecords /\ SamePort(x, Silenced(x))
  BY SilencedShape DEF Bridges
<1>2. /\ y \in PortRecords
      /\ y.state = x.state /\ y.path_cost = x.path_cost /\ y.info = x.info
      /\ y.message_age_timer = Off
      /\ y.forward_delay_timer = x.forward_delay_timer
  BY <1>1, TimersHold DEF PortRecords
<1>3. p \in EnabledPorts(b) => x.state \notin {"absent", "disabled"}
  BY DEF EnabledPorts, PortsOf
<1>4. Timed(x) => Timed(y) /\ Timed(Silenced(x))
  BY <1>1, <1>2 DEF Timed, SamePort
<1>5. SelectedPort(b, p) =
        CASE p \notin EnabledPorts(b) -> x
          [] p \in EnabledPorts(b) /\ p = b.root_port ->
               MakeForwarding(Silenced(x))
          [] p \in EnabledPorts(b) /\ p # b.root_port /\ IsDesignatedPort(b, p) ->
               MakeForwarding(y)
          [] OTHER -> MakeBlocking(Silenced(x))
  BY DEF SelectedPort
<1>. HIDE DEF x, y
<1>6. CASE p \notin EnabledPorts(b)
  BY <1>1, <1>5, <1>6 DEF x
<1>7. CASE p \in EnabledPorts(b) /\ p = b.root_port
  <2>1. SelectedPort(b, p) = MakeForwarding(Silenced(x))
    BY <1>5, <1>7
  <2>. QED BY <2>1, <1>1, <1>3, <1>4, <1>7, MakeForwardingShape DEF SamePort, x
<1>8. CASE p \in EnabledPorts(b) /\ p # b.root_port /\ IsDesignatedPort(b, p)
  <2>1. SelectedPort(b, p) = MakeForwarding(y)
    BY <1>5, <1>8
  <2>. QED BY <2>1, <1>2, <1>3, <1>4, <1>8, MakeForwardingShape DEF x
<1>9. CASE p \in EnabledPorts(b) /\ p # b.root_port /\ ~IsDesignatedPort(b, p)
  <2>1. SelectedPort(b, p) = MakeBlocking(Silenced(x))
    BY <1>5, <1>9
  <2>. QED BY <2>1, <1>1, <1>3, <1>4, <1>9, MakeBlockingShape DEF SamePort, x
<1>. QED BY <1>6, <1>7, <1>8, <1>9

(***************************************************************************)
(* PortStateSelection gives every port the state selected for it, and      *)
(* keeps ids, root and times.                                              *)
(***************************************************************************)
LEMMA PortStateSelectionShape ==
  ASSUME NEW b \in Bridges, NEW w \in Whims
  PROVE  LET t == PortStateSelection(b, w)
         IN  /\ t \in Bridges
             /\ t.bridge_id = b.bridge_id
             /\ t.designated_root = b.designated_root
             /\ t.root_path_cost = b.root_path_cost
             /\ t.root_port = b.root_port
             /\ t.port = [p \in Ports |-> SelectedPort(b, p)]
<1>. DEFINE selected == [p \in Ports |-> SelectedPort(b, p)]
            before == IF w.late THEN b ELSE [b EXCEPT !.port = selected]
            detected == TopologyChangeDetection(before, w)
<1>1. selected \in [Ports -> PortRecords]
  BY SelectedPortAgrees
<1>. HIDE DEF selected
<1>2. /\ before \in Bridges
      /\ before.bridge_id = b.bridge_id
      /\ before.designated_root = b.designated_root
      /\ before.root_path_cost = b.root_path_cost
      /\ before.root_port = b.root_port
  BY <1>1 DEF Bridges
<1>. HIDE DEF before
<1>3. detected \in Bridges /\ SameStanding(before, detected)
  BY <1>2, TopologyChangeDetectionKeeps
<1>4. PortStateSelection(b, w)
        = IF \E p \in EnabledPorts(b) : LeavesTraffic(b, p)
          THEN [detected EXCEPT !.port = selected]
          ELSE [b EXCEPT !.port = selected]
  BY DEF PortStateSelection, selected, before
<1>. HIDE DEF detected
<1>5. CASE \E p \in EnabledPorts(b) : LeavesTraffic(b, p)
  BY <1>1, <1>2, <1>3, <1>4, <1>5 DEF Bridges, SameStanding, selected
<1>6. CASE ~ \E p \in EnabledPorts(b) : LeavesTraffic(b, p)
  BY <1>1, <1>4, <1>6 DEF Bridges, selected
<1>. QED BY <1>5, <1>6

(***************************************************************************)
(* After PortStateSelection a bridge whose ports agree on the root is      *)
(* sound.                                                                  *)
(***************************************************************************)
LEMMA PortStateSelectionSound ==
  ASSUME NEW b, Selectable(b), NEW w \in Whims
  PROVE  /\ Sound(PortStateSelection(b, w))
         /\ PortsOf(PortStateSelection(b, w)) = PortsOf(b)
         /\ EnabledPorts(PortStateSelection(b, w)) = EnabledPorts(b)
<1>. DEFINE t == PortStateSelection(b, w)
<1>1. b \in Bridges /\ ForeignInfoIsTimed(b) /\ ProgressIsTimed(b)
  BY DEF Selectable, Updatable
<1>2. /\ t \in Bridges
      /\ t.bridge_id = b.bridge_id
      /\ t.designated_root = b.designated_root
      /\ t.root_path_cost = b.root_path_cost
      /\ t.root_port = b.root_port
      /\ \A p \in Ports : t.port[p] = SelectedPort(b, p)
  <2>1. t.port = [p \in Ports |-> SelectedPort(b, p)]
    BY <1>1, PortStateSelectionShape
  <2>2. \A p \in Ports : t.port[p] = SelectedPort(b, p)
    <3>. HIDE DEF t
    <3>. QED BY <2>1
  <2>. QED BY <1>1, <2>2, PortStateSelectionShape
<1>. HIDE DEF t
<1>3. EnabledPorts(b) \subseteq Ports /\ PortsOf(b) \subseteq Ports
  BY DEF EnabledPorts, PortsOf
<1>4. PortsOf(t) = PortsOf(b) /\ EnabledPorts(t) = EnabledPorts(b)
  <2>1. ASSUME NEW p \in Ports
        PROVE  /\ p \in PortsOf(t) <=> p \in PortsOf(b)
               /\ p \in EnabledPorts(t) <=> p \in EnabledPorts(b)
    BY <1>1, <1>2, SelectedPortAgrees DEF EnabledPorts, PortsOf
  <2>. QED BY <2>1, <1>3 DEF EnabledPorts, PortsOf
<1>5. \A p \in Ports : /\ t.port[p].info = b.port[p].info
                       /\ t.port[p].path_cost = b.port[p].path_cost
                       /\ IsDesignatedPort(t, p) <=> IsDesignatedPort(b, p)
                       /\ OwnInfo(t, p) = OwnInfo(b, p)
  <2>. TAKE p \in Ports
  <2>1. t.port[p].info = b.port[p].info /\ t.port[p].path_cost = b.port[p].path_cost
    BY <1>1, <1>2, SelectedPortAgrees
  <2>. QED BY <2>1, <1>2 DEF IsDesignatedPort, OwnInfo
<1>6. RootPortOK(t)
  BY <1>2, <1>4 DEF Selectable, RootPortOK
<1>7. RootAgrees(t)
  <2>1. Orphan(t) <=> Orphan(b)
    BY <1>2, <1>5 DEF Orphan
  <2>2. ASSUME t.root_port # NoPort, ~Orphan(t)
        PROVE  t.root_port \in EnabledPorts(b)
    BY <2>1, <2>2, <1>2 DEF Selectable, RootPortOK, RootAgrees, Orphan, EnabledPorts
  <2>3. ASSUME t.root_port # NoPort, ~Orphan(t)
        PROVE  t.port[t.root_port].state # "disabled"
    BY <2>2, <2>3, <1>4 DEF EnabledPorts
  <2>. QED BY <2>1, <2>2, <2>3, <1>2, <1>3, <1>5 DEF Selectable, RootAgrees
<1>8. PortsAgree(t)
  BY <1>2, <1>3, <1>4, <1>5 DEF Selectable, PortsAgree
<1>9. RolesAgree(t)
  <2>1. ASSUME NEW p \in EnabledPorts(b)
        PROVE  t.port[p].state = "blocking"
                 <=> p # b.root_port /\ ~IsDesignatedPort(b, p)
    <3>1. p \in Ports
      BY <1>3
    <3>. QED BY <3>1, <1>1, <1>2, SelectedPortAgrees
  <2>. QED BY <2>1, <1>2, <1>3, <1>4, <1>5 DEF RolesAgree
<1>10. HeardInfoIsTimed(t)
  <2>1. ASSUME NEW p \in EnabledPorts(b)
        PROVE  Running(t.port[p].message_age_timer) <=> ~IsDesignatedPort(b, p)
    <3>1. t.port[p].message_age_timer
            = IF p # b.root_port /\ IsDesignatedPort(b, p)
              THEN Off ELSE b.port[p].message_age_timer
      <4>1. p \in Ports
        BY <1>3
      <4>. QED BY <4>1, <1>1, <1>2, SelectedPortAgrees
    <3>2. ~IsDesignatedPort(b, p) => Running(b.port[p].message_age_timer)
      BY <1>1 DEF ForeignInfoIsTimed
    <3>. QED BY <3>1, <3>2 DEF Selectable, Running
  <2>. QED BY <2>1, <1>3, <1>4, <1>5 DEF HeardInfoIsTimed
<1>11. ProgressIsTimed(t)
  <2>1. ASSUME NEW p \in EnabledPorts(b)
        PROVE  Timed(t.port[p])
    <3>1. p \in Ports /\ Timed(b.port[p])
      BY <1>1, <1>3 DEF ProgressIsTimed, Timed
    <3>. QED BY <3>1, <1>1, <1>2, SelectedPortAgrees
  <2>. QED BY <2>1, <1>4 DEF ProgressIsTimed, Timed
<1>. QED BY <1>2, <1>4, <1>6, <1>7, <1>8, <1>9, <1>10, <1>11 DEF Sound, t

(***************************************************************************)
(* Reconfigure makes any well-typed bridge whose heard information is      *)
(* timed sound.                                                            *)
(***************************************************************************)
LEMMA ReconfigureSound ==
  ASSUME NEW b, Updatable(b), NEW w \in Whims
  PROVE  /\ Sound(Reconfigure(b, w))
         /\ PortsOf(Reconfigure(b, w)) = PortsOf(b)
         /\ EnabledPorts(Reconfigure(b, w)) = EnabledPorts(b)
  BY ConfigurationUpdateAgrees, PortStateSelectionSound DEF Reconfigure

-----------------------------------------------------------------------------
(***************************************************************************)
(* The steps that are combined into operations.  Those that follow change  *)
(* the standing of nothing.                                                *)
(***************************************************************************)
LEMMA QuietKeeps ==
  ASSUME NEW b \in Bridges
  PROVE  Quiet(b) \in Bridges /\ SameStanding(b, Quiet(b))
  BY DEF Quiet, Bridges, SameStanding, SamePort

(***************************************************************************)
(* BecomeRootBridge keeps roles and states.                                *)
(***************************************************************************)
LEMMA BecomeRootBridgeKeeps ==
  ASSUME NEW b \in Bridges, NEW w \in Whims
  PROVE  /\ BecomeRootBridge(b, w) \in Bridges
         /\ SameStanding(b, BecomeRootBridge(b, w))
<1>. DEFINE owning == [b EXCEPT !.times = b.bridge_times]
            told == TopologyChangeDetection(owning, w)
            detected == [told EXCEPT !.tcn_timer = Off]
            spread == ConfigBpduGeneration(detected, w)
<1>1. owning \in Bridges /\ SameStanding(b, owning)
  BY DEF Bridges, SameStanding, SamePort
<1>. HIDE DEF owning
<1>2. told \in Bridges /\ SameStanding(owning, told)
  BY <1>1, TopologyChangeDetectionKeeps
<1>. HIDE DEF told
<1>3. detected \in Bridges /\ SameStanding(told, detected)
  BY <1>2, TimersHold DEF Bridges, SameStanding, SamePort
<1>. HIDE DEF detected
<1>4. spread \in Bridges /\ SameStanding(detected, spread)
  BY <1>3, ConfigBpduGenerationKeeps
<1>5. BecomeRootBridge(b, w) = [spread EXCEPT !.hello_timer = 0]
  BY DEF BecomeRootBridge, owning, told, detected
<1>. HIDE DEF spread
<1>6. /\ BecomeRootBridge(b, w) \in Bridges
      /\ SameStanding(spread, BecomeRootBridge(b, w))
  BY <1>4, <1>5, TimersHold DEF Bridges, SameStanding, SamePort
<1>. QED BY <1>1, <1>2, <1>3, <1>4, <1>6, SameStandingTransitive

(***************************************************************************)
(* AcknowledgeTopologyChange keeps roles and states.                       *)
(***************************************************************************)
LEMMA AcknowledgeTopologyChangeKeeps ==
  ASSUME NEW b \in Bridges, NEW p \in Ports, NEW w \in Whims
  PROVE  /\ AcknowledgeTopologyChange(b, p, w) \in Bridges
         /\ SameStanding(b, AcknowledgeTopologyChange(b, p, w))
<1>. DEFINE noted == [b EXCEPT !.port[p].topology_change_ack = TRUE]
<1>1. [b.port[p] EXCEPT !.topology_change_ack = TRUE] \in PortRecords
  <2>1. b.port[p] \in PortRecords
    BY DEF Bridges
  <2>. QED BY <2>1 DEF PortRecords
<1>2. noted \in Bridges /\ SameStanding(b, noted)
  BY <1>1 DEF Bridges, PortRecords, SameStanding, SamePort
<1>. HIDE DEF noted
<1>3. AcknowledgeTopologyChange(b, p, w) = TransmitConfigs(noted, {p}, w)
  BY DEF AcknowledgeTopologyChange, noted
<1>. QED BY <1>2, <1>3, TransmitConfigsKeeps, SameStandingTransitive

(***************************************************************************)
(* YieldRoot keeps roles and states.                                       *)
(***************************************************************************)
LEMMA YieldRootKeeps ==
  ASSUME NEW b \in Bridges, NEW w
  PROVE  YieldRoot(b, w) \in Bridges /\ SameStanding(b, YieldRoot(b, w))
<1>. DEFINE quiet == [b EXCEPT !.hello_timer = Off]
            sent == TransmitTcn(quiet, w)
<1>1. quiet \in Bridges /\ SameStanding(b, quiet)
  BY TimersHold DEF Bridges, SameStanding, SamePort
<1>2. YieldRoot(b, w)
        = IF b.topology_change_detected
          THEN [sent EXCEPT !.topology_change_timer = Off, !.tcn_timer = 0]
          ELSE quiet
  BY DEF YieldRoot
<1>. HIDE DEF quiet
<1>3. sent \in Bridges /\ SameStanding(quiet, sent)
  BY <1>1, TransmitTcnKeeps
<1>. HIDE DEF sent
<1>4. [sent EXCEPT !.topology_change_timer = Off, !.tcn_timer = 0] \in Bridges
  <2>1. 0 \in Timers /\ Off \in Timers
    BY TimersHold
  <2>. QED BY <1>3, <2>1 DEF Bridges
<1>5. SameStanding(sent, [sent EXCEPT !.topology_change_timer = Off, !.tcn_timer = 0])
  BY <1>3 DEF Bridges, SameStanding, SamePort
<1>. QED BY <1>1, <1>2, <1>3, <1>4, <1>5, SameStandingTransitive

(***************************************************************************)
(* FollowRoot keeps roles and states.                                      *)
(***************************************************************************)
LEMMA FollowRootKeeps ==
  ASSUME NEW b \in Bridges, NEW c \in ConfigContents, NEW w \in Whims
  PROVE  FollowRoot(b, c, w) \in Bridges /\ SameStanding(b, FollowRoot(b, c, w))
<1>. DEFINE told == [b EXCEPT !.times = c.times, !.topology_change = c.tc]
            relayed == ConfigBpduGeneration(told, w)
            settled == IF c.tca THEN TopologyChangeAcknowledged(relayed)
                       ELSE relayed
<1>1. told \in Bridges /\ SameStanding(b, told)
  BY DEF Bridges, ConfigContents, SameStanding, SamePort
<1>. HIDE DEF told
<1>2. relayed \in Bridges /\ SameStanding(told, relayed)
  BY <1>1, ConfigBpduGenerationKeeps
<1>. HIDE DEF relayed
<1>3. settled \in Bridges /\ SameStanding(relayed, settled)
  BY <1>2, TimersHold DEF TopologyChangeAcknowledged, Bridges, SameStanding, SamePort
<1>4. FollowRoot(b, c, w) = [settled EXCEPT !.fdb_needs_flush = @ \/ c.tc]
  BY DEF FollowRoot, told, relayed
<1>. HIDE DEF settled
<1>5. /\ FollowRoot(b, c, w) \in Bridges
      /\ SameStanding(settled, FollowRoot(b, c, w))
  BY <1>3, <1>4 DEF Bridges, ConfigContents, SameStanding, SamePort
<1>. QED BY <1>1, <1>2, <1>3, <1>5, SameStandingTransitive

(***************************************************************************)
(* A timer that has not expired runs after a tick exactly when it ran      *)
(* before.                                                                 *)
(***************************************************************************)
LEMMA TimerAfterShape ==
  ASSUME NEW timer \in Timers, NEW ticks \in Int, NEW timeout
  PROVE  /\ TimerAfter(timer, ticks, timeout) \in Timers
         /\ Running(TimerAfter(timer, ticks, timeout))
              <=> Running(timer) /\ ~TimerExpired(timer, ticks, timeout)
  BY TimersHold DEF TimerAfter, TimerExpired, Running

(***************************************************************************)
(* The three timers of the bridge change no role and no state.             *)
(***************************************************************************)
LEMMA BridgeTickKeeps ==
  ASSUME NEW b \in Bridges, NEW ticks \in Int, NEW w \in Whims
  PROVE  /\ BridgeTick(b, ticks, w) \in Bridges
         /\ SameStanding(b, BridgeTick(b, ticks, w))
<1>1. ASSUME NEW x \in Bridges
      PROVE  HelloTick(x, ticks, w) \in Bridges /\ SameStanding(x, HelloTick(x, ticks, w))
  <2>1. TimerAfter(x.hello_timer, ticks, x.times.hello_time) \in Timers
    BY TimerAfterShape DEF Bridges
  <2>2. /\ ConfigBpduGeneration(x, w) \in Bridges
        /\ SameStanding(x, ConfigBpduGeneration(x, w))
    BY ConfigBpduGenerationKeeps
  <2>. QED BY <2>1, <2>2, TimersHold DEF HelloTick, Bridges, SameStanding, SamePort
<1>2. ASSUME NEW x \in Bridges
      PROVE  TcnTick(x, ticks, w) \in Bridges /\ SameStanding(x, TcnTick(x, ticks, w))
  <2>1. TimerAfter(x.tcn_timer, ticks, x.bridge_times.hello_time) \in Timers
    BY TimerAfterShape DEF Bridges
  <2>2. TransmitTcn(x, w) \in Bridges /\ SameStanding(x, TransmitTcn(x, w))
    BY TransmitTcnKeeps
  <2>. QED BY <2>1, <2>2, TimersHold DEF TcnTick, Bridges, SameStanding, SamePort
<1>3. ASSUME NEW x \in Bridges
      PROVE  /\ TopologyChangeTick(x, ticks) \in Bridges
             /\ SameStanding(x, TopologyChangeTick(x, ticks))
  <2>1. TimerAfter(x.topology_change_timer, ticks,
                   x.times.max_age + x.times.forward_delay) \in Timers
    BY TimerAfterShape DEF Bridges
  <2>. QED BY <2>1 DEF TopologyChangeTick, Bridges, SameStanding, SamePort
<1>. QED BY <1>1, <1>2, <1>3, SameStandingTransitive DEF BridgeTick

-----------------------------------------------------------------------------
(***************************************************************************)
(* Replacing one port record.                                              *)
(***************************************************************************)
LEMMA PortReplaced ==
  ASSUME NEW b \in Bridges, NEW p \in Ports, NEW x \in PortRecords
  PROVE  LET t == [b EXCEPT !.port[p] = x]
         IN  /\ t \in Bridges
             /\ t.port[p] = x
             /\ \A q \in Ports \ {p} : t.port[q] = b.port[q]
             /\ t.bridge_id = b.bridge_id
             /\ t.designated_root = b.designated_root
             /\ t.root_path_cost = b.root_path_cost
             /\ t.root_port = b.root_port
             /\ t.times = b.times
             /\ t.out = b.out
             /\ SameNews(b, t)
  BY DEF Bridges, SameNews

(***************************************************************************)
(* What holds after Reconfigure holds after BecomeRootBridge too.          *)
(***************************************************************************)
LEMMA ReconfigureOrLeadSound ==
  ASSUME NEW b, Updatable(b), NEW w \in Whims
  PROVE  /\ Sound(ReconfigureOrLead(b, w))
         /\ EnabledPorts(ReconfigureOrLead(b, w)) = EnabledPorts(b)
<1>. DEFINE next == Reconfigure(b, w)
<1>1. Sound(next) /\ EnabledPorts(next) = EnabledPorts(b)
  BY ReconfigureSound
<1>. HIDE DEF next
<1>2. /\ Sound(BecomeRootBridge(next, w))
      /\ EnabledPorts(BecomeRootBridge(next, w)) = EnabledPorts(next)
  BY <1>1, BecomeRootBridgeKeeps, SameStandingSound, SameSets DEF Sound
<1>3. \/ ReconfigureOrLead(b, w) = next
      \/ ReconfigureOrLead(b, w) = BecomeRootBridge(next, w)
  BY DEF ReconfigureOrLead, next
<1>. QED BY <1>1, <1>2, <1>3

(***************************************************************************)
(* t is b with its ports changed so that it is ready to be reconfigured.   *)
(***************************************************************************)
Prepared(b, t) ==
  /\ Updatable(t)
  /\ t.designated_root = b.designated_root
  /\ SameNews(b, t)
  /\ t.out = b.out

(***************************************************************************)
(* What every enabled port knows of is the root the bridge knows of.       *)
(***************************************************************************)
HeardAlike(b) ==
  \A p \in EnabledPorts(b) : b.port[p].info.root = b.designated_root

(***************************************************************************)
(* A sound bridge is one on which the operations below may start.          *)
(***************************************************************************)
LEMMA SoundUpdatable ==
  ASSUME NEW b, Sound(b)
  PROVE  Updatable(b)
  BY DEF Sound, Updatable, ForeignInfoIsTimed, HeardInfoIsTimed

-----------------------------------------------------------------------------
(***************************************************************************)
(* The operations: each leaves a sound bridge sound.                       *)
(***************************************************************************)
LEMMA CreatePortSound ==
  ASSUME NEW b, Sound(b), NEW p \in Ports, NEW cost \in Nat \ {0},
         NEW reused \in BOOLEAN
  PROVE  Sound(CreatePort(b, p, cost, reused)) /\ p \in PortsOf(CreatePort(b, p, cost, reused))
<1>. DEFINE x == InitialPort(b, p, cost, "disabled", FALSE)
            r == IF b.root_port = StalePort /\ reused THEN p ELSE b.root_port
            t == [b EXCEPT !.root_port = r, !.port[p] = x]
<1>0. CASE p \in PortsOf(b)
  BY <1>0 DEF CreatePort
<1>1. CASE p \notin PortsOf(b)
  <2>1. x \in PortRecords /\ x.state = "disabled" /\ x.info = OwnInfo(b, p)
    BY TimersHold DEF InitialPort, PortRecords, OwnInfo, Infos, Sound, Bridges, StpStates
  <2>. HIDE DEF x
  <2>2. r \in Ports \cup {NoPort, StalePort}
    BY DEF Sound, Bridges
  <2>3. CreatePort(b, p, cost, reused) = t
    BY <1>1 DEF CreatePort, x
  <2>4. /\ r = b.root_port \/ (b.root_port = StalePort /\ r = p)
        /\ b.root_port # StalePort => r = b.root_port
    OBVIOUS
  <2>. HIDE DEF r
  <2>5. /\ t \in Bridges
        /\ t.port[p] = x
        /\ \A q \in Ports \ {p} : t.port[q] = b.port[q]
        /\ t.bridge_id = b.bridge_id
        /\ t.designated_root = b.designated_root
        /\ t.root_path_cost = b.root_path_cost
        /\ t.root_port = r
    BY <2>1, <2>2 DEF Sound, Bridges
  <2>. HIDE DEF t
  <2>6. /\ PortsOf(t) = PortsOf(b) \cup {p}
        /\ EnabledPorts(t) = EnabledPorts(b)
        /\ p \notin EnabledPorts(b)
    BY <1>1, <2>1, <2>5 DEF PortsOf, EnabledPorts
  <2>7. /\ IsDesignatedPort(t, p)
        /\ \A q \in Ports \ {p} : IsDesignatedPort(t, q) <=> IsDesignatedPort(b, q)
    <3>1. t.port[p].info = OwnInfo(b, p)
      BY <2>1, <2>5
    <3>. QED BY <3>1, <2>5 DEF IsDesignatedPort, OwnInfo
  <2>8. RootPortOK(t)
    BY <2>4, <2>5, <2>6 DEF Sound, RootPortOK
  <2>9. RootAgrees(t)
    <3>1. ASSUME r # NoPort, ~Orphan(t)
          PROVE  r \in Ports \ {p} /\ r = b.root_port /\ ~Orphan(b)
      BY <2>2, <2>4, <2>5, <2>7, <3>1 DEF Orphan
    <3>2. r = NoPort <=> b.root_port = NoPort
      BY <2>4 DEF NoPort, StalePort
    <3>. QED BY <3>1, <3>2, <2>5 DEF Sound, RootAgrees
  <2>10. EnabledPorts(b) \subseteq Ports \ {p}
    BY <2>6 DEF EnabledPorts, PortsOf
  <2>11. PortsAgree(t)
    BY <2>5, <2>6, <2>7, <2>10 DEF Sound, PortsAgree, OwnInfo
  <2>12. RolesAgree(t)
    <3>1. ASSUME NEW q \in EnabledPorts(b)
          PROVE  q = r <=> q = b.root_port
      BY <2>4, <2>10 DEF StalePort
    <3>. QED BY <3>1, <2>5, <2>6, <2>7, <2>10 DEF Sound, RolesAgree
  <2>13. HeardInfoIsTimed(t) /\ ProgressIsTimed(t)
    BY <2>5, <2>6, <2>7, <2>10 DEF Sound, HeardInfoIsTimed, ProgressIsTimed
  <2>. QED BY <2>3, <2>5, <2>6, <2>8, <2>9, <2>11, <2>12, <2>13 DEF Sound
<1>. QED BY <1>0, <1>1

(***************************************************************************)
(* PortEnable keeps a bridge sound.                                        *)
(***************************************************************************)
LEMMA PortEnableSound ==
  ASSUME NEW b, Sound(b), NEW p \in PortsOf(b), NEW w \in Whims
  PROVE  Sound(PortEnable(b, p, w))
<1>. DEFINE x == InitialPort(b, p, b.port[p].path_cost, "blocking", TRUE)
            t == [b EXCEPT !.port[p] = x]
<1>0. b \in Bridges /\ p \in Ports
  BY DEF Sound, PortsOf
<1>1. CASE b.port[p].state # "disabled"
  BY <1>1 DEF PortEnable
<1>2. CASE b.port[p].state = "disabled"
  <2>1. /\ x \in PortRecords /\ x.state = "blocking" /\ x.info = OwnInfo(b, p)
        /\ x.message_age_timer = Off /\ x.forward_delay_timer = Off
    <3>1. b.port[p].path_cost \in Nat \ {0}
      <4>1. b.port[p] \in PortRecords
        BY <1>0 DEF Bridges
      <4>. QED BY <4>1 DEF PortRecords
    <3>. QED BY <3>1, <1>0, TimersHold DEF InitialPort, PortRecords, OwnInfo, Infos, Bridges, StpStates
  <2>2. PortEnable(b, p, w) = PortStateSelection(t, w)
    BY <1>2 DEF PortEnable
  <2>. HIDE DEF x
  <2>3. /\ t \in Bridges
        /\ t.port[p] = x
        /\ \A q \in Ports \ {p} : t.port[q] = b.port[q]
        /\ t.bridge_id = b.bridge_id
        /\ t.designated_root = b.designated_root
        /\ t.root_path_cost = b.root_path_cost
        /\ t.root_port = b.root_port
    BY <1>0, <2>1, PortReplaced
  <2>. HIDE DEF t
  <2>4. /\ PortsOf(t) = PortsOf(b)
        /\ EnabledPorts(t) = EnabledPorts(b) \cup {p}
        /\ EnabledPorts(b) \subseteq Ports \ {p}
    BY <1>0, <1>2, <2>1, <2>3 DEF PortsOf, EnabledPorts
  <2>5. /\ IsDesignatedPort(t, p)
        /\ \A q \in Ports \ {p} : IsDesignatedPort(t, q) <=> IsDesignatedPort(b, q)
    <3>1. t.port[p].info = OwnInfo(b, p)
      BY <2>1, <2>3
    <3>. QED BY <1>0, <2>3, <3>1 DEF IsDesignatedPort, OwnInfo
  <2>6. ForeignInfoIsTimed(t)
    BY <2>3, <2>4, <2>5 DEF Sound, HeardInfoIsTimed, ForeignInfoIsTimed
  <2>7. ProgressIsTimed(t)
    BY <2>1, <2>3, <2>4 DEF Sound, ProgressIsTimed, Running
  <2>8. RootPortOK(t)
    BY <2>3, <2>4 DEF Sound, RootPortOK
  <2>9. RootAgrees(t)
    <3>1. ASSUME t.root_port # NoPort, ~Orphan(t)
          PROVE  t.root_port \in Ports \ {p} /\ ~Orphan(b)
      BY <1>0, <2>3, <2>5, <3>1 DEF Orphan, Sound, RootPortOK, PortsOf
    <3>. QED BY <3>1, <2>3 DEF Sound, RootAgrees
  <2>10. PortsAgree(t)
    <3>1. t.port[p].info = OwnInfo(b, p)
      BY <2>1, <2>3
    <3>2. /\ OwnInfo(t, p) = OwnInfo(b, p)
          /\ t.port[p].info.root = t.designated_root
      BY <2>3, <3>1 DEF OwnInfo
    <3>3. ASSUME NEW y \in EnabledPorts(b)
          PROVE  /\ t.port[y].info.root = t.designated_root
                 /\ IsDesignatedPort(t, y) => t.port[y].info = OwnInfo(t, y)
      BY <2>3, <2>4, <2>5 DEF Sound, PortsAgree, OwnInfo
    <3>. QED BY <2>4, <3>1, <3>2, <3>3 DEF PortsAgree
  <2>11. t.root_port \in EnabledPorts(t) /\ IsDesignatedPort(t, t.root_port)
           => ~Running(t.port[t.root_port].message_age_timer)
    BY <1>0, <2>1, <2>3, <2>4, <2>5 DEF Sound, HeardInfoIsTimed, Running
  <2>12. Selectable(t)
    BY <2>3, <2>6, <2>7, <2>8, <2>9, <2>10, <2>11 DEF Selectable, Updatable
  <2>. QED BY <2>2, <2>12, PortStateSelectionSound
<1>. QED BY <1>1, <1>2

(***************************************************************************)
(* DestroyPort keeps a bridge sound, even when it deletes the root port.   *)
(***************************************************************************)
LEMMA DestroyPortSound ==
  ASSUME NEW b, Sound(b), NEW p \in PortsOf(b)
  PROVE  Sound(DestroyPort(b, p))
<1>. DEFINE r == IF b.root_port = p THEN StalePort ELSE b.root_port
            t == [b EXCEPT !.port[p] = AbsentPort, !.root_port = r]
<1>1. p \in Ports /\ p # NoPort
  BY DEF PortsOf, NoPort
<1>2. AbsentPort \in PortRecords /\ AbsentPort.state = "absent"
  BY TimersHold DEF AbsentPort, PortRecords, Infos
<1>3. DestroyPort(b, p) = t
  BY DEF DestroyPort, Sound, Bridges
<1>4. /\ t \in Bridges
      /\ t.port[p].state = "absent"
      /\ \A q \in Ports \ {p} : t.port[q] = b.port[q]
      /\ t.bridge_id = b.bridge_id
      /\ t.designated_root = b.designated_root
      /\ t.root_path_cost = b.root_path_cost
      /\ t.root_port = r
  <2>. HIDE DEF AbsentPort
  <2>. QED BY <1>1, <1>2 DEF Sound, Bridges
<1>5. /\ r = NoPort <=> b.root_port = NoPort
      /\ r \in Ports => r = b.root_port /\ r # p
      /\ r \in {NoPort, StalePort} \cup (PortsOf(b) \ {p})
  BY <1>1 DEF Sound, RootPortOK, NoPort, StalePort
<1>. HIDE DEF t, r
<1>6. /\ PortsOf(t) = PortsOf(b) \ {p}
      /\ EnabledPorts(t) = EnabledPorts(b) \ {p}
      /\ EnabledPorts(t) \subseteq Ports \ {p}
  BY <1>1, <1>4 DEF PortsOf, EnabledPorts
<1>7. \A q \in Ports \ {p} : IsDesignatedPort(t, q) <=> IsDesignatedPort(b, q)
  BY <1>4 DEF IsDesignatedPort
<1>8. RootPortOK(t)
  BY <1>4, <1>5, <1>6 DEF RootPortOK
<1>9. RootAgrees(t)
  <2>1. ASSUME r # NoPort, ~Orphan(t)
        PROVE  r \in Ports \ {p} /\ r = b.root_port /\ ~Orphan(b)
    BY <1>4, <1>5, <1>7, <2>1 DEF Orphan, PortsOf, StalePort
  <2>. QED BY <2>1, <1>4, <1>5 DEF Sound, RootAgrees
<1>10. PortsAgree(t)
  BY <1>4, <1>6, <1>7 DEF Sound, PortsAgree, OwnInfo
<1>11. RolesAgree(t)
  <2>1. ASSUME NEW q \in EnabledPorts(t)
        PROVE  q = r <=> q = b.root_port
    BY <1>5, <1>6 DEF r
  <2>. QED BY <2>1, <1>4, <1>6, <1>7 DEF Sound, RolesAgree
<1>12. HeardInfoIsTimed(t) /\ ProgressIsTimed(t)
  BY <1>4, <1>6, <1>7 DEF Sound, HeardInfoIsTimed, ProgressIsTimed
<1>. QED BY <1>3, <1>4, <1>8, <1>9, <1>10, <1>11, <1>12 DEF Sound

(***************************************************************************)
(* PortDisable changes the port and reconfigures.                          *)
(***************************************************************************)
LEMMA PortDisableReconfigures ==
  ASSUME NEW b, Sound(b), NEW p \in PortsOf(b), b.port[p].state # "disabled",
         NEW w
  PROVE  \E t : /\ Prepared(b, t) /\ HeardAlike(t)
                /\ t.bridge_id = b.bridge_id
                /\ PortDisable(b, p, w) = ReconfigureOrLead(t, w)
<1>. DEFINE y == Silenced(WithState(b.port[p], "disabled"))
            x == [y EXCEPT !.info = OwnInfo(b, p),
                           !.message_age_timer = Off,
                           !.forward_delay_timer = Off]
            t == [b EXCEPT !.port[p] = x]
<1>1. b \in Bridges /\ p \in Ports /\ b.port[p] \in PortRecords
  BY DEF Sound, PortsOf, Bridges
<1>2. y \in PortRecords /\ y.state = "disabled"
  BY <1>1 DEF Silenced, WithState, PortRecords, StpStates
<1>3. PortDisable(b, p, w) = ReconfigureOrLead(t, w)
  BY <1>1 DEF PortDisable
<1>. HIDE DEF y
<1>4. x \in PortRecords /\ x.state = "disabled"
  BY <1>1, <1>2, TimersHold DEF PortRecords, OwnInfo, Infos, Bridges
<1>. HIDE DEF x
<1>5. /\ t \in Bridges
      /\ t.port[p] = x
      /\ \A q \in Ports \ {p} : t.port[q] = b.port[q]
      /\ t.bridge_id = b.bridge_id
      /\ t.designated_root = b.designated_root
      /\ t.out = b.out /\ SameNews(b, t)
  BY <1>1, <1>4, PortReplaced
<1>. HIDE DEF t
<1>6. EnabledPorts(t) = EnabledPorts(b) \ {p} /\ EnabledPorts(b) \subseteq Ports
  BY <1>1, <1>4, <1>5 DEF EnabledPorts, PortsOf
<1>7. ForeignInfoIsTimed(t) /\ ProgressIsTimed(t)
  BY <1>5, <1>6 DEF Sound, HeardInfoIsTimed, ForeignInfoIsTimed,
                    ProgressIsTimed, IsDesignatedPort
<1>8. HeardAlike(t)
  BY <1>5, <1>6 DEF Sound, PortsAgree, HeardAlike
<1>. QED BY <1>3, <1>5, <1>7, <1>8 DEF Prepared, Updatable

(***************************************************************************)
(* PortDisable keeps a bridge sound.                                       *)
(***************************************************************************)
LEMMA PortDisableSound ==
  ASSUME NEW b, Sound(b), NEW p \in PortsOf(b), NEW w \in Whims
  PROVE  Sound(PortDisable(b, p, w))
<1>1. CASE b.port[p].state = "disabled"
  BY <1>1 DEF PortDisable
<1>2. CASE b.port[p].state # "disabled"
  BY <1>2, PortDisableReconfigures, ReconfigureOrLeadSound DEF Prepared
<1>. QED BY <1>1, <1>2

(***************************************************************************)
(* PortSetPathCost changes the port and reconfigures.                      *)
(***************************************************************************)
LEMMA PortSetPathCostReconfigures ==
  ASSUME NEW b, Sound(b), NEW p \in PortsOf(b), NEW cost \in Nat \ {0},
         b.port[p].path_cost # cost, NEW w
  PROVE  \E t : /\ Prepared(b, t) /\ HeardAlike(t)
                /\ t.bridge_id = b.bridge_id
                /\ PortSetPathCost(b, p, cost, w) = Reconfigure(t, w)
<1>. DEFINE x == [b.port[p] EXCEPT !.path_cost = cost]
            t == [b EXCEPT !.port[p] = x]
<1>1. b \in Bridges /\ p \in Ports /\ b.port[p] \in PortRecords
  BY DEF Sound, PortsOf, Bridges
<1>2. /\ x \in PortRecords
      /\ x.state = b.port[p].state /\ x.info = b.port[p].info
      /\ x.message_age_timer = b.port[p].message_age_timer
      /\ x.forward_delay_timer = b.port[p].forward_delay_timer
  BY <1>1 DEF PortRecords
<1>3. PortSetPathCost(b, p, cost, w) = Reconfigure(t, w)
  BY <1>1 DEF PortSetPathCost
<1>. HIDE DEF x
<1>4. /\ t \in Bridges
      /\ t.port[p] = x
      /\ \A q \in Ports \ {p} : t.port[q] = b.port[q]
      /\ t.bridge_id = b.bridge_id
      /\ t.designated_root = b.designated_root
      /\ t.out = b.out /\ SameNews(b, t)
  BY <1>1, <1>2, PortReplaced
<1>. HIDE DEF t
<1>5. EnabledPorts(t) = EnabledPorts(b) /\ EnabledPorts(b) \subseteq Ports
  BY <1>1, <1>2, <1>4 DEF EnabledPorts, PortsOf
<1>6. \A q \in Ports : IsDesignatedPort(t, q) <=> IsDesignatedPort(b, q)
  BY <1>2, <1>4 DEF IsDesignatedPort
<1>7. ForeignInfoIsTimed(t) /\ ProgressIsTimed(t)
  BY <1>2, <1>4, <1>5, <1>6 DEF Sound, HeardInfoIsTimed, ForeignInfoIsTimed,
                                ProgressIsTimed
<1>8. HeardAlike(t)
  BY <1>2, <1>4, <1>5 DEF Sound, PortsAgree, HeardAlike
<1>. QED BY <1>3, <1>4, <1>7, <1>8 DEF Prepared, Updatable

(***************************************************************************)
(* PortSetPathCost keeps a bridge sound.                                   *)
(***************************************************************************)
LEMMA PortSetPathCostSound ==
  ASSUME NEW b, Sound(b), NEW p \in PortsOf(b), NEW cost \in Nat \ {0},
         NEW w \in Whims
  PROVE  Sound(PortSetPathCost(b, p, cost, w))
<1>1. CASE b.port[p].path_cost = cost
  BY <1>1 DEF PortSetPathCost
<1>2. CASE b.port[p].path_cost # cost
  BY <1>2, PortSetPathCostReconfigures, ReconfigureSound DEF Prepared
<1>. QED BY <1>1, <1>2

(***************************************************************************)
(* BridgeId renames what the bridge says of itself and reconfigures.       *)
(***************************************************************************)
LEMMA BridgeIdReconfigures ==
  ASSUME NEW b, Sound(b), NEW new \in Nat, new # b.bridge_id, NEW w
  PROVE  \E t : /\ Prepared(b, t) /\ HeardAlike(t)
                /\ t.bridge_id = new
                /\ BridgeId(b, new, w) =
                     IF IsRootBridge(Reconfigure(t, w)) /\ ~IsRootBridge(b)
                     THEN BecomeRootBridge(Reconfigure(t, w), w)
                     ELSE Reconfigure(t, w)
<1>. DEFINE port == [p \in Ports |->
                       IF p \in EnabledPorts(b) /\ IsDesignatedPort(b, p)
                       THEN [b.port[p] EXCEPT !.info.bridge = new]
                       ELSE b.port[p]]
            t == [b EXCEPT !.port = port, !.bridge_id = new]
<1>1. b \in Bridges /\ \A p \in Ports : b.port[p] \in PortRecords
  BY DEF Sound, Bridges
<1>2. ASSUME NEW p \in Ports
      PROVE  /\ port[p] \in PortRecords
             /\ port[p].state = b.port[p].state
             /\ port[p].message_age_timer = b.port[p].message_age_timer
             /\ port[p].forward_delay_timer = b.port[p].forward_delay_timer
             /\ port[p].info.root = b.port[p].info.root
             /\ p \in EnabledPorts(b) /\ IsDesignatedPort(b, p)
                  => port[p].info.bridge = new /\ port[p].info.port = p
  <2>1. b.port[p].info \in Infos
    BY <1>1 DEF PortRecords
  <2>2. /\ [b.port[p].info EXCEPT !.bridge = new] \in Infos
        /\ [b.port[p].info EXCEPT !.bridge = new].root = b.port[p].info.root
        /\ [b.port[p].info EXCEPT !.bridge = new].bridge = new
        /\ [b.port[p].info EXCEPT !.bridge = new].port = b.port[p].info.port
    BY <2>1 DEF Infos
  <2>. QED BY <1>1, <2>2 DEF PortRecords, IsDesignatedPort
<1>3. port \in [Ports -> PortRecords]
  BY <1>2
<1>4. BridgeId(b, new, w) =
        IF IsRootBridge(Reconfigure(t, w)) /\ ~IsRootBridge(b)
        THEN BecomeRootBridge(Reconfigure(t, w), w)
        ELSE Reconfigure(t, w)
  BY DEF BridgeId
<1>. HIDE DEF port
<1>5. /\ t \in Bridges /\ t.port = port /\ t.bridge_id = new
      /\ t.designated_root = b.designated_root
      /\ t.out = b.out /\ SameNews(b, t)
  BY <1>1, <1>3 DEF Bridges, SameNews
<1>. HIDE DEF t
<1>6. EnabledPorts(t) = EnabledPorts(b) /\ EnabledPorts(b) \subseteq Ports
  BY <1>2, <1>5 DEF EnabledPorts, PortsOf
<1>7. ForeignInfoIsTimed(t)
  BY <1>2, <1>5, <1>6 DEF Sound, HeardInfoIsTimed, ForeignInfoIsTimed,
                          IsDesignatedPort
<1>8. ProgressIsTimed(t)
  BY <1>2, <1>5, <1>6 DEF Sound, ProgressIsTimed
<1>9. HeardAlike(t)
  BY <1>2, <1>5, <1>6 DEF Sound, PortsAgree, HeardAlike
<1>. QED BY <1>4, <1>5, <1>7, <1>8, <1>9 DEF Prepared, Updatable

(***************************************************************************)
(* BridgeId keeps a bridge sound.                                          *)
(***************************************************************************)
LEMMA BridgeIdSound ==
  ASSUME NEW b, Sound(b), NEW new \in Nat, NEW w \in Whims
  PROVE  Sound(BridgeId(b, new, w))
<1>1. CASE new = b.bridge_id
  BY <1>1 DEF BridgeId
<1>2. CASE new # b.bridge_id
  <2>1. PICK t : /\ Prepared(b, t)
                 /\ \/ BridgeId(b, new, w) = Reconfigure(t, w)
                    \/ BridgeId(b, new, w) = BecomeRootBridge(Reconfigure(t, w), w)
    BY <1>2, BridgeIdReconfigures
  <2>2. Sound(Reconfigure(t, w))
    BY <2>1, ReconfigureSound DEF Prepared
  <2>3. Sound(BecomeRootBridge(Reconfigure(t, w), w))
    BY <2>2, BecomeRootBridgeKeeps, SameStandingSound DEF Sound
  <2>. QED BY <2>1, <2>2, <2>3
<1>. QED BY <1>1, <1>2

(***************************************************************************)
(* The setters of the times keep a bridge sound.                           *)
(***************************************************************************)
LEMMA SetBridgeTimesSound ==
  ASSUME NEW b, Sound(b), NEW times \in Times
  PROVE  Sound(SetBridgeTimes(b, times))
<1>1. SetBridgeTimes(b, times) \in Bridges /\ SameStanding(b, SetBridgeTimes(b, times))
  BY DEF Sound, SetBridgeTimes, Bridges, SameStanding, SamePort
<1>. QED BY <1>1, SameStandingSound

(***************************************************************************)
(* What a config BPDU says is recorded for a time.                         *)
(***************************************************************************)
LEMMA RecordedPrepared ==
  ASSUME NEW b, Sound(b), NEW p \in EnabledPorts(b), NEW c \in ConfigContents
  PROVE  LET t == RecordConfigInformation(b, p, c)
         IN  /\ Prepared(b, t)
             /\ t.bridge_id = b.bridge_id
             /\ p \in EnabledPorts(t)
             /\ t.port[p].info = [root |-> c.root, cost |-> c.cost,
                                  bridge |-> c.bridge, port |-> c.port]
             /\ \A q \in EnabledPorts(t) \ {p} :
                  t.port[q].info = b.port[q].info /\ q \in EnabledPorts(b)
<1>. DEFINE info == [root |-> c.root, cost |-> c.cost,
                     bridge |-> c.bridge, port |-> c.port]
            x == [b.port[p] EXCEPT !.info = info,
                                   !.message_age_timer = c.message_age]
            t == [b EXCEPT !.port[p] = x]
<1>1. b \in Bridges /\ p \in Ports /\ b.port[p] \in PortRecords
  BY DEF Sound, EnabledPorts, PortsOf, Bridges
<1>2. info \in Infos /\ c.message_age \in Nat
  BY DEF ConfigContents, Infos
<1>3. RecordConfigInformation(b, p, c) = t
  BY <1>1 DEF RecordConfigInformation, Bridges, PortRecords
<1>. HIDE DEF info
<1>4. /\ x \in PortRecords
      /\ x.state = b.port[p].state
      /\ x.info = info
      /\ x.forward_delay_timer = b.port[p].forward_delay_timer
      /\ x.message_age_timer = c.message_age
  <2>1. c.message_age \in Timers
    BY <1>2, TimersHold
  <2>. QED BY <1>1, <1>2, <2>1 DEF PortRecords
<1>. HIDE DEF x
<1>5. Running(x.message_age_timer)
  BY <1>2, <1>4, TimersHold
<1>6. /\ t \in Bridges
      /\ t.port[p] = x
      /\ \A q \in Ports \ {p} : t.port[q] = b.port[q]
      /\ t.bridge_id = b.bridge_id
      /\ t.designated_root = b.designated_root
      /\ t.out = b.out /\ SameNews(b, t)
  BY <1>1, <1>4, PortReplaced
<1>. HIDE DEF t
<1>7. EnabledPorts(t) = EnabledPorts(b) /\ EnabledPorts(b) \subseteq Ports
  BY <1>1, <1>4, <1>6 DEF EnabledPorts, PortsOf
<1>8. \A q \in Ports \ {p} : IsDesignatedPort(t, q) <=> IsDesignatedPort(b, q)
  BY <1>6 DEF IsDesignatedPort
<1>9. ForeignInfoIsTimed(t)
  BY <1>5, <1>6, <1>7, <1>8 DEF Sound, HeardInfoIsTimed, ForeignInfoIsTimed
<1>10. ProgressIsTimed(t)
  BY <1>4, <1>6, <1>7 DEF Sound, ProgressIsTimed
<1>. QED BY <1>3, <1>4, <1>6, <1>7, <1>9, <1>10 DEF Prepared, Updatable, info

(***************************************************************************)
(* Whatever BPDU arrives, a sound bridge stays sound.                      *)
(***************************************************************************)
LEMMA ReceivedBpduSound ==
  ASSUME NEW b, Sound(b), NEW p \in PortsOf(b), NEW w \in Whims,
         NEW c \in ConfigContents \cup OtherContents
  PROVE  Sound(ReceivedBpdu(b, p, c, w))
<1>0. b \in Bridges /\ p \in Ports /\ b.port[p] \in PortRecords
  BY DEF Sound, PortsOf, Bridges
<1>1. CASE b.port[p].state = "disabled" \/ c.type = "malformed"
  BY <1>1 DEF ReceivedBpdu
<1>2. CASE b.port[p].state # "disabled" /\ c.type = "tcn"
  <2>1. ReceivedBpdu(b, p, c, w) = ReceivedTcnBpdu(b, p, w)
    BY <1>2 DEF ReceivedBpdu
  <2>2. /\ TopologyChangeDetection(b, w) \in Bridges
        /\ SameStanding(b, TopologyChangeDetection(b, w))
    BY <1>0, TopologyChangeDetectionKeeps
  <2>3. /\ ReceivedTcnBpdu(b, p, w) \in Bridges
        /\ SameStanding(b, ReceivedTcnBpdu(b, p, w)) \/ ReceivedTcnBpdu(b, p, w) = b
    BY <1>0, <2>2, AcknowledgeTopologyChangeKeeps, SameStandingTransitive
       DEF ReceivedTcnBpdu
  <2>. QED BY <2>1, <2>3, SameStandingSound
<1>3. CASE b.port[p].state # "disabled" /\ c.type \notin {"malformed", "tcn"}
  <2>. DEFINE recorded == RecordConfigInformation(b, p, c)
              selected == Reconfigure(recorded, w)
              yielded == IF ~IsRootBridge(selected) /\ IsRootBridge(b)
                         THEN YieldRoot(selected, w)
                         ELSE selected
  <2>1. c \in ConfigContents /\ c.type = "config"
    BY <1>3 DEF ConfigContents, OtherContents
  <2>2. ReceivedBpdu(b, p, c, w) = ReceivedConfigBpdu(b, p, c, w)
    BY <1>3, <2>1 DEF ReceivedBpdu
  <2>3. Updatable(recorded)
    BY <1>0, <1>3, <2>1, RecordedPrepared DEF Prepared, EnabledPorts
  <2>. HIDE DEF recorded
  <2>4. Sound(selected)
    BY <2>3, ReconfigureSound
  <2>5. AcceptConfig(b, p, c, w) = IF p = yielded.root_port
                                   THEN FollowRoot(yielded, c, w) ELSE yielded
    BY DEF AcceptConfig, recorded
  <2>. HIDE DEF selected
  <2>6. Sound(yielded)
    BY <2>4, YieldRootKeeps, SameStandingSound DEF Sound
  <2>. HIDE DEF yielded
  <2>7. Sound(FollowRoot(yielded, c, w))
    BY <2>1, <2>6, FollowRootKeeps, SameStandingSound DEF Sound
  <2>8. Sound(AcceptConfig(b, p, c, w))
    BY <2>5, <2>6, <2>7
  <2>9. Sound(TransmitConfigs(b, {p}, w))
    BY <1>0, TransmitConfigsKeeps, SameStandingSound
  <2>. QED BY <2>2, <2>8, <2>9 DEF ReceivedConfigBpdu
<1>. QED BY <1>1, <1>2, <1>3

-----------------------------------------------------------------------------
(***************************************************************************)
(* The steps of a tick: they also leave the set of enabled ports alone.    *)
(***************************************************************************)
LEMMA MessageAgeTickReconfigures ==
  ASSUME NEW b, Sound(b), NEW p \in EnabledPorts(b), NEW ticks \in Int, NEW w,
         TimerExpired(b.port[p].message_age_timer, ticks, b.times.max_age)
  PROVE  \E t : /\ Prepared(b, t) /\ HeardAlike(t)
                /\ t.bridge_id = b.bridge_id
                /\ EnabledPorts(t) = EnabledPorts(b)
                /\ MessageAgeTick(b, p, ticks, w) = ReconfigureOrLead(t, w)
<1>. DEFINE timer == TimerAfter(b.port[p].message_age_timer, ticks, b.times.max_age)
            x == [b.port[p] EXCEPT !.message_age_timer = timer]
            aged == [b EXCEPT !.port[p] = x]
            y == [x EXCEPT !.info = OwnInfo(aged, p)]
            own == [aged EXCEPT !.port[p] = y]
<1>1. b \in Bridges /\ p \in Ports /\ b.port[p] \in PortRecords
  BY DEF Sound, EnabledPorts, PortsOf, Bridges
<1>2. timer \in Timers
  <2>1. b.port[p].message_age_timer \in Timers
    BY <1>1 DEF PortRecords
  <2>. QED BY <2>1, TimerAfterShape
<1>3. MessageAgeTick(b, p, ticks, w) = MessageAgeTimerExpiry(aged, p, w)
  BY <1>1 DEF MessageAgeTick, Bridges, PortRecords
<1>. HIDE DEF timer
<1>4. /\ x \in PortRecords
      /\ x.state = b.port[p].state
      /\ x.forward_delay_timer = b.port[p].forward_delay_timer
  BY <1>1, <1>2 DEF PortRecords
<1>. HIDE DEF x
<1>5. /\ aged \in Bridges
      /\ \A q \in Ports \ {p} : aged.port[q] = b.port[q]
      /\ aged.bridge_id = b.bridge_id
      /\ aged.designated_root = b.designated_root
      /\ aged.out = b.out /\ SameNews(b, aged)
  BY <1>1, <1>4, PortReplaced
<1>6. aged.port[p] = x
  BY <1>1, <1>4, PortReplaced
<1>. HIDE DEF aged
<1>7. BecomeDesignatedPort(aged, p) = own
  BY <1>1, <1>5, <1>6 DEF BecomeDesignatedPort, Bridges
<1>8. /\ y \in PortRecords /\ y.state = x.state /\ y.info = OwnInfo(aged, p)
      /\ y.forward_delay_timer = x.forward_delay_timer
  BY <1>1, <1>4, <1>5 DEF PortRecords, OwnInfo, Infos, Bridges
<1>. HIDE DEF y
<1>9. /\ own \in Bridges
      /\ own.port[p] = y
      /\ \A q \in Ports \ {p} : own.port[q] = b.port[q]
      /\ own.bridge_id = b.bridge_id
      /\ own.designated_root = b.designated_root
      /\ own.out = b.out /\ SameNews(b, own)
  BY <1>1, <1>5, <1>8, PortReplaced DEF SameNews
<1>. HIDE DEF own
<1>10. EnabledPorts(own) = EnabledPorts(b) /\ EnabledPorts(b) \subseteq Ports
  BY <1>1, <1>4, <1>8, <1>9 DEF EnabledPorts, PortsOf
<1>11. IsDesignatedPort(own, p)
  BY <1>5, <1>8, <1>9 DEF IsDesignatedPort, OwnInfo
<1>12. ForeignInfoIsTimed(own)
  BY <1>9, <1>10, <1>11 DEF Sound, HeardInfoIsTimed, ForeignInfoIsTimed,
                            IsDesignatedPort
<1>13. ProgressIsTimed(own)
  BY <1>4, <1>8, <1>9, <1>10 DEF Sound, ProgressIsTimed
<1>14. HeardAlike(own)
  <2>1. own.port[p].info.root = own.designated_root
    BY <1>5, <1>8, <1>9 DEF OwnInfo
  <2>. QED BY <2>1, <1>9, <1>10 DEF Sound, PortsAgree, HeardAlike
<1>15. MessageAgeTick(b, p, ticks, w) = ReconfigureOrLead(own, w)
  BY <1>3, <1>7 DEF MessageAgeTimerExpiry
<1>. QED BY <1>9, <1>10, <1>12, <1>13, <1>14, <1>15 DEF Prepared, Updatable

(***************************************************************************)
(* A message age timer keeps a bridge sound.                               *)
(***************************************************************************)
LEMMA MessageAgeTickSound ==
  ASSUME NEW b, Sound(b), NEW p \in EnabledPorts(b), NEW ticks \in Int,
         NEW w \in Whims
  PROVE  /\ Sound(MessageAgeTick(b, p, ticks, w))
         /\ EnabledPorts(MessageAgeTick(b, p, ticks, w)) = EnabledPorts(b)
<1>. DEFINE timer == TimerAfter(b.port[p].message_age_timer, ticks, b.times.max_age)
            expired == TimerExpired(b.port[p].message_age_timer, ticks, b.times.max_age)
            x == [b.port[p] EXCEPT !.message_age_timer = timer]
            aged == [b EXCEPT !.port[p] = x]
<1>1. b \in Bridges /\ p \in Ports /\ b.port[p] \in PortRecords
  BY DEF Sound, EnabledPorts, PortsOf, Bridges
<1>2. /\ timer \in Timers
      /\ Running(timer) <=> Running(b.port[p].message_age_timer) /\ ~expired
  <2>1. b.port[p].message_age_timer \in Timers
    BY <1>1 DEF PortRecords
  <2>. QED BY <2>1, TimerAfterShape
<1>3. MessageAgeTick(b, p, ticks, w)
        = IF expired THEN MessageAgeTimerExpiry(aged, p, w) ELSE aged
  BY <1>1 DEF MessageAgeTick, Bridges, PortRecords
<1>. HIDE DEF timer, expired
<1>4. /\ x \in PortRecords
      /\ x.state = b.port[p].state /\ x.info = b.port[p].info
      /\ x.path_cost = b.port[p].path_cost
      /\ x.message_age_timer = timer
      /\ x.forward_delay_timer = b.port[p].forward_delay_timer
  BY <1>1, <1>2 DEF PortRecords
<1>. HIDE DEF x
<1>5. /\ aged \in Bridges
      /\ aged.port[p] = x
      /\ \A q \in Ports \ {p} : aged.port[q] = b.port[q]
      /\ aged.bridge_id = b.bridge_id
      /\ aged.designated_root = b.designated_root
      /\ aged.root_path_cost = b.root_path_cost
      /\ aged.root_port = b.root_port
  BY <1>1, <1>4, PortReplaced
<1>. HIDE DEF aged
<1>6. /\ PortsOf(aged) = PortsOf(b) /\ EnabledPorts(aged) = EnabledPorts(b)
      /\ EnabledPorts(b) \subseteq Ports
      /\ \A q \in Ports : IsDesignatedPort(aged, q) <=> IsDesignatedPort(b, q)
  BY <1>1, <1>4, <1>5 DEF PortsOf, EnabledPorts, IsDesignatedPort
<1>7. CASE ~expired
  <2>1. \A q \in Ports : /\ aged.port[q].state = b.port[q].state
                         /\ aged.port[q].info = b.port[q].info
                         /\ aged.port[q].path_cost = b.port[q].path_cost
                         /\ Running(aged.port[q].message_age_timer)
                              <=> Running(b.port[q].message_age_timer)
                         /\ aged.port[q].forward_delay_timer
                               = b.port[q].forward_delay_timer
    BY <1>2, <1>4, <1>5, <1>7
  <2>2. RootPortOK(aged)
    BY <1>5, <1>6 DEF Sound, RootPortOK
  <2>3. RootAgrees(aged)
    <3>1. ASSUME b.root_port # NoPort, ~Orphan(aged)
          PROVE  ~Orphan(b) /\ b.root_port \in Ports
      BY <1>5, <1>6, <3>1 DEF Sound, RootPortOK, Orphan, PortsOf
    <3>. QED BY <3>1, <2>1, <1>5 DEF Sound, RootAgrees
  <2>4. PortsAgree(aged)
    BY <2>1, <1>5, <1>6 DEF Sound, PortsAgree, OwnInfo
  <2>5. RolesAgree(aged)
    BY <2>1, <1>5, <1>6 DEF Sound, RolesAgree
  <2>6. HeardInfoIsTimed(aged)
    BY <2>1, <1>6 DEF Sound, HeardInfoIsTimed
  <2>7. ProgressIsTimed(aged)
    BY <2>1, <1>6 DEF Sound, ProgressIsTimed
  <2>. QED BY <2>2, <2>3, <2>4, <2>5, <2>6, <2>7, <1>3, <1>5, <1>6, <1>7 DEF Sound
<1>8. CASE expired
  BY <1>8, MessageAgeTickReconfigures, ReconfigureOrLeadSound DEF Prepared, expired
<1>. QED BY <1>7, <1>8

(***************************************************************************)
(* The forward delay timer of a port keeps a bridge sound.                 *)
(***************************************************************************)
LEMMA ForwardDelayTickSound ==
  ASSUME NEW b, Sound(b), NEW p \in EnabledPorts(b), NEW ticks \in Int,
         NEW w
  PROVE  /\ Sound(ForwardDelayTick(b, p, ticks, w))
         /\ EnabledPorts(ForwardDelayTick(b, p, ticks, w)) = EnabledPorts(b)
         /\ ForwardDelayTick(b, p, ticks, w).designated_root = b.designated_root
<1>. DEFINE timer == TimerAfter(b.port[p].forward_delay_timer, ticks, b.times.forward_delay)
            expired == TimerExpired(b.port[p].forward_delay_timer, ticks, b.times.forward_delay)
            x == [b.port[p] EXCEPT !.forward_delay_timer = timer]
            aged == [b EXCEPT !.port[p] = x]
            On(z) == [b EXCEPT !.port[p] = z]
<1>1. b \in Bridges /\ p \in Ports /\ b.port[p] \in PortRecords
  BY DEF Sound, EnabledPorts, PortsOf, Bridges
<1>2. /\ timer \in Timers
      /\ Running(timer) <=> Running(b.port[p].forward_delay_timer) /\ ~expired
  <2>1. b.port[p].forward_delay_timer \in Timers
    BY <1>1 DEF PortRecords
  <2>. QED BY <2>1, TimerAfterShape
<1>3. /\ Running(b.port[p].forward_delay_timer)
          <=> b.port[p].state \in {"listening", "learning"}
      /\ expired => Running(b.port[p].forward_delay_timer)
      /\ b.port[p].state \notin {"absent", "disabled"}
  BY DEF Sound, ProgressIsTimed, EnabledPorts, PortsOf, expired, TimerExpired
<1>4. ForwardDelayTick(b, p, ticks, w)
        = IF expired THEN ForwardDelayTimerExpiry(aged, p, w) ELSE aged
  BY <1>1 DEF ForwardDelayTick, Bridges, PortRecords
<1>. HIDE DEF timer, expired
<1>5. /\ x \in PortRecords
      /\ x.state = b.port[p].state /\ x.info = b.port[p].info
      /\ x.path_cost = b.port[p].path_cost
      /\ x.message_age_timer = b.port[p].message_age_timer
      /\ x.forward_delay_timer = timer
  BY <1>1, <1>2 DEF PortRecords
<1>. HIDE DEF x
<1>10. aged.port[p] = x /\ \A z : [aged EXCEPT !.port[p] = z] = On(z)
  BY <1>1 DEF Bridges
(* A port may move among the three states that are not blocking. *)
<1>6. ASSUME NEW z \in PortRecords,
             z.state = b.port[p].state
               \/ {z.state, b.port[p].state} \subseteq {"listening", "learning", "forwarding"},
             z.info = b.port[p].info, z.path_cost = b.port[p].path_cost,
             z.message_age_timer = b.port[p].message_age_timer,
             Running(z.forward_delay_timer) <=> z.state \in {"listening", "learning"}
      PROVE  /\ Sound(On(z)) /\ EnabledPorts(On(z)) = EnabledPorts(b)
             /\ On(z).designated_root = b.designated_root
  <2>. DEFINE t == On(z)
  <2>1. /\ t \in Bridges
        /\ t.port[p] = z
        /\ \A q \in Ports \ {p} : t.port[q] = b.port[q]
        /\ t.bridge_id = b.bridge_id
        /\ t.designated_root = b.designated_root
        /\ t.root_path_cost = b.root_path_cost
        /\ t.root_port = b.root_port
    BY <1>1, PortReplaced
  <2>. HIDE DEF t
  <2>2. \A q \in Ports : /\ t.port[q].state = "blocking" <=> b.port[q].state = "blocking"
                         /\ t.port[q].state = "absent" <=> b.port[q].state = "absent"
                         /\ t.port[q].state = "disabled" <=> b.port[q].state = "disabled"
                         /\ t.port[q].info = b.port[q].info
                         /\ t.port[q].path_cost = b.port[q].path_cost
                         /\ t.port[q].message_age_timer = b.port[q].message_age_timer
    BY <1>6, <2>1
  <2>3. /\ PortsOf(t) = PortsOf(b) /\ EnabledPorts(t) = EnabledPorts(b)
        /\ EnabledPorts(b) \subseteq Ports
        /\ \A q \in Ports : IsDesignatedPort(t, q) <=> IsDesignatedPort(b, q)
    BY <2>1, <2>2 DEF PortsOf, EnabledPorts, IsDesignatedPort
  <2>4. RootPortOK(t)
    BY <2>1, <2>3 DEF Sound, RootPortOK
  <2>5. RootAgrees(t)
    <3>1. ASSUME b.root_port # NoPort, ~Orphan(t)
          PROVE  ~Orphan(b) /\ b.root_port \in Ports
      BY <2>1, <2>3, <3>1 DEF Sound, RootPortOK, Orphan, PortsOf
    <3>. QED BY <3>1, <2>1, <2>2 DEF Sound, RootAgrees
  <2>6. PortsAgree(t)
    BY <2>1, <2>2, <2>3 DEF Sound, PortsAgree, OwnInfo
  <2>7. RolesAgree(t)
    BY <2>1, <2>2, <2>3 DEF Sound, RolesAgree
  <2>8. HeardInfoIsTimed(t)
    BY <2>2, <2>3 DEF Sound, HeardInfoIsTimed
  <2>9. ProgressIsTimed(t)
    BY <1>6, <2>1, <2>3 DEF Sound, ProgressIsTimed
  <2>. QED BY <2>1, <2>3, <2>4, <2>5, <2>6, <2>7, <2>8, <2>9 DEF Sound, t
<1>7. CASE ~expired
  <2>1. /\ Sound(On(x)) /\ EnabledPorts(On(x)) = EnabledPorts(b)
        /\ On(x).designated_root = b.designated_root
    BY <1>2, <1>3, <1>5, <1>6, <1>7
  <2>. QED BY <2>1, <1>4, <1>7
<1>8. CASE expired /\ b.port[p].state = "listening"
  <2>. DEFINE z == [WithState(x, "learning") EXCEPT !.forward_delay_timer = 0]
  <2>1. ForwardDelayTick(b, p, ticks, w) = On(z)
    <3>1. ForwardDelayTimerExpiry(aged, p, w) = [aged EXCEPT !.port[p] = z]
      BY <1>10, <1>5, <1>8 DEF ForwardDelayTimerExpiry
    <3>. QED BY <3>1, <1>4, <1>8, <1>10
  <2>2. /\ z \in PortRecords /\ z.state = "learning"
        /\ z.info = x.info /\ z.path_cost = x.path_cost
        /\ z.message_age_timer = x.message_age_timer
        /\ z.forward_delay_timer = 0
    <3>1. 0 \in Timers
      BY TimersHold
    <3>. QED BY <1>5, <3>1 DEF WithState, PortRecords, StpStates
  <2>. HIDE DEF z
  <2>3. /\ Sound(On(z)) /\ EnabledPorts(On(z)) = EnabledPorts(b)
        /\ On(z).designated_root = b.designated_root
    BY <1>5, <1>6, <1>8, <2>2, TimersHold
  <2>. QED BY <2>1, <2>3
<1>9. CASE expired /\ b.port[p].state = "learning"
  <2>. DEFINE z == WithState(x, "forwarding")
  <2>1. \/ ForwardDelayTick(b, p, ticks, w) = On(z)
        \/ ForwardDelayTick(b, p, ticks, w) = TopologyChangeDetection(On(z), w)
    <3>. DEFINE open == [aged EXCEPT !.port[p] = z]
    <3>1. \/ ForwardDelayTimerExpiry(aged, p, w) = open
          \/ ForwardDelayTimerExpiry(aged, p, w) = TopologyChangeDetection(open, w)
      BY <1>10, <1>5, <1>9 DEF ForwardDelayTimerExpiry
    <3>2. open = On(z)
      BY <1>10
    <3>. HIDE DEF open, z, On
    <3>. QED BY <3>1, <3>2, <1>4, <1>9
  <2>2. /\ z \in PortRecords /\ z.state = "forwarding"
        /\ z.info = x.info /\ z.path_cost = x.path_cost
        /\ z.message_age_timer = x.message_age_timer
        /\ z.forward_delay_timer = x.forward_delay_timer
    BY <1>5 DEF WithState, PortRecords, StpStates
  <2>. HIDE DEF z
  <2>3. /\ Sound(On(z)) /\ EnabledPorts(On(z)) = EnabledPorts(b)
        /\ On(z).designated_root = b.designated_root
    BY <1>2, <1>5, <1>6, <1>9, <2>2
  <2>. HIDE DEF On
  <2>4. /\ Sound(TopologyChangeDetection(On(z), w))
        /\ EnabledPorts(TopologyChangeDetection(On(z), w)) = EnabledPorts(On(z))
        /\ TopologyChangeDetection(On(z), w).designated_root = b.designated_root
    BY <2>3, TopologyChangeDetectionKeeps, SameStandingSound, SameSets
       DEF Sound, SameStanding
  <2>. QED BY <2>1, <2>3, <2>4
<1>. QED BY <1>3, <1>7, <1>8, <1>9

(***************************************************************************)
(* The hold timer of a port changes no role and no state.                  *)
(***************************************************************************)
LEMMA HoldTickKeeps ==
  ASSUME NEW b \in Bridges, NEW p \in Ports, NEW ticks \in Int, NEW w \in Whims
  PROVE  /\ HoldTick(b, p, ticks, w) \in Bridges
         /\ SameStanding(b, HoldTick(b, p, ticks, w))
<1>. DEFINE timer == TimerAfter(b.port[p].hold_timer, ticks, HoldTime)
            x == [b.port[p] EXCEPT !.hold_timer = timer]
            aged == [b EXCEPT !.port[p] = x]
<1>1. b.port[p] \in PortRecords
  BY DEF Bridges
<1>2. timer \in Timers
  BY <1>1, TimerAfterShape DEF PortRecords
<1>3. \/ HoldTick(b, p, ticks, w) = aged
      \/ HoldTick(b, p, ticks, w) = TransmitConfigs(aged, {p}, w)
  BY <1>1 DEF HoldTick, Bridges, PortRecords
<1>. HIDE DEF timer
<1>4. x \in PortRecords /\ SamePort(b.port[p], x)
  BY <1>1, <1>2 DEF PortRecords, SamePort
<1>. HIDE DEF x
<1>5. aged \in Bridges /\ SameStanding(b, aged)
  BY <1>4 DEF Bridges, SameStanding, SamePort
<1>. HIDE DEF aged
<1>. QED BY <1>3, <1>5, TransmitConfigsKeeps, SameStandingTransitive

(***************************************************************************)
(* Both together keep a bridge sound.                                      *)
(***************************************************************************)
LEMMA PortTickSound ==
  ASSUME NEW b, Sound(b), NEW p \in EnabledPorts(b), NEW ticks \in Int,
         NEW w \in Whims
  PROVE  /\ Sound(PortTick(b, p, ticks, w))
         /\ EnabledPorts(PortTick(b, p, ticks, w)) = EnabledPorts(b)
<1>. DEFINE t == ForwardDelayTick(b, p, ticks, w)
<1>1. Sound(t) /\ EnabledPorts(t) = EnabledPorts(b) /\ p \in Ports
  BY ForwardDelayTickSound DEF EnabledPorts, PortsOf
<1>2. PortTick(b, p, ticks, w) = HoldTick(t, p, ticks, w)
  BY DEF PortTick
<1>. HIDE DEF t
<1>3. HoldTick(t, p, ticks, w) \in Bridges /\ SameStanding(t, HoldTick(t, p, ticks, w))
  BY <1>1, HoldTickKeeps DEF Sound
<1>. QED BY <1>1, <1>2, <1>3, SameStandingSound, SameSets

-----------------------------------------------------------------------------
(***************************************************************************)
(* The outcomes of undefined behaviour that are considered are some of     *)
(* those that may be.                                                      *)
(***************************************************************************)
LEMMA OutcomesAreWhims ==
  ASSUME NEW b
  PROVE  Outcomes(b) \subseteq Whims
<1>. SUFFICES ASSUME NEW w \in Outcomes(b) PROVE w \in Whims
  OBVIOUS
<1>1. /\ w = [late |-> w.late, age |-> w.age, target |-> w.target]
      /\ w.late \in {FALSE} \cup {b.port[p].state = "blocking" : p \in Ports}
      /\ w.age \in IF Orphan(b) THEN Ages ELSE {0}
      /\ w.target \in {NoPort} \cup (IF b.root_port = StalePort THEN Ports ELSE {})
  BY Zenon DEF Outcomes
<1>2. w.late \in BOOLEAN
  BY <1>1, Zenon
<1>3. w.age \in Nat
  BY <1>1, AgesAssumption
<1>4. w.target \in Ports \cup {NoPort}
  BY <1>1
<1>. QED BY <1>1, <1>2, <1>3, <1>4, Zenon DEF Whims

(***************************************************************************)
(* Forgetting what was sent keeps a bridge sound.                          *)
(***************************************************************************)
LEMMA QuietSound ==
  ASSUME NEW b, Sound(b)
  PROVE  /\ Sound(Quiet(b))
         /\ PortsOf(Quiet(b)) = PortsOf(b)
         /\ EnabledPorts(Quiet(b)) = EnabledPorts(b)
  BY QuietKeeps, SameStandingSound, SameSets DEF Sound

-----------------------------------------------------------------------------
(***************************************************************************)
(* Only designated ports owe a BPDU or an acknowledgement; what was sent   *)
(* fits the roles, and says what the bridge believes.                      *)
(***************************************************************************)
OwesByRole(b) ==
  \A p \in EnabledPorts(b) :
    b.port[p].config_pending \/ b.port[p].topology_change_ack
      => IsDesignatedPort(b, p)

Believed(b, bpdu) ==
  /\ bpdu.root = b.designated_root /\ bpdu.cost = b.root_path_cost
  /\ bpdu.bridge = b.bridge_id /\ bpdu.port = bpdu.via

SpokeByRole(b) ==
  \A bpdu \in b.out :
    /\ bpdu.type = "config" =>
         /\ bpdu.via \in EnabledPorts(b) /\ IsDesignatedPort(b, bpdu.via)
         /\ b.port[bpdu.via].state # "blocking"
         /\ Believed(b, bpdu)
    /\ bpdu.type = "tcn" /\ ~Orphan(b) => bpdu.via = b.root_port

TalksByRole(b) == OwesByRole(b) /\ SpokeByRole(b)

(***************************************************************************)
(* A root sends hellos, and stops to announce a change in the end.         *)
(***************************************************************************)
Leading(b) ==
  /\ Running(b.hello_timer)
  /\ b.topology_change => Running(b.topology_change_timer)

Leads(b) == IsRootBridge(b) => Leading(b)

(***************************************************************************)
(* A change that was detected is on its way to the root, or is announced   *)
(* by it; no timer of either kind runs without one.                        *)
(***************************************************************************)
Carries(b) ==
  /\ b.topology_change_detected /\ ~IsRootBridge(b) <=> Running(b.tcn_timer)
  /\ b.topology_change_detected /\ IsRootBridge(b)
       <=> Running(b.topology_change_timer)

(***************************************************************************)
(* What is left of that while the root changes: a bridge that knows of no  *)
(* change has no such timer running.                                       *)
(***************************************************************************)
Ignorant(b) ==
  ~b.topology_change_detected =>
    ~Running(b.tcn_timer) /\ ~Running(b.topology_change_timer)

(***************************************************************************)
(* All that t has sent and b has not are TCNs to the root.                 *)
(***************************************************************************)
AddsTcns(b, t) ==
  \A bpdu \in t.out \ b.out :
    bpdu.type = "tcn" /\ (~Orphan(b) => bpdu.via = b.root_port)

USE PortsAssumption, HoldTimeAssumption, AgeIncrementAssumption

(***************************************************************************)
(* Bridges in the same standing have the same roles.                       *)
(***************************************************************************)
LEMMA SameRoles ==
  ASSUME NEW b, NEW t, SameStanding(b, t)
  PROVE  /\ Orphan(t) <=> Orphan(b)
         /\ IsRootBridge(t) <=> IsRootBridge(b)
  BY SameSets DEF Orphan, IsRootBridge, SameStanding

(***************************************************************************)
(* The same news, told from the same role, are led and carried alike.      *)
(***************************************************************************)
LEMMA SameNewsKeeps ==
  ASSUME NEW b, NEW t, SameNews(b, t), IsRootBridge(t) <=> IsRootBridge(b)
  PROVE  /\ Leads(b) => Leads(t)
         /\ Carries(b) => Carries(t)
         /\ Ignorant(b) => Ignorant(t)
  BY DEF SameNews, Leads, Leading, Carries, Ignorant

LEMMA SameNewsTransitive ==
  ASSUME NEW b, NEW t, NEW u, SameNews(b, t), SameNews(t, u)
  PROVE  SameNews(b, u)
  BY DEF SameNews

(***************************************************************************)
(* TCNs to the root fit the roles.                                         *)
(***************************************************************************)
LEMMA AddedTcnsByRole ==
  ASSUME NEW b \in Bridges, NEW t, SameStanding(b, t), AddsTcns(b, t), SpokeByRole(b)
  PROVE  SpokeByRole(t)
<1>. SUFFICES ASSUME NEW bpdu \in t.out
              PROVE  /\ bpdu.type = "config" =>
                          /\ bpdu.via \in EnabledPorts(t)
                          /\ IsDesignatedPort(t, bpdu.via)
                          /\ t.port[bpdu.via].state # "blocking"
                          /\ Believed(t, bpdu)
                     /\ bpdu.type = "tcn" /\ ~Orphan(t) => bpdu.via = t.root_port
  BY DEF SpokeByRole
<1>1. Orphan(t) <=> Orphan(b)
  BY SameRoles
<1>2. CASE bpdu \notin b.out
  BY <1>1, <1>2 DEF AddsTcns, SameStanding
<1>3. CASE bpdu \in b.out
  <2>1. bpdu.via \in Ports
    BY <1>3 DEF Bridges, SentBpdus
  <2>2. /\ IsDesignatedPort(t, bpdu.via) <=> IsDesignatedPort(b, bpdu.via)
        /\ t.port[bpdu.via].state = b.port[bpdu.via].state
        /\ t.root_port = b.root_port
        /\ EnabledPorts(t) = EnabledPorts(b)
        /\ Believed(t, bpdu) <=> Believed(b, bpdu)
    BY <2>1, SameSets DEF SameStanding, SamePort, Believed
  <2>. QED BY <1>1, <1>3, <2>2 DEF SpokeByRole
<1>. QED BY <1>2, <1>3

-----------------------------------------------------------------------------
(***************************************************************************)
(* Sending.                                                                *)
(***************************************************************************)
LEMMA TransmitTcnSays ==
  ASSUME NEW b \in Bridges, NEW w
  PROVE  /\ SameNews(b, TransmitTcn(b, w))
         /\ AddsTcns(b, TransmitTcn(b, w))
<1>. DEFINE p == IF b.root_port = StalePort THEN w.target ELSE b.root_port
            t == [b EXCEPT !.out = @ \cup {Tcn(p)}]
<1>1. TransmitTcn(b, w) = t \/ TransmitTcn(b, w) = b
  BY DEF TransmitTcn, SendBPDU
<1>2. SameNews(b, t) /\ t.out = b.out \cup {Tcn(p)}
  BY DEF SameNews, Bridges
<1>3. Tcn(p).type = "tcn" /\ (~Orphan(b) => Tcn(p).via = b.root_port)
  BY DEF Tcn, Orphan
<1>. HIDE DEF t, p
<1>. QED BY <1>1, <1>2, <1>3 DEF SameNews, AddsTcns

(***************************************************************************)
(* TransmitConfig on designated ports.                                     *)
(***************************************************************************)
LEMMA TransmitConfigsSays ==
  ASSUME NEW b \in Bridges, NEW w \in Whims, NEW P \in SUBSET EnabledPorts(b),
         \A p \in P : IsDesignatedPort(b, p)
  PROVE  /\ SameNews(b, TransmitConfigs(b, P, w))
         /\ OwesByRole(b) => OwesByRole(TransmitConfigs(b, P, w))
         /\ SpokeByRole(b) => SpokeByRole(TransmitConfigs(b, P, w))
<1>. DEFINE held == {p \in P : Running(b.port[p].hold_timer)}
            sending == {p \in P \ held : MessageAge(b, w) < b.times.max_age}
            port == [p \in Ports |->
                 IF p \in held
                 THEN [b.port[p] EXCEPT !.config_pending = TRUE]
                 ELSE IF p \in sending
                 THEN [b.port[p] EXCEPT !.topology_change_ack = FALSE,
                                        !.config_pending = FALSE,
                                        !.hold_timer = 0]
                 ELSE b.port[p]]
            new == {ConfigBpdu(b, p, w) : p \in
                 {q \in sending : ~stp_blocking_in_state(b.port[q].state)}}
            t == [b EXCEPT !.port = port, !.out = @ \cup new]
<1>. P \subseteq Ports
  BY DEF EnabledPorts, PortsOf
<1>1. CASE ~IsRootBridge(b) /\ b.root_port = NoPort
  BY <1>1 DEF TransmitConfigs, SameNews
<1>2. CASE ~(~IsRootBridge(b) /\ b.root_port = NoPort)
  <2>1. TransmitConfigs(b, P, w) = t
    BY <1>2 DEF TransmitConfigs
  <2>2. SameStanding(b, t)
    BY <2>1, TransmitConfigsKeeps
  <2>3. /\ SameNews(b, t) /\ t.port = port /\ t.out = b.out \cup new
    <3>. HIDE DEF port, new
    <3>. QED BY DEF SameNews, Bridges
  <2>4. \A p \in Ports \ P : port[p] = b.port[p]
    OBVIOUS
  <2>5. ASSUME NEW bpdu \in new
        PROVE  /\ bpdu.type = "config"
               /\ IsDesignatedPort(b, bpdu.via)
               /\ b.port[bpdu.via].state # "blocking"
               /\ bpdu.via \in EnabledPorts(b) /\ bpdu.via \in Ports
               /\ Believed(b, bpdu)
    BY DEF ConfigBpdu, stp_blocking_in_state, Believed
  <2>. HIDE DEF port, new, t
  <2>6. /\ EnabledPorts(t) = EnabledPorts(b)
        /\ \A p \in Ports : IsDesignatedPort(t, p) <=> IsDesignatedPort(b, p)
        /\ Orphan(t) <=> Orphan(b)
        /\ \A bpdu : Believed(t, bpdu) <=> Believed(b, bpdu)
    BY <2>2, SameSets, SameRoles DEF SameStanding, Believed
  <2>7. OwesByRole(b) => OwesByRole(t)
    BY <2>3, <2>4, <2>6 DEF OwesByRole, EnabledPorts, PortsOf
  <2>8. ASSUME SpokeByRole(b), NEW bpdu \in t.out
        PROVE  /\ bpdu.type = "config" =>
                    /\ bpdu.via \in EnabledPorts(t)
                    /\ IsDesignatedPort(t, bpdu.via)
                    /\ t.port[bpdu.via].state # "blocking"
                    /\ Believed(t, bpdu)
               /\ bpdu.type = "tcn" /\ ~Orphan(t) => bpdu.via = t.root_port
    <3>1. bpdu.via \in Ports
      BY <2>3, <2>5, <2>8 DEF Bridges, SentBpdus
    <3>2. /\ t.port[bpdu.via].state = b.port[bpdu.via].state
          /\ t.root_port = b.root_port
      BY <3>1, <2>2 DEF SameStanding, SamePort
    <3>3. CASE bpdu \in new
      BY <3>1, <3>2, <3>3, <2>5, <2>6
    <3>4. CASE bpdu \in b.out
      BY <3>1, <3>2, <3>4, <2>6, <2>8 DEF SpokeByRole
    <3>. QED BY <3>3, <3>4, <2>3, <2>8
  <2>9. SpokeByRole(b) => SpokeByRole(t)
    BY <2>8 DEF SpokeByRole
  <2>. QED BY <2>1, <2>3, <2>7, <2>9
<1>. QED BY <1>1, <1>2

LEMMA ConfigBpduGenerationSays ==
  ASSUME NEW b \in Bridges, NEW w \in Whims
  PROVE  /\ SameNews(b, ConfigBpduGeneration(b, w))
         /\ TalksByRole(b) => TalksByRole(ConfigBpduGeneration(b, w))
  BY TransmitConfigsSays DEF ConfigBpduGeneration, EnabledPorts, PortsOf, TalksByRole

-----------------------------------------------------------------------------
(***************************************************************************)
(* A detected change.                                                      *)
(***************************************************************************)
LEMMA TopologyChangeDetectionSays ==
  ASSUME NEW b \in Bridges, NEW w
  PROVE  LET t == TopologyChangeDetection(b, w)
         IN  /\ t.topology_change_detected
             /\ IsRootBridge(b) => Running(t.topology_change_timer)
             /\ AddsTcns(b, t)
             /\ Leads(b) => Leads(t)
             /\ Carries(b) => Carries(t)
             /\ Ignorant(t)
             /\ TalksByRole(b) => TalksByRole(t)
<1>. DEFINE sent == TransmitTcn(b, w)
            lead == [b EXCEPT !.topology_change = TRUE, !.topology_change_timer = 0]
            ask == [sent EXCEPT !.tcn_timer = 0]
            told == IF IsRootBridge(b) THEN lead
                    ELSE IF ~b.topology_change_detected THEN ask ELSE b
            t == [told EXCEPT !.fdb_needs_flush = TRUE,
                              !.topology_change_detected = TRUE]
            Says == /\ t.topology_change_detected
                    /\ IsRootBridge(b) => Running(t.topology_change_timer)
                    /\ AddsTcns(b, t)
                    /\ Leads(b) => Leads(t)
                    /\ Carries(b) => Carries(t)
                    /\ Ignorant(t)
<1>1. TopologyChangeDetection(b, w) = t
  BY DEF TopologyChangeDetection
<1>2. /\ t \in Bridges /\ SameStanding(b, t) /\ t.port = b.port
      /\ IsRootBridge(t) <=> IsRootBridge(b)
  <2>. HIDE DEF t
  <2>. QED BY <1>1, TopologyChangeDetectionKeeps, SameRoles
<1>3. sent \in Bridges /\ SameNews(b, sent) /\ AddsTcns(b, sent)
  BY TransmitTcnKeeps, TransmitTcnSays
<1>. HIDE DEF sent
<1>4. ASSUME IsRootBridge(b) PROVE Says
  <2>1. /\ t.topology_change_detected
        /\ t.topology_change_timer = 0
        /\ t.hello_timer = b.hello_timer /\ t.tcn_timer = b.tcn_timer
        /\ t.out = b.out
    BY <1>4 DEF Bridges
  <2>. HIDE DEF t
  <2>2. AddsTcns(b, t)
    BY <2>1 DEF AddsTcns
  <2>. QED BY <1>2, <1>4, <2>1, <2>2, TimersHold DEF Leads, Leading, Carries, Ignorant
<1>5. ASSUME ~IsRootBridge(b) /\ ~b.topology_change_detected PROVE Says
  <2>1. /\ t.topology_change_detected
        /\ t.topology_change_timer = b.topology_change_timer
        /\ t.tcn_timer = 0
        /\ t.out = sent.out
    BY <1>3, <1>5 DEF Bridges, SameNews
  <2>. HIDE DEF t
  <2>2. AddsTcns(b, t)
    BY <1>3, <2>1 DEF AddsTcns
  <2>. QED BY <1>2, <1>5, <2>1, <2>2, TimersHold DEF Leads, Leading, Carries, Ignorant
<1>6. ASSUME ~IsRootBridge(b) /\ b.topology_change_detected PROVE Says
  <2>1. /\ t.topology_change_detected
        /\ t.topology_change_timer = b.topology_change_timer
        /\ t.tcn_timer = b.tcn_timer
        /\ t.out = b.out
    BY <1>6 DEF Bridges
  <2>. HIDE DEF t
  <2>2. AddsTcns(b, t)
    BY <2>1 DEF AddsTcns
  <2>. QED BY <1>2, <1>6, <2>1, <2>2 DEF Leads, Leading, Carries, Ignorant
<1>. HIDE DEF t
<1>7. ASSUME OwesByRole(b) PROVE OwesByRole(t)
  <2>1. EnabledPorts(t) = EnabledPorts(b)
    BY <1>2, SameSets
  <2>. QED BY <1>2, <1>7, <2>1, SameSets DEF OwesByRole, EnabledPorts, PortsOf
<1>8. AddsTcns(b, t) => (SpokeByRole(b) => SpokeByRole(t))
  BY <1>2, AddedTcnsByRole
<1>. QED BY <1>1, <1>4, <1>5, <1>6, <1>7, <1>8 DEF TalksByRole

(***************************************************************************)
(* Only a designated port that is not the root port still owes something   *)
(* once its state is selected.                                             *)
(***************************************************************************)
LEMMA SelectedPortOwes ==
  ASSUME NEW b \in Bridges, NEW p \in EnabledPorts(b),
         SelectedPort(b, p).config_pending \/ SelectedPort(b, p).topology_change_ack
  PROVE  IsDesignatedPort(b, p)
<1>. DEFINE x == b.port[p]
<1>1. x \in PortRecords /\ p \in Ports
  BY DEF Bridges, EnabledPorts, PortsOf
<1>2. /\ Silenced(x) \in PortRecords
      /\ ~Silenced(x).config_pending /\ ~Silenced(x).topology_change_ack
  BY <1>1 DEF Silenced, PortRecords
<1>3. ASSUME NEW y \in PortRecords
      PROVE  /\ MakeForwarding(y).config_pending = y.config_pending
             /\ MakeForwarding(y).topology_change_ack = y.topology_change_ack
             /\ MakeBlocking(y).config_pending = y.config_pending
             /\ MakeBlocking(y).topology_change_ack = y.topology_change_ack
  BY DEF MakeForwarding, MakeBlocking, WithState, PortRecords
<1>4. ASSUME ~IsDesignatedPort(b, p)
      PROVE  SelectedPort(b, p) \in {MakeForwarding(Silenced(x)), MakeBlocking(Silenced(x))}
  BY <1>4 DEF SelectedPort
<1>. HIDE DEF x
<1>. QED BY <1>2, <1>3, <1>4

(***************************************************************************)
(* After PortStateSelection nothing is owed or was sent out of role,       *)
(* whatever was before.                                                    *)
(***************************************************************************)
LEMMA PortStateSelectionSays ==
  ASSUME NEW b \in Bridges, b.out = {}, NEW w \in Whims
  PROVE  LET t == PortStateSelection(b, w)
         IN  /\ TalksByRole(t)
             /\ Leads(b) => Leads(t)
             /\ Carries(b) => Carries(t)
             /\ Ignorant(b) => Ignorant(t)
<1>. DEFINE selected == [p \in Ports |-> SelectedPort(b, p)]
            before == IF w.late THEN b ELSE [b EXCEPT !.port = selected]
            detected == TopologyChangeDetection(before, w)
            t == PortStateSelection(b, w)
<1>1. selected \in [Ports -> PortRecords]
  BY SelectedPortAgrees
<1>2. /\ t \in Bridges
      /\ t.bridge_id = b.bridge_id
      /\ t.designated_root = b.designated_root
      /\ t.root_port = b.root_port
      /\ t.port = selected
  BY PortStateSelectionShape
<1>3. \A p \in Ports : t.port[p] = SelectedPort(b, p)
  <2>. HIDE DEF t
  <2>. QED BY <1>2
<1>4. \/ t = [detected EXCEPT !.port = selected]
      \/ t = [b EXCEPT !.port = selected]
  BY DEF PortStateSelection
<1>5. \A p \in Ports : IsDesignatedPort(t, p) <=> IsDesignatedPort(b, p)
  <2>1. \A p \in Ports : t.port[p].info = b.port[p].info
    <3>. HIDE DEF t
    <3>. QED BY <1>3, SelectedPortAgrees
  <2>. QED BY <1>2, <2>1 DEF IsDesignatedPort
<1>6. OwesByRole(t)
  <2>1. ASSUME NEW p \in EnabledPorts(t), p \notin EnabledPorts(b)
        PROVE  FALSE
    <3>1. p \in Ports /\ t.port[p].state \notin {"absent", "disabled"}
      BY DEF EnabledPorts, PortsOf
    <3>2. t.port[p] = b.port[p]
      <4>. HIDE DEF t
      <4>1. SelectedPort(b, p) = b.port[p]
        BY <3>1, <2>1, SelectedPortAgrees
      <4>. QED BY <3>1, <4>1, <1>3
    <3>. QED BY <3>1, <3>2, <2>1 DEF EnabledPorts, PortsOf
  <2>2. ASSUME NEW p \in EnabledPorts(t)
        PROVE  t.port[p] = SelectedPort(b, p) /\ p \in EnabledPorts(b) /\ p \in Ports
    <3>. HIDE DEF t
    <3>. QED BY <1>2, <2>1 DEF EnabledPorts, PortsOf
  <2>. HIDE DEF t
  <2>. QED BY <2>2, <1>5, SelectedPortOwes DEF OwesByRole
<1>7. /\ before \in Bridges /\ SameNews(b, before) /\ before.out = {}
      /\ before.root_port = b.root_port
      /\ IsRootBridge(before) <=> IsRootBridge(b)
  <2>. HIDE DEF selected
  <2>. QED BY <1>1 DEF Bridges, SameNews, IsRootBridge
<1>8. \A p \in Ports : IsDesignatedPort(before, p) <=> IsDesignatedPort(b, p)
  <2>1. \A p \in Ports : before.port[p].info = b.port[p].info
    BY SelectedPortAgrees DEF Bridges
  <2>2. before.bridge_id = b.bridge_id
    BY DEF Bridges
  <2>. QED BY <2>1, <2>2 DEF IsDesignatedPort
<1>. HIDE DEF before
<1>9. /\ detected \in Bridges /\ SameStanding(before, detected)
      /\ AddsTcns(before, detected)
      /\ Leads(before) => Leads(detected)
      /\ Carries(before) => Carries(detected)
      /\ Ignorant(before) => Ignorant(detected)
  BY <1>7, TopologyChangeDetectionKeeps, TopologyChangeDetectionSays
<1>. HIDE DEF detected, selected
<1>10. CASE t = [detected EXCEPT !.port = selected]
  <2>1. /\ SameNews(detected, t) /\ t.out = detected.out
        /\ t.bridge_id = detected.bridge_id
        /\ t.designated_root = detected.designated_root
    BY <1>9, <1>10 DEF Bridges, SameNews
  <2>. HIDE DEF t
  <2>2. /\ IsRootBridge(t) <=> IsRootBridge(detected)
        /\ IsRootBridge(detected) <=> IsRootBridge(before)
    BY <1>9, <2>1, SameRoles DEF IsRootBridge
  <2>3. /\ Leads(b) => Leads(t)
        /\ Carries(b) => Carries(t)
        /\ Ignorant(b) => Ignorant(t)
    BY <1>7, <1>9, <2>1, <2>2, SameNewsKeeps
  <2>4. Orphan(t) <=> Orphan(before)
    BY <1>2, <1>5, <1>7, <1>8 DEF Orphan
  <2>5. SpokeByRole(t)
    BY <1>2, <1>7, <1>9, <2>1, <2>4 DEF AddsTcns, SpokeByRole
  <2>. QED BY <1>6, <2>3, <2>5 DEF TalksByRole, t
<1>11. CASE t = [b EXCEPT !.port = selected]
  <2>1. SameNews(b, t) /\ t.out = {} /\ (IsRootBridge(t) <=> IsRootBridge(b))
    BY <1>11 DEF Bridges, SameNews, IsRootBridge
  <2>. HIDE DEF t
  <2>2. SpokeByRole(t)
    BY <2>1 DEF SpokeByRole
  <2>. QED BY <1>6, <2>1, <2>2, SameNewsKeeps DEF TalksByRole, t
<1>. QED BY <1>4, <1>10, <1>11

-----------------------------------------------------------------------------
(***************************************************************************)
(* Reconfiguring.                                                          *)
(***************************************************************************)
LEMMA ConfigurationUpdateSays ==
  ASSUME NEW b \in Bridges
  PROVE  LET t == ConfigurationUpdate(b)
         IN  /\ SameNews(b, t)
             /\ t.out = b.out
             /\ t.bridge_id = b.bridge_id
             /\ t.designated_root = RootSelection(b).designated_root
<1>. DEFINE r == RootSelection(b)
            port == [p \in Ports |->
                       IF p \in EnabledPorts(r) /\ ServesSegment(r, p)
                       THEN [r.port[p] EXCEPT !.info = OwnInfo(r, p)]
                       ELSE r.port[p]]
            t == [r EXCEPT !.port = port]
<1>1. r \in Bridges /\ r.bridge_id = b.bridge_id
  BY RootSelectionSelects
<1>2. SameNews(b, r) /\ r.out = b.out
  BY DEF RootSelection, SameNews, Bridges
<1>3. ConfigurationUpdate(b) = t
  BY DEF ConfigurationUpdate, DesignatedPortSelection
<1>. HIDE DEF r, port
<1>4. /\ SameNews(r, t) /\ t.out = r.out
      /\ t.bridge_id = r.bridge_id /\ t.designated_root = r.designated_root
  BY <1>1 DEF SameNews, Bridges
<1>. QED BY <1>1, <1>2, <1>3, <1>4, SameNewsTransitive DEF r

(***************************************************************************)
(* A bridge is the root after it reconfigured exactly when no port of it   *)
(* had heard of a better one.                                              *)
(***************************************************************************)
LEMMA ReconfigureChoosesRoot ==
  ASSUME NEW b, Updatable(b), NEW w \in Whims
  PROVE  /\ Reconfigure(b, w).bridge_id = b.bridge_id
         /\ IsRootBridge(Reconfigure(b, w)) <=> RootCandidates(b) = {}
<1>. DEFINE u == ConfigurationUpdate(b)
<1>1. b \in Bridges
  BY DEF Updatable
<1>2. /\ u \in Bridges /\ u.bridge_id = b.bridge_id
      /\ u.designated_root = RootSelection(b).designated_root
  BY <1>1, ConfigurationUpdateAgrees, ConfigurationUpdateSays DEF Selectable, Updatable
<1>. HIDE DEF u
<1>3. /\ Reconfigure(b, w).bridge_id = u.bridge_id
      /\ Reconfigure(b, w).designated_root = u.designated_root
  BY <1>2, PortStateSelectionShape DEF Reconfigure, u
<1>4. CASE RootCandidates(b) = {}
  <2>1. RootSelection(b).designated_root = b.bridge_id
    BY <1>1, <1>4 DEF RootSelection, Bridges
  <2>. QED BY <2>1, <1>2, <1>3, <1>4 DEF IsRootBridge
<1>5. CASE RootCandidates(b) # {}
  <2>1. BestRootPort(b) \in RootCandidates(b)
    BY <1>1, <1>5, BestRootPortIsCandidate
  <2>2. RootSelection(b).designated_root = b.port[BestRootPort(b)].info.root
    BY <1>1, <1>5 DEF RootSelection, Bridges
  <2>3. BestRootPort(b) \in Ports /\ b.port[BestRootPort(b)].info.root < b.bridge_id
    BY <2>1 DEF RootCandidates, EnabledPorts, PortsOf
  <2>4. b.bridge_id \in Nat /\ b.port[BestRootPort(b)].info.root \in Nat
    <3>1. b.port[BestRootPort(b)] \in PortRecords
      BY <1>1, <2>3 DEF Bridges
    <3>. QED BY <1>1, <3>1 DEF Bridges, PortRecords, Infos
  <2>. QED BY <2>2, <2>3, <2>4, <1>2, <1>3, <1>5 DEF IsRootBridge
<1>. QED BY <1>2, <1>3, <1>4, <1>5

(***************************************************************************)
(* Reconfigure leaves nothing owed or said out of role; what the bridge    *)
(* leads and carries suffers only when its own role changes.               *)
(***************************************************************************)
LEMMA ReconfigureSays ==
  ASSUME NEW b, Updatable(b), b.out = {}, NEW w \in Whims
  PROVE  LET t == Reconfigure(b, w)
         IN  /\ TalksByRole(t)
             /\ Ignorant(b) => Ignorant(t)
             /\ Leading(b) => Leads(t)
             /\ (IsRootBridge(t) <=> IsRootBridge(b)) =>
                  /\ Leads(b) => Leads(t)
                  /\ Carries(b) => Carries(t)
<1>. DEFINE u == ConfigurationUpdate(b)
            t == PortStateSelection(u, w)
<1>1. u \in Bridges /\ SameNews(b, u) /\ u.out = {}
  BY ConfigurationUpdateAgrees, ConfigurationUpdateSays DEF Selectable, Updatable
<1>. HIDE DEF u
<1>2. /\ TalksByRole(t)
      /\ Leads(u) => Leads(t)
      /\ Carries(u) => Carries(t)
      /\ Ignorant(u) => Ignorant(t)
      /\ t.bridge_id = u.bridge_id /\ t.designated_root = u.designated_root
  BY <1>1, PortStateSelectionSays, PortStateSelectionShape
<1>3. IsRootBridge(t) <=> IsRootBridge(u)
  <2>. HIDE DEF t
  <2>. QED BY <1>2 DEF IsRootBridge
<1>4. Reconfigure(b, w) = t
  BY DEF Reconfigure, u
<1>. HIDE DEF t
<1>5. /\ Ignorant(b) => Ignorant(u)
      /\ Leading(b) => Leads(u)
  BY <1>1 DEF SameNews, Ignorant, Leads, Leading
<1>. QED BY <1>1, <1>2, <1>3, <1>4, <1>5, SameNewsKeeps

(***************************************************************************)
(* A bridge that becomes the root leads, and announces the change that     *)
(* this is.                                                                *)
(***************************************************************************)
LEMMA BecomeRootBridgeSays ==
  ASSUME NEW b \in Bridges, NEW w \in Whims, IsRootBridge(b)
  PROVE  LET t == BecomeRootBridge(b, w)
         IN  /\ Leads(t)
             /\ Carries(t)
             /\ TalksByRole(b) => TalksByRole(t)
<1>. DEFINE owning == [b EXCEPT !.times = b.bridge_times]
            told == TopologyChangeDetection(owning, w)
            detected == [told EXCEPT !.tcn_timer = Off]
            spread == ConfigBpduGeneration(detected, w)
            t == [spread EXCEPT !.hello_timer = 0]
<1>1. BecomeRootBridge(b, w) = t
  BY DEF BecomeRootBridge
<1>2. /\ owning \in Bridges /\ IsRootBridge(owning)
      /\ TalksByRole(b) => TalksByRole(owning)
  BY DEF Bridges, IsRootBridge, TalksByRole, OwesByRole, SpokeByRole,
     EnabledPorts, PortsOf, IsDesignatedPort, Orphan, Believed
<1>. HIDE DEF owning
<1>3. /\ told \in Bridges /\ IsRootBridge(told)
      /\ told.topology_change_detected
      /\ Running(told.topology_change_timer)
      /\ TalksByRole(owning) => TalksByRole(told)
  BY <1>2, TopologyChangeDetectionKeeps, TopologyChangeDetectionSays, SameRoles
<1>. HIDE DEF told
<1>4. /\ detected \in Bridges /\ IsRootBridge(detected)
      /\ detected.topology_change_detected
      /\ Running(detected.topology_change_timer)
      /\ ~Running(detected.tcn_timer)
      /\ TalksByRole(told) => TalksByRole(detected)
  BY <1>3, TimersHold DEF Bridges, IsRootBridge, TalksByRole, OwesByRole,
     SpokeByRole, EnabledPorts, PortsOf, IsDesignatedPort, Orphan, Believed
<1>. HIDE DEF detected
<1>5. /\ spread \in Bridges /\ SameStanding(detected, spread)
      /\ SameNews(detected, spread)
      /\ TalksByRole(detected) => TalksByRole(spread)
  BY <1>4, ConfigBpduGenerationKeeps, ConfigBpduGenerationSays
<1>. HIDE DEF spread
<1>6. /\ IsRootBridge(t) /\ t.hello_timer = 0
      /\ t.topology_change_detected
      /\ Running(t.topology_change_timer)
      /\ ~Running(t.tcn_timer)
  BY <1>4, <1>5 DEF Bridges, SameStanding, SameNews, IsRootBridge
<1>8. TalksByRole(spread) => TalksByRole(t)
  <2>1. /\ t.port = spread.port /\ t.out = spread.out
        /\ t.bridge_id = spread.bridge_id /\ t.root_port = spread.root_port
        /\ t.designated_root = spread.designated_root
        /\ t.root_path_cost = spread.root_path_cost
    BY <1>5 DEF Bridges
  <2>. HIDE DEF t
  <2>. QED BY <2>1 DEF TalksByRole, OwesByRole, SpokeByRole, EnabledPorts,
                       PortsOf, IsDesignatedPort, Orphan, Believed
<1>. HIDE DEF t
<1>7. Leads(t) /\ Carries(t)
  BY <1>6, TimersHold DEF Leads, Leading, Carries
<1>. QED BY <1>1, <1>2, <1>3, <1>4, <1>5, <1>6, <1>7, <1>8

(***************************************************************************)
(* What the message age timers and a disabled port lead to.                *)
(***************************************************************************)
LEMMA ReconfigureOrLeadSays ==
  ASSUME NEW b, Updatable(b), b.out = {}, NEW w \in Whims
  PROVE  LET t == ReconfigureOrLead(b, w)
         IN  /\ t.bridge_id = b.bridge_id
             /\ TalksByRole(t)
             /\ Leads(b) => Leads(t)
             /\ (IsRootBridge(b) => RootCandidates(b) = {})
                  => (Carries(b) => Carries(t))
<1>. DEFINE next == Reconfigure(b, w)
<1>1. /\ next \in Bridges /\ next.bridge_id = b.bridge_id
      /\ TalksByRole(next)
      /\ (IsRootBridge(next) <=> IsRootBridge(b)) =>
                  /\ Leads(b) => Leads(next)
                  /\ Carries(b) => Carries(next)
      /\ IsRootBridge(next) <=> RootCandidates(b) = {}
  BY ReconfigureSound, ReconfigureSays, ReconfigureChoosesRoot DEF Sound
<1>2. ReconfigureOrLead(b, w) = IF IsRootBridge(next) /\ ~IsRootBridge(b)
                                THEN BecomeRootBridge(next, w) ELSE next
  BY DEF ReconfigureOrLead
<1>. HIDE DEF next
<1>3. CASE IsRootBridge(next) /\ ~IsRootBridge(b)
  BY <1>1, <1>2, <1>3, BecomeRootBridgeSays, BecomeRootBridgeKeeps DEF SameStanding
<1>4. CASE ~(IsRootBridge(next) /\ ~IsRootBridge(b))
  <2>1. Leads(b) => Leads(next)
    BY <1>1, <1>4 DEF Leads
  <2>. QED BY <1>1, <1>2, <1>4, <2>1
<1>. QED BY <1>3, <1>4

-----------------------------------------------------------------------------
(***************************************************************************)
(* Bridges that owe the same, have the same roles, and sent the same.      *)
(***************************************************************************)
SameSpeech(b, t) ==
  /\ t.bridge_id = b.bridge_id
  /\ t.designated_root = b.designated_root
  /\ t.root_path_cost = b.root_path_cost
  /\ t.root_port = b.root_port
  /\ t.out = b.out
  /\ \A p \in Ports :
       /\ t.port[p].info = b.port[p].info
       /\ t.port[p].config_pending = b.port[p].config_pending
       /\ t.port[p].topology_change_ack = b.port[p].topology_change_ack
       /\ \A state \in {"absent", "disabled", "blocking"} :
            t.port[p].state = state <=> b.port[p].state = state

LEMMA SameSpeechKeeps ==
  ASSUME NEW b \in Bridges, NEW t, SameSpeech(b, t)
  PROVE  /\ IsRootBridge(t) <=> IsRootBridge(b)
         /\ TalksByRole(b) => TalksByRole(t)
<1>1. /\ EnabledPorts(t) = EnabledPorts(b) /\ EnabledPorts(b) \subseteq Ports
      /\ \A p \in Ports : IsDesignatedPort(t, p) <=> IsDesignatedPort(b, p)
  BY DEF SameSpeech, EnabledPorts, PortsOf, IsDesignatedPort
<1>2. OwesByRole(b) => OwesByRole(t)
  BY <1>1 DEF SameSpeech, OwesByRole
<1>3. Orphan(t) <=> Orphan(b)
  BY <1>1 DEF SameSpeech, Orphan
<1>4. \A bpdu \in b.out : bpdu.via \in Ports
  BY DEF Bridges, SentBpdus
<1>5. SpokeByRole(b) => SpokeByRole(t)
  BY <1>1, <1>3, <1>4 DEF SameSpeech, SpokeByRole, Believed
<1>6. IsRootBridge(t) <=> IsRootBridge(b)
  BY DEF SameSpeech, IsRootBridge
<1>. QED BY <1>2, <1>5, <1>6 DEF TalksByRole

(***************************************************************************)
(* A root that yields carries the change it was announcing on to the new   *)
(* root.                                                                   *)
(***************************************************************************)
LEMMA YieldRootSays ==
  ASSUME NEW b \in Bridges, NEW w, ~IsRootBridge(b)
  PROVE  LET t == YieldRoot(b, w)
         IN  /\ Ignorant(b) => Carries(t)
             /\ TalksByRole(b) => TalksByRole(t)
<1>. DEFINE quiet == [b EXCEPT !.hello_timer = Off]
            sent == TransmitTcn(quiet, w)
            asked == [sent EXCEPT !.topology_change_timer = Off, !.tcn_timer = 0]
<1>1. YieldRoot(b, w) = IF b.topology_change_detected THEN asked ELSE quiet
  BY DEF YieldRoot
<1>2. /\ quiet \in Bridges /\ SameSpeech(b, quiet)
      /\ quiet.topology_change_detected = b.topology_change_detected
      /\ quiet.tcn_timer = b.tcn_timer
      /\ quiet.topology_change_timer = b.topology_change_timer
  BY TimersHold DEF Bridges, SameSpeech
<1>. HIDE DEF quiet
<1>3. /\ ~IsRootBridge(quiet)
      /\ TalksByRole(b) => TalksByRole(quiet)
      /\ Ignorant(b) => Ignorant(quiet)
  BY <1>2, SameSpeechKeeps DEF Ignorant
<1>4. /\ sent \in Bridges /\ SameStanding(quiet, sent) /\ sent.port = quiet.port
      /\ SameNews(quiet, sent) /\ AddsTcns(quiet, sent)
  BY <1>2, TransmitTcnKeeps, TransmitTcnSays
<1>. HIDE DEF sent
<1>5. TalksByRole(quiet) => TalksByRole(sent)
  <2>1. SpokeByRole(quiet) => SpokeByRole(sent)
    BY <1>2, <1>4, AddedTcnsByRole
  <2>2. OwesByRole(quiet) => OwesByRole(sent)
    BY <1>4, SameSets DEF OwesByRole, EnabledPorts, PortsOf
  <2>. QED BY <2>1, <2>2 DEF TalksByRole
<1>6. /\ SameSpeech(sent, asked)
      /\ asked.topology_change_detected = sent.topology_change_detected
      /\ asked.tcn_timer = 0
      /\ asked.topology_change_timer = Off
  BY <1>4 DEF Bridges, SameSpeech
<1>. HIDE DEF asked
<1>7. ~IsRootBridge(asked) /\ (TalksByRole(sent) => TalksByRole(asked))
  BY <1>3, <1>4, <1>6, SameSpeechKeeps, SameRoles
<1>8. CASE b.topology_change_detected
  <2>1. Carries(asked)
    BY <1>2, <1>4, <1>6, <1>7, <1>8, TimersHold DEF SameNews, Carries
  <2>. QED BY <1>1, <1>3, <1>5, <1>7, <1>8, <2>1
<1>9. CASE ~b.topology_change_detected
  <2>1. Ignorant(b) => Carries(quiet)
    BY <1>2, <1>3, <1>9 DEF Carries, Ignorant
  <2>. QED BY <1>1, <1>3, <1>9, <2>1
<1>. QED BY <1>8, <1>9

(***************************************************************************)
(* Relaying what the root says passes on an acknowledgement too.           *)
(***************************************************************************)
LEMMA FollowRootSays ==
  ASSUME NEW b \in Bridges, NEW c \in ConfigContents, NEW w \in Whims,
         ~IsRootBridge(b)
  PROVE  LET t == FollowRoot(b, c, w)
         IN  /\ Carries(b) => Carries(t)
             /\ TalksByRole(b) => TalksByRole(t)
<1>. DEFINE told == [b EXCEPT !.times = c.times, !.topology_change = c.tc]
            relayed == ConfigBpduGeneration(told, w)
            settled == IF c.tca THEN TopologyChangeAcknowledged(relayed)
                       ELSE relayed
            t == [settled EXCEPT !.fdb_needs_flush = @ \/ c.tc]
<1>1. FollowRoot(b, c, w) = t
  BY DEF FollowRoot
<1>2. /\ told \in Bridges /\ SameSpeech(b, told)
      /\ told.topology_change_detected = b.topology_change_detected
      /\ told.tcn_timer = b.tcn_timer
      /\ told.topology_change_timer = b.topology_change_timer
  BY DEF Bridges, ConfigContents, SameSpeech
<1>. HIDE DEF told
<1>3. /\ ~IsRootBridge(told)
      /\ TalksByRole(b) => TalksByRole(told)
      /\ Carries(b) => Carries(told)
  BY <1>2, SameSpeechKeeps DEF Carries
<1>4. /\ relayed \in Bridges /\ SameStanding(told, relayed)
      /\ SameNews(told, relayed)
      /\ TalksByRole(told) => TalksByRole(relayed)
  BY <1>2, ConfigBpduGenerationKeeps, ConfigBpduGenerationSays
<1>. HIDE DEF relayed
<1>5. /\ ~IsRootBridge(relayed)
      /\ Carries(told) => Carries(relayed)
  BY <1>3, <1>4, SameRoles, SameNewsKeeps
<1>6. /\ settled \in Bridges /\ SameSpeech(relayed, settled)
      /\ settled.topology_change_timer = relayed.topology_change_timer
      /\ IF c.tca THEN ~settled.topology_change_detected /\ settled.tcn_timer = Off
         ELSE /\ settled.topology_change_detected = relayed.topology_change_detected
              /\ settled.tcn_timer = relayed.tcn_timer
  BY <1>4, TimersHold DEF TopologyChangeAcknowledged, Bridges, SameSpeech,
     SameStanding, SamePort
<1>. HIDE DEF settled
<1>7. ~IsRootBridge(settled)
  BY <1>4, <1>5, <1>6, SameSpeechKeeps
<1>8. Carries(relayed) => Carries(settled)
  BY <1>5, <1>6, <1>7, TimersHold DEF Carries
<1>9. /\ SameSpeech(settled, t)
      /\ t.topology_change_detected = settled.topology_change_detected
      /\ t.tcn_timer = settled.tcn_timer
      /\ t.topology_change_timer = settled.topology_change_timer
  BY <1>6 DEF Bridges, SameSpeech
<1>. HIDE DEF t
<1>10. Carries(settled) => Carries(t)
  BY <1>6, <1>9, SameSpeechKeeps DEF Carries
<1>11. /\ TalksByRole(relayed) => TalksByRole(settled)
       /\ TalksByRole(settled) => TalksByRole(t)
  BY <1>4, <1>6, <1>9, SameSpeechKeeps
<1>. QED BY <1>1, <1>3, <1>4, <1>5, <1>8, <1>10, <1>11

(***************************************************************************)
(* A TCN is acknowledged by the port it came to.                           *)
(***************************************************************************)
LEMMA AcknowledgeTopologyChangeSays ==
  ASSUME NEW b \in Bridges, NEW p \in EnabledPorts(b), IsDesignatedPort(b, p),
         NEW w \in Whims
  PROVE  LET t == AcknowledgeTopologyChange(b, p, w)
         IN  /\ SameNews(b, t)
             /\ TalksByRole(b) => TalksByRole(t)
<1>. DEFINE x == [b.port[p] EXCEPT !.topology_change_ack = TRUE]
            noted == [b EXCEPT !.port[p] = x]
<1>1. b.port[p] \in PortRecords /\ p \in Ports
  BY DEF Bridges, EnabledPorts, PortsOf
<1>2. x \in PortRecords /\ SamePort(b.port[p], x)
  BY <1>1 DEF PortRecords, SamePort
<1>3. AcknowledgeTopologyChange(b, p, w) = TransmitConfigs(noted, {p}, w)
  BY <1>1 DEF AcknowledgeTopologyChange, Bridges, PortRecords
<1>. HIDE DEF x
<1>4. /\ noted \in Bridges /\ SameStanding(b, noted)
      /\ SameNews(b, noted) /\ noted.out = b.out
      /\ \A q \in Ports \ {p} : noted.port[q] = b.port[q]
  BY <1>2 DEF Bridges, SameStanding, SamePort, SameNews
<1>. HIDE DEF noted
<1>5. /\ EnabledPorts(noted) = EnabledPorts(b) /\ EnabledPorts(b) \subseteq Ports
      /\ \A q \in Ports : IsDesignatedPort(noted, q) <=> IsDesignatedPort(b, q)
  BY <1>4, SameSets DEF EnabledPorts, PortsOf
<1>6. OwesByRole(b) => OwesByRole(noted)
  BY <1>4, <1>5 DEF OwesByRole
<1>7. SpokeByRole(b) => SpokeByRole(noted)
  BY <1>4, AddedTcnsByRole DEF AddsTcns
<1>8. /\ SameNews(noted, TransmitConfigs(noted, {p}, w))
      /\ OwesByRole(noted) => OwesByRole(TransmitConfigs(noted, {p}, w))
      /\ SpokeByRole(noted) => SpokeByRole(TransmitConfigs(noted, {p}, w))
  BY <1>4, <1>5, TransmitConfigsSays
<1>. QED BY <1>3, <1>4, <1>6, <1>7, <1>8, SameNewsTransitive DEF TalksByRole

-----------------------------------------------------------------------------
(***************************************************************************)
(* The operations.  Each starts with nothing sent yet, and nothing owed    *)
(* out of role.                                                            *)
(***************************************************************************)
Poised(b) == Sound(b) /\ OwesByRole(b) /\ b.out = {}

(***************************************************************************)
(* What an operation that turns b into t is to keep.                       *)
(***************************************************************************)
Conveys(b, t) ==
  /\ t.bridge_id = b.bridge_id
  /\ TalksByRole(t)
  /\ Leads(b) => Leads(t)
  /\ Carries(b) => Carries(t)

LEMMA PoisedTalks ==
  ASSUME NEW b, Poised(b)
  PROVE  /\ b \in Bridges /\ Updatable(b)
         /\ TalksByRole(b) /\ Conveys(b, b)
  BY SoundUpdatable DEF Poised, TalksByRole, SpokeByRole, Conveys, Updatable

LEMMA SameSpeechConveys ==
  ASSUME NEW b, Poised(b), NEW t, SameSpeech(b, t), SameNews(b, t)
  PROVE  Conveys(b, t)
  BY PoisedTalks, SameSpeechKeeps, SameNewsKeeps DEF Conveys, SameSpeech

(***************************************************************************)
(* A detected change is conveyed.                                          *)
(***************************************************************************)
LEMMA TopologyChangeDetectionConveys ==
  ASSUME NEW b \in Bridges, TalksByRole(b), NEW w
  PROVE  Conveys(b, TopologyChangeDetection(b, w))
  BY TopologyChangeDetectionKeeps, TopologyChangeDetectionSays
     DEF SameStanding, Conveys

LEMMA ConveysTransitive ==
  ASSUME NEW b, NEW t, NEW u, Conveys(b, t), Conveys(t, u)
  PROVE  Conveys(b, u)
  BY DEF Conveys

(***************************************************************************)
(* A root all of whose ports know of it alone has no candidate for another.*)
(***************************************************************************)
LEMMA RootHasNoCandidates ==
  ASSUME NEW b \in Bridges, HeardAlike(b), IsRootBridge(b)
  PROVE  RootCandidates(b) = {}
  BY DEF HeardAlike, IsRootBridge, RootCandidates, Bridges

(***************************************************************************)
(* Reconfiguring what an operation prepared.                               *)
(***************************************************************************)
LEMMA ReconfiguredConveys ==
  ASSUME NEW b, Poised(b), NEW t, Prepared(b, t), HeardAlike(t),
         t.bridge_id = b.bridge_id, NEW w \in Whims
  PROVE  Conveys(b, ReconfigureOrLead(t, w))
<1>1. /\ t \in Bridges /\ Updatable(t) /\ t.out = {} /\ SameNews(b, t)
      /\ IsRootBridge(t) <=> IsRootBridge(b)
  BY DEF Prepared, Updatable, Poised, IsRootBridge
<1>2. /\ Leads(b) => Leads(t)
      /\ Carries(b) => Carries(t)
  BY <1>1, SameNewsKeeps
<1>3. IsRootBridge(t) => RootCandidates(t) = {}
  BY <1>1, RootHasNoCandidates
<1>. QED BY <1>1, <1>2, <1>3, ReconfigureOrLeadSays DEF Conveys

LEMMA CreatePortConveys ==
  ASSUME NEW b, Poised(b), NEW p \in Ports, NEW cost \in Nat \ {0},
         NEW reused \in BOOLEAN
  PROVE  /\ Poised(CreatePort(b, p, cost, reused))
         /\ Conveys(b, CreatePort(b, p, cost, reused))
<1>. DEFINE x == InitialPort(b, p, cost, "disabled", FALSE)
            r == IF b.root_port = StalePort /\ reused THEN p ELSE b.root_port
            t == [b EXCEPT !.root_port = r, !.port[p] = x]
<1>1. Sound(CreatePort(b, p, cost, reused))
  BY CreatePortSound DEF Poised
<1>2. CASE p \in PortsOf(b)
  BY <1>2, PoisedTalks DEF CreatePort
<1>3. CASE p \notin PortsOf(b)
  <2>1. CreatePort(b, p, cost, reused) = t
    BY <1>3 DEF CreatePort
  <2>2. x.state = "disabled"
    BY DEF InitialPort
  <2>. HIDE DEF x, r
  <2>3. /\ t.port[p].state = "disabled"
        /\ \A q \in Ports \ {p} : t.port[q] = b.port[q]
        /\ t.bridge_id = b.bridge_id
        /\ t.designated_root = b.designated_root
        /\ t.out = b.out /\ SameNews(b, t)
    BY <2>2 DEF Poised, Sound, Bridges, SameNews
  <2>. HIDE DEF t
  <2>4. /\ EnabledPorts(t) \subseteq EnabledPorts(b) \ {p}
        /\ EnabledPorts(b) \subseteq Ports
    BY <2>3 DEF EnabledPorts, PortsOf
  <2>5. OwesByRole(t)
    BY <2>3, <2>4 DEF Poised, OwesByRole, IsDesignatedPort
  <2>6. SpokeByRole(t) /\ (IsRootBridge(t) <=> IsRootBridge(b))
    BY <2>3 DEF Poised, SpokeByRole, IsRootBridge
  <2>. QED BY <1>1, <2>1, <2>3, <2>5, <2>6, SameNewsKeeps DEF Poised, Conveys, TalksByRole
<1>. QED BY <1>2, <1>3

LEMMA PortEnableConveys ==
  ASSUME NEW b, Poised(b), NEW p \in PortsOf(b), NEW w \in Whims
  PROVE  Conveys(b, PortEnable(b, p, w))
<1>. DEFINE x == InitialPort(b, p, b.port[p].path_cost, "blocking", TRUE)
            t == [b EXCEPT !.port[p] = x]
<1>1. CASE b.port[p].state # "disabled"
  BY <1>1, PoisedTalks DEF PortEnable
<1>2. CASE b.port[p].state = "disabled"
  <2>1. b \in Bridges /\ p \in Ports /\ b.port[p] \in PortRecords
    BY DEF Poised, Sound, PortsOf, Bridges
  <2>2. x \in PortRecords
    BY <2>1, TimersHold DEF InitialPort, PortRecords, OwnInfo, Infos, Bridges, StpStates
  <2>3. PortEnable(b, p, w) = PortStateSelection(t, w)
    BY <1>2 DEF PortEnable
  <2>. HIDE DEF x
  <2>4. /\ t \in Bridges /\ t.out = {} /\ SameNews(b, t)
        /\ t.bridge_id = b.bridge_id
        /\ IsRootBridge(t) <=> IsRootBridge(b)
    BY <2>1, <2>2, PortReplaced DEF Poised, IsRootBridge
  <2>. HIDE DEF t
  <2>. QED BY <2>3, <2>4, SameNewsKeeps, PortStateSelectionSays, PortStateSelectionShape DEF Conveys
<1>. QED BY <1>1, <1>2

LEMMA DestroyPortConveys ==
  ASSUME NEW b, Poised(b), NEW p \in PortsOf(b)
  PROVE  Conveys(b, DestroyPort(b, p))
<1>. DEFINE r == IF b.root_port = p THEN StalePort ELSE b.root_port
            t == [b EXCEPT !.port[p] = AbsentPort, !.root_port = r]
<1>1. DestroyPort(b, p) = t
  BY DEF DestroyPort, Poised, Sound, Bridges
<1>2. p \in Ports /\ AbsentPort.state = "absent"
  BY DEF PortsOf, AbsentPort
<1>. HIDE DEF r
<1>3. /\ t.port[p].state = "absent"
      /\ \A q \in Ports \ {p} : t.port[q] = b.port[q]
      /\ t.bridge_id = b.bridge_id
      /\ t.designated_root = b.designated_root
      /\ t.out = b.out /\ SameNews(b, t)
  <2>. HIDE DEF AbsentPort
  <2>. QED BY <1>2 DEF Poised, Sound, Bridges, SameNews
<1>. HIDE DEF t
<1>4. /\ EnabledPorts(t) \subseteq EnabledPorts(b) \ {p}
      /\ EnabledPorts(b) \subseteq Ports
  BY <1>3 DEF EnabledPorts, PortsOf
<1>5. OwesByRole(t)
  BY <1>3, <1>4 DEF Poised, OwesByRole, IsDesignatedPort
<1>6. SpokeByRole(t) /\ (IsRootBridge(t) <=> IsRootBridge(b))
  BY <1>3 DEF Poised, SpokeByRole, IsRootBridge
<1>. QED BY <1>1, <1>3, <1>5, <1>6, SameNewsKeeps DEF Conveys, TalksByRole

LEMMA PortDisableConveys ==
  ASSUME NEW b, Poised(b), NEW p \in PortsOf(b), NEW w \in Whims
  PROVE  Conveys(b, PortDisable(b, p, w))
<1>1. CASE b.port[p].state = "disabled"
  BY <1>1, PoisedTalks DEF PortDisable
<1>2. CASE b.port[p].state # "disabled"
  BY <1>2, PortDisableReconfigures, ReconfiguredConveys DEF Poised
<1>. QED BY <1>1, <1>2

(***************************************************************************)
(* PortSetPathCost may make a bridge the root without having it lead.      *)
(***************************************************************************)
LEMMA PortSetPathCostSays ==
  ASSUME NEW b, Poised(b), NEW p \in PortsOf(b), NEW cost \in Nat \ {0},
         NEW w \in Whims
  PROVE  TalksByRole(PortSetPathCost(b, p, cost, w))
<1>1. CASE b.port[p].path_cost = cost
  BY <1>1, PoisedTalks DEF PortSetPathCost
<1>2. CASE b.port[p].path_cost # cost
  BY <1>2, PortSetPathCostReconfigures, ReconfigureSays DEF Poised, Prepared
<1>. QED BY <1>1, <1>2

(***************************************************************************)
(* BridgeId may lose track of a change when it gives up the rootship.      *)
(***************************************************************************)
LEMMA BridgeIdSays ==
  ASSUME NEW b, Poised(b), NEW new \in Nat, NEW w \in Whims
  PROVE  /\ TalksByRole(BridgeId(b, new, w))
         /\ Leads(b) => Leads(BridgeId(b, new, w))
         /\ new = b.bridge_id => BridgeId(b, new, w) = b
<1>1. CASE new = b.bridge_id
  BY <1>1, PoisedTalks DEF BridgeId
<1>2. CASE new # b.bridge_id
  <2>1. PICK t : /\ Prepared(b, t)
                 /\ BridgeId(b, new, w) =
                     IF IsRootBridge(Reconfigure(t, w)) /\ ~IsRootBridge(b)
                     THEN BecomeRootBridge(Reconfigure(t, w), w)
                     ELSE Reconfigure(t, w)
    BY <1>2, BridgeIdReconfigures DEF Poised
  <2>. DEFINE next == Reconfigure(t, w)
  <2>2. /\ next \in Bridges /\ TalksByRole(next)
        /\ Leading(t) => Leads(next)
    BY <2>1, ReconfigureSays, ReconfigureSound DEF Prepared, Poised, Sound
  <2>3. IsRootBridge(b) /\ Leads(b) => Leading(t)
    BY <2>1 DEF Prepared, SameNews, Leads, Leading
  <2>4. BridgeId(b, new, w) = IF IsRootBridge(next) /\ ~IsRootBridge(b)
                              THEN BecomeRootBridge(next, w) ELSE next
    BY <2>1
  <2>. HIDE DEF next
  <2>5. CASE IsRootBridge(next) /\ ~IsRootBridge(b)
    BY <2>2, <2>4, <2>5, <1>2, BecomeRootBridgeSays
  <2>6. CASE ~(IsRootBridge(next) /\ ~IsRootBridge(b))
    <3>1. Leads(b) => Leads(next)
      BY <2>2, <2>3, <2>6 DEF Leads
    <3>. QED BY <2>2, <2>4, <2>6, <3>1, <1>2
  <2>. QED BY <2>5, <2>6
<1>. QED BY <1>1, <1>2

LEMMA SetBridgeTimesConveys ==
  ASSUME NEW b, Poised(b), NEW times
  PROVE  Conveys(b, SetBridgeTimes(b, times))
<1>1. SameSpeech(b, SetBridgeTimes(b, times)) /\ SameNews(b, SetBridgeTimes(b, times))
  BY DEF Poised, Sound, SetBridgeTimes, Bridges, SameSpeech, SameNews
<1>. QED BY <1>1, SameSpeechConveys

(***************************************************************************)
(* A bridge that is not the root does not become it by what it hears: the  *)
(* port that hears of a root no worse than the one it knew of is then a    *)
(* candidate, because no bridge hears itself on the port that spoke.       *)
(***************************************************************************)
LEMMA HearingKeepsNonRoot ==
  ASSUME NEW b, Poised(b), NEW p \in EnabledPorts(b), NEW c \in ConfigContents,
         SupersedesPortInfo(b, p, c), ~(c.bridge = b.bridge_id /\ c.port = p),
         ~IsRootBridge(b)
  PROVE  RootCandidates(RecordConfigInformation(b, p, c)) # {}
<1>. DEFINE t == RecordConfigInformation(b, p, c)
<1>1. b \in Bridges /\ p \in Ports /\ b.port[p] \in PortRecords
  BY DEF Poised, Sound, EnabledPorts, PortsOf, Bridges
<1>2. /\ b.port[p].info.root = b.designated_root
      /\ b.designated_root < b.bridge_id
  BY DEF Poised, Sound, PortsAgree, RootAgrees, IsRootBridge
<1>3. c.root \in Nat /\ b.designated_root \in Nat /\ b.bridge_id \in Nat
  BY <1>1 DEF ConfigContents, Bridges
<1>4. c.root <= b.port[p].info.root
  BY <1>2, <1>3 DEF SupersedesPortInfo, Precedes
<1>5. /\ t.bridge_id = b.bridge_id
      /\ p \in EnabledPorts(t)
      /\ t.port[p].info = [root |-> c.root, cost |-> c.cost,
                           bridge |-> c.bridge, port |-> c.port]
  BY RecordedPrepared DEF Poised
<1>. HIDE DEF t
<1>6. t.port[p].info.root = c.root /\ ~IsDesignatedPort(t, p)
  BY <1>5 DEF IsDesignatedPort
<1>7. p \in RootCandidates(t)
  BY <1>2, <1>3, <1>4, <1>5, <1>6 DEF RootCandidates
<1>. QED BY <1>7 DEF t

(***************************************************************************)
(* A config BPDU that is accepted: whoever the root is afterwards, the     *)
(* bridge leads or carries what it is to.                                  *)
(***************************************************************************)
LEMMA AcceptConfigConveys ==
  ASSUME NEW b, Poised(b), NEW p \in EnabledPorts(b), NEW c \in ConfigContents,
         SupersedesPortInfo(b, p, c), ~(c.bridge = b.bridge_id /\ c.port = p),
         NEW w \in Whims
  PROVE  Conveys(b, AcceptConfig(b, p, c, w))
<1>. DEFINE recorded == RecordConfigInformation(b, p, c)
            selected == Reconfigure(recorded, w)
            yielded == IF ~IsRootBridge(selected) /\ IsRootBridge(b)
                       THEN YieldRoot(selected, w)
                       ELSE selected
<1>1. /\ Updatable(recorded) /\ recorded.out = {}
      /\ SameNews(b, recorded) /\ recorded.bridge_id = b.bridge_id
      /\ IsRootBridge(recorded) <=> IsRootBridge(b)
      /\ ~IsRootBridge(b) => RootCandidates(recorded) # {}
  <2>3. recorded.bridge_id = b.bridge_id
    BY DEF RecordConfigInformation, Poised, Sound, Bridges
  <2>1. Prepared(b, recorded)
    BY RecordedPrepared DEF Poised
  <2>2. ~IsRootBridge(b) => RootCandidates(recorded) # {}
    BY HearingKeepsNonRoot
  <2>. HIDE DEF recorded
  <2>. QED BY <2>1, <2>2, <2>3 DEF Poised, Prepared, IsRootBridge
<1>. HIDE DEF recorded
<1>2. /\ Sound(selected) /\ selected \in Bridges /\ TalksByRole(selected)
      /\ selected.bridge_id = b.bridge_id
      /\ Ignorant(recorded) => Ignorant(selected)
      /\ (IsRootBridge(selected) <=> IsRootBridge(recorded)) =>
                  /\ Leads(recorded) => Leads(selected)
                  /\ Carries(recorded) => Carries(selected)
      /\ ~IsRootBridge(b) => ~IsRootBridge(selected)
  BY <1>1, ReconfigureSound, ReconfigureSays, ReconfigureChoosesRoot DEF Sound
<1>3. AcceptConfig(b, p, c, w) = IF p = yielded.root_port
                                 THEN FollowRoot(yielded, c, w) ELSE yielded
  BY DEF AcceptConfig, recorded
<1>. HIDE DEF selected
<1>4. Carries(b) => Ignorant(recorded)
  BY <1>1 DEF SameNews, Carries, Ignorant
<1>5. Sound(yielded) /\ Conveys(b, yielded)
  <2>1. CASE ~IsRootBridge(selected) /\ IsRootBridge(b)
    <3>1. yielded = YieldRoot(selected, w)
      BY <2>1
    <3>2. YieldRoot(selected, w) \in Bridges /\ SameStanding(selected, YieldRoot(selected, w))
      BY <1>2, YieldRootKeeps
    <3>3. Sound(yielded) /\ Leads(yielded)
      BY <3>1, <3>2, <2>1, <1>2, SameStandingSound, SameRoles DEF Leads
    <3>4. /\ TalksByRole(yielded)
          /\ Carries(b) => Carries(yielded)
      BY <3>1, <2>1, <1>2, <1>4, YieldRootSays
    <3>. QED BY <3>1, <3>2, <3>3, <3>4, <1>2 DEF Conveys, SameStanding
  <2>2. CASE ~(~IsRootBridge(selected) /\ IsRootBridge(b))
    BY <2>2, <1>1, <1>2, SameNewsKeeps DEF Conveys
  <2>. QED BY <2>1, <2>2
<1>. HIDE DEF yielded
<1>6. CASE p = yielded.root_port
  <2>1. yielded \in Bridges /\ ~IsRootBridge(yielded)
    BY <1>5, <1>6 DEF Sound, RootAgrees, IsRootBridge, EnabledPorts, PortsOf,
       Bridges, NoPort
  <2>. DEFINE followed == FollowRoot(yielded, c, w)
  <2>2. SameStanding(yielded, followed)
    BY <2>1, FollowRootKeeps
  <2>3. /\ Carries(yielded) => Carries(followed)
        /\ TalksByRole(yielded) => TalksByRole(followed)
    BY <2>1, FollowRootSays
  <2>. HIDE DEF followed
  <2>4. Leads(followed)
    BY <2>1, <2>2, SameRoles DEF Leads
  <2>5. Conveys(b, followed)
    BY <2>2, <2>3, <2>4, <1>5 DEF Conveys, SameStanding
  <2>. QED BY <2>5, <1>3, <1>6 DEF followed
<1>7. CASE p # yielded.root_port
  BY <1>3, <1>5, <1>7
<1>. QED BY <1>6, <1>7

(***************************************************************************)
(* Whatever BPDU arrives that the port did not send itself.                *)
(***************************************************************************)
LEMMA ReceivedBpduConveys ==
  ASSUME NEW b, Poised(b), NEW p \in PortsOf(b), NEW w \in Whims,
         NEW c \in ConfigContents \cup OtherContents,
         c.type = "config" => ~(c.bridge = b.bridge_id /\ c.port = p)
  PROVE  Conveys(b, ReceivedBpdu(b, p, c, w))
<1>1. b \in Bridges /\ p \in Ports /\ TalksByRole(b) /\ Conveys(b, b)
  BY PoisedTalks DEF PortsOf
<1>2. CASE b.port[p].state = "disabled" \/ c.type = "malformed"
  BY <1>1, <1>2 DEF ReceivedBpdu
<1>3. CASE b.port[p].state # "disabled" /\ c.type = "tcn"
  <2>1. ReceivedBpdu(b, p, c, w) = ReceivedTcnBpdu(b, p, w)
    BY <1>3 DEF ReceivedBpdu
  <2>2. CASE ~IsDesignatedPort(b, p)
    BY <2>1, <2>2, <1>1 DEF ReceivedTcnBpdu
  <2>3. CASE IsDesignatedPort(b, p)
    <3>. DEFINE t == TopologyChangeDetection(b, w)
                u == AcknowledgeTopologyChange(t, p, w)
    <3>1. t \in Bridges /\ SameStanding(b, t) /\ Conveys(b, t)
      BY <1>1, TopologyChangeDetectionKeeps, TopologyChangeDetectionConveys
    <3>2. ReceivedTcnBpdu(b, p, w) = u
      BY <2>3 DEF ReceivedTcnBpdu
    <3>. HIDE DEF t
    <3>3. IsDesignatedPort(t, p) /\ p \in EnabledPorts(t)
      <4>1. c.type # "malformed" /\ b.port[p].state # "disabled"
        BY <1>3
      <4>. QED BY <1>1, <2>3, <3>1, <4>1, SameSets DEF EnabledPorts
    <3>4. SameStanding(t, u) /\ SameNews(t, u) /\ TalksByRole(u)
      BY <1>1, <3>1, <3>3, AcknowledgeTopologyChangeKeeps,
         AcknowledgeTopologyChangeSays DEF Conveys
    <3>. HIDE DEF u
    <3>5. Conveys(t, u)
      BY <3>4, SameRoles, SameNewsKeeps DEF Conveys, SameStanding
    <3>. QED BY <2>1, <3>1, <3>2, <3>5, ConveysTransitive
  <2>. QED BY <2>2, <2>3
<1>4. CASE b.port[p].state # "disabled" /\ c.type \notin {"malformed", "tcn"}
  <2>1. /\ c \in ConfigContents /\ c.type = "config" /\ p \in EnabledPorts(b)
        /\ ~(c.bridge = b.bridge_id /\ c.port = p)
    BY <1>4 DEF ConfigContents, OtherContents, EnabledPorts
  <2>2. ReceivedBpdu(b, p, c, w) = ReceivedConfigBpdu(b, p, c, w)
    BY <1>4, <2>1 DEF ReceivedBpdu
  <2>3. SupersedesPortInfo(b, p, c) => Conveys(b, AcceptConfig(b, p, c, w))
    BY <2>1, AcceptConfigConveys
  <2>4. IsDesignatedPort(b, p) => Conveys(b, TransmitConfigs(b, {p}, w))
    <3>. DEFINE t == TransmitConfigs(b, {p}, w)
    <3>1. SameStanding(b, t)
      BY <1>1, TransmitConfigsKeeps
    <3>2. IsDesignatedPort(b, p) => SameNews(b, t) /\ TalksByRole(t)
      BY <1>1, <2>1, TransmitConfigsSays DEF TalksByRole
    <3>. HIDE DEF t
    <3>3. IsDesignatedPort(b, p) => Conveys(b, t)
      BY <3>1, <3>2, SameRoles, SameNewsKeeps DEF Conveys, SameStanding
    <3>. QED BY <3>3 DEF t
  <2>. QED BY <2>2, <2>3, <2>4, <1>1 DEF ReceivedConfigBpdu
<1>. QED BY <1>2, <1>3, <1>4

-----------------------------------------------------------------------------
(***************************************************************************)
(* The steps of a tick.                                                    *)
(***************************************************************************)
LEMMA HelloTickConveys ==
  ASSUME NEW b \in Bridges, TalksByRole(b), NEW ticks \in Int, NEW w \in Whims
  PROVE  LET t == HelloTick(b, ticks, w)
         IN  t \in Bridges /\ SameStanding(b, t) /\ Conveys(b, t)
<1>. DEFINE timer == TimerAfter(b.hello_timer, ticks, b.times.hello_time)
            waiting == [b EXCEPT !.hello_timer = timer]
            spread == ConfigBpduGeneration(b, w)
            said == [spread EXCEPT !.hello_timer = 0]
            expired == TimerExpired(b.hello_timer, ticks, b.times.hello_time)
<1>1. HelloTick(b, ticks, w) = IF expired THEN said ELSE waiting
  BY DEF HelloTick, Bridges
<1>2. timer \in Timers /\ (Running(timer) <=> Running(b.hello_timer) /\ ~expired)
  BY TimerAfterShape DEF Bridges
<1>3. /\ spread \in Bridges /\ SameStanding(b, spread)
      /\ SameNews(b, spread) /\ TalksByRole(spread)
  BY ConfigBpduGenerationKeeps, ConfigBpduGenerationSays
<1>. HIDE DEF timer, expired, spread
<1>4. CASE expired
  <2>1. /\ said \in Bridges /\ SameSpeech(spread, said)
        /\ SameStanding(spread, said)
        /\ said.hello_timer = 0
        /\ said.tcn_timer = spread.tcn_timer
        /\ said.topology_change_timer = spread.topology_change_timer
        /\ said.topology_change_detected = spread.topology_change_detected
        /\ said.topology_change = spread.topology_change
    BY <1>3, TimersHold DEF Bridges, SameSpeech, SameStanding, SamePort
  <2>. HIDE DEF said
  <2>2. SameStanding(b, said)
    BY <1>3, <2>1, SameStandingTransitive
  <2>3. TalksByRole(said)
    BY <1>3, <2>1, SameSpeechKeeps
  <2>4. /\ Leads(b) => Leads(said)
        /\ Carries(b) => Carries(said)
    BY <1>3, <2>1, <2>2, SameRoles, TimersHold DEF SameNews, Leads, Leading, Carries
  <2>. QED BY <1>1, <1>4, <2>1, <2>2, <2>3, <2>4 DEF Conveys, SameStanding
<1>5. CASE ~expired
  <2>1. /\ waiting \in Bridges /\ SameSpeech(b, waiting)
        /\ SameStanding(b, waiting)
        /\ waiting.hello_timer = timer
        /\ waiting.tcn_timer = b.tcn_timer
        /\ waiting.topology_change_timer = b.topology_change_timer
        /\ waiting.topology_change_detected = b.topology_change_detected
        /\ waiting.topology_change = b.topology_change
    BY <1>2 DEF Bridges, SameSpeech, SameStanding, SamePort
  <2>. HIDE DEF waiting
  <2>2. TalksByRole(waiting)
    BY <2>1, SameSpeechKeeps
  <2>3. /\ Leads(b) => Leads(waiting)
        /\ Carries(b) => Carries(waiting)
    BY <1>2, <1>5, <2>1, SameRoles DEF Leads, Leading, Carries
  <2>. QED BY <1>1, <1>5, <2>1, <2>2, <2>3 DEF Conveys, SameStanding
<1>. QED BY <1>4, <1>5

(***************************************************************************)
(* A TCN that is not acknowledged is sent again and again.                 *)
(***************************************************************************)
LEMMA TcnTickConveys ==
  ASSUME NEW b \in Bridges, TalksByRole(b), NEW ticks \in Int, NEW w
  PROVE  LET t == TcnTick(b, ticks, w)
         IN  t \in Bridges /\ SameStanding(b, t) /\ Conveys(b, t)
<1>. DEFINE timer == TimerAfter(b.tcn_timer, ticks, b.bridge_times.hello_time)
            waiting == [b EXCEPT !.tcn_timer = timer]
            sent == TransmitTcn(b, w)
            said == [sent EXCEPT !.tcn_timer = 0]
            expired == TimerExpired(b.tcn_timer, ticks, b.bridge_times.hello_time)
<1>1. TcnTick(b, ticks, w) = IF expired THEN said ELSE waiting
  BY DEF TcnTick, Bridges
<1>2. /\ timer \in Timers
      /\ Running(timer) <=> Running(b.tcn_timer) /\ ~expired
      /\ expired => Running(b.tcn_timer)
  BY TimerAfterShape DEF Bridges, TimerExpired
<1>3. /\ sent \in Bridges /\ SameStanding(b, sent) /\ sent.port = b.port
      /\ SameNews(b, sent) /\ AddsTcns(b, sent)
  BY TransmitTcnKeeps, TransmitTcnSays
<1>. HIDE DEF timer, expired, sent
<1>4. TalksByRole(sent)
  <2>1. SpokeByRole(sent)
    BY <1>3, AddedTcnsByRole DEF TalksByRole
  <2>2. OwesByRole(sent)
    BY <1>3, SameSets DEF TalksByRole, OwesByRole, EnabledPorts, PortsOf
  <2>. QED BY <2>1, <2>2 DEF TalksByRole
<1>5. CASE expired
  <2>1. /\ said \in Bridges /\ SameSpeech(sent, said)
        /\ SameStanding(sent, said)
        /\ said.hello_timer = sent.hello_timer
        /\ said.tcn_timer = 0
        /\ said.topology_change_timer = sent.topology_change_timer
        /\ said.topology_change_detected = sent.topology_change_detected
        /\ said.topology_change = sent.topology_change
    BY <1>3, TimersHold DEF Bridges, SameSpeech, SameStanding, SamePort
  <2>. HIDE DEF said
  <2>2. SameStanding(b, said)
    BY <1>3, <2>1, SameStandingTransitive
  <2>3. TalksByRole(said)
    BY <1>3, <1>4, <2>1, SameSpeechKeeps
  <2>4. /\ Leads(b) => Leads(said)
        /\ Carries(b) => Carries(said)
    BY <1>2, <1>3, <1>5, <2>1, <2>2, SameRoles, TimersHold
       DEF SameNews, Leads, Leading, Carries
  <2>. QED BY <1>1, <1>5, <2>1, <2>2, <2>3, <2>4 DEF Conveys, SameStanding
<1>6. CASE ~expired
  <2>1. /\ waiting \in Bridges /\ SameSpeech(b, waiting)
        /\ SameStanding(b, waiting)
        /\ waiting.hello_timer = b.hello_timer
        /\ waiting.tcn_timer = timer
        /\ waiting.topology_change_timer = b.topology_change_timer
        /\ waiting.topology_change_detected = b.topology_change_detected
        /\ waiting.topology_change = b.topology_change
    BY <1>2 DEF Bridges, SameSpeech, SameStanding, SamePort
  <2>. HIDE DEF waiting
  <2>2. TalksByRole(waiting)
    BY <2>1, SameSpeechKeeps
  <2>3. /\ Leads(b) => Leads(waiting)
        /\ Carries(b) => Carries(waiting)
    BY <1>2, <1>6, <2>1, SameRoles DEF Leads, Leading, Carries
  <2>. QED BY <1>1, <1>6, <2>1, <2>2, <2>3 DEF Conveys, SameStanding
<1>. QED BY <1>5, <1>6

(***************************************************************************)
(* An announcement ends together with the change it announces.             *)
(***************************************************************************)
LEMMA TopologyChangeTickConveys ==
  ASSUME NEW b \in Bridges, TalksByRole(b), NEW ticks \in Int
  PROVE  Conveys(b, TopologyChangeTick(b, ticks))
<1>. DEFINE limit == b.times.max_age + b.times.forward_delay
            timer == TimerAfter(b.topology_change_timer, ticks, limit)
            expired == TimerExpired(b.topology_change_timer, ticks, limit)
            aged == [b EXCEPT !.topology_change_timer = timer]
            t == TopologyChangeTick(b, ticks)
<1>1. t = IF expired THEN [aged EXCEPT !.topology_change_detected = FALSE,
                                       !.topology_change = FALSE]
          ELSE aged
  BY DEF TopologyChangeTick, Bridges
<1>2. /\ timer \in Timers
      /\ Running(timer) <=> Running(b.topology_change_timer) /\ ~expired
      /\ expired => Running(b.topology_change_timer)
  BY TimerAfterShape DEF Bridges, TimerExpired
<1>. HIDE DEF timer, expired, t
<1>3. /\ SameSpeech(b, t)
      /\ t.hello_timer = b.hello_timer /\ t.tcn_timer = b.tcn_timer
      /\ t.topology_change_timer = timer
      /\ IF expired THEN ~t.topology_change_detected /\ ~t.topology_change
         ELSE /\ t.topology_change_detected = b.topology_change_detected
              /\ t.topology_change = b.topology_change
  BY <1>1, <1>2 DEF Bridges, SameSpeech
<1>4. TalksByRole(t) /\ (IsRootBridge(t) <=> IsRootBridge(b))
  BY <1>3, SameSpeechKeeps
<1>5. Leads(b) => Leads(t)
  BY <1>2, <1>3, <1>4 DEF Leads, Leading
<1>6. Carries(b) => Carries(t)
  BY <1>2, <1>3, <1>4 DEF Carries
<1>. QED BY <1>3, <1>4, <1>5, <1>6 DEF Conveys, SameSpeech, t

LEMMA BridgeTickConveys ==
  ASSUME NEW b, Poised(b), NEW ticks \in Int, NEW w \in Whims
  PROVE  Conveys(b, BridgeTick(b, ticks, w))
<1>. DEFINE x == HelloTick(b, ticks, w)
            y == TcnTick(x, ticks, w)
<1>1. x \in Bridges /\ Conveys(b, x)
  BY PoisedTalks, HelloTickConveys
<1>. HIDE DEF x
<1>2. y \in Bridges /\ Conveys(x, y)
  BY <1>1, TcnTickConveys DEF Conveys
<1>. HIDE DEF y
<1>3. Conveys(y, TopologyChangeTick(y, ticks))
  BY <1>2, TopologyChangeTickConveys DEF Conveys
<1>4. BridgeTick(b, ticks, w) = TopologyChangeTick(y, ticks)
  BY DEF BridgeTick, x, y
<1>. QED BY <1>1, <1>2, <1>3, <1>4, ConveysTransitive

(***************************************************************************)
(* A port one of whose timers, or whose state, changes among those that    *)
(* make no difference to its role.                                         *)
(***************************************************************************)
LEMMA PortAgedSpeaks ==
  ASSUME NEW b \in Bridges, NEW p \in Ports, NEW x,
         x.info = b.port[p].info,
         x.config_pending = b.port[p].config_pending,
         x.topology_change_ack = b.port[p].topology_change_ack,
         \A state \in {"absent", "disabled", "blocking"} :
           x.state = state <=> b.port[p].state = state
  PROVE  LET t == [b EXCEPT !.port[p] = x]
         IN  SameSpeech(b, t) /\ SameNews(b, t)
<1>. DEFINE t == [b EXCEPT !.port[p] = x]
<1>1. /\ t.port[p] = x
      /\ \A q \in Ports \ {p} : t.port[q] = b.port[q]
      /\ t.bridge_id = b.bridge_id
      /\ t.designated_root = b.designated_root
      /\ t.root_path_cost = b.root_path_cost
      /\ t.root_port = b.root_port
      /\ t.out = b.out /\ SameNews(b, t)
  BY DEF Bridges, SameNews
<1>. HIDE DEF t
<1>2. SameSpeech(b, t)
  BY <1>1 DEF SameSpeech
<1>. QED BY <1>1, <1>2 DEF t

LEMMA MessageAgeTickConveys ==
  ASSUME NEW b, Poised(b), NEW p \in EnabledPorts(b), NEW ticks \in Int,
         NEW w \in Whims
  PROVE  Conveys(b, MessageAgeTick(b, p, ticks, w))
<1>. DEFINE timer == TimerAfter(b.port[p].message_age_timer, ticks, b.times.max_age)
            x == [b.port[p] EXCEPT !.message_age_timer = timer]
            aged == [b EXCEPT !.port[p] = x]
            expired == TimerExpired(b.port[p].message_age_timer, ticks, b.times.max_age)
<1>1. b \in Bridges /\ p \in Ports /\ b.port[p] \in PortRecords
  BY DEF Poised, Sound, EnabledPorts, PortsOf, Bridges
<1>2. CASE expired
  BY <1>2, MessageAgeTickReconfigures, ReconfiguredConveys DEF Poised
<1>3. CASE ~expired
  <2>1. MessageAgeTick(b, p, ticks, w) = aged
    BY <1>1, <1>3 DEF MessageAgeTick, Bridges, PortRecords
  <2>. HIDE DEF timer
  <2>2. /\ x.info = b.port[p].info /\ x.state = b.port[p].state
        /\ x.config_pending = b.port[p].config_pending
        /\ x.topology_change_ack = b.port[p].topology_change_ack
    BY <1>1 DEF PortRecords
  <2>. HIDE DEF x
  <2>3. SameSpeech(b, aged) /\ SameNews(b, aged)
    BY <1>1, <2>2, PortAgedSpeaks
  <2>. QED BY <2>1, <2>3, SameSpeechConveys
<1>. QED BY <1>2, <1>3

(***************************************************************************)
(* The forward delay timer of a port, with the change it may detect.       *)
(***************************************************************************)
LEMMA ForwardDelayTickConveys ==
  ASSUME NEW b, Poised(b), NEW p \in EnabledPorts(b), NEW ticks \in Int,
         NEW w
  PROVE  Conveys(b, ForwardDelayTick(b, p, ticks, w))
<1>. DEFINE timer == TimerAfter(b.port[p].forward_delay_timer, ticks, b.times.forward_delay)
            expired == TimerExpired(b.port[p].forward_delay_timer, ticks, b.times.forward_delay)
            x == [b.port[p] EXCEPT !.forward_delay_timer = timer]
            aged == [b EXCEPT !.port[p] = x]
            On(z) == [b EXCEPT !.port[p] = z]
            learning == [WithState(x, "learning") EXCEPT !.forward_delay_timer = 0]
            open == WithState(x, "forwarding")
<1>1. b \in Bridges /\ p \in Ports /\ b.port[p] \in PortRecords
  BY DEF Poised, Sound, EnabledPorts, PortsOf, Bridges
<1>2. timer \in Timers
  <2>1. b.port[p].forward_delay_timer \in Timers
    BY <1>1 DEF PortRecords
  <2>. QED BY <2>1, TimerAfterShape
<1>3. ForwardDelayTick(b, p, ticks, w)
        = IF expired THEN ForwardDelayTimerExpiry(aged, p, w) ELSE aged
  BY <1>1 DEF ForwardDelayTick, Bridges, PortRecords
<1>. HIDE DEF timer, expired
<1>4. /\ x \in PortRecords
      /\ x.state = b.port[p].state /\ x.info = b.port[p].info
      /\ x.config_pending = b.port[p].config_pending
      /\ x.topology_change_ack = b.port[p].topology_change_ack
  BY <1>1, <1>2 DEF PortRecords
<1>. HIDE DEF x
<1>5. aged.port[p] = x /\ \A z : [aged EXCEPT !.port[p] = z] = On(z)
  BY <1>1 DEF Bridges
<1>6. ASSUME NEW z \in PortRecords, z.info = x.info,
             z.config_pending = x.config_pending,
             z.topology_change_ack = x.topology_change_ack,
             z.state = x.state \/ {z.state, x.state} \subseteq {"listening", "learning", "forwarding"}
      PROVE  On(z) \in Bridges /\ Conveys(b, On(z))
  <2>1. \A state \in {"absent", "disabled", "blocking"} :
           z.state = state <=> b.port[p].state = state
    BY <1>4, <1>6
  <2>2. On(z) \in Bridges /\ SameSpeech(b, On(z)) /\ SameNews(b, On(z))
    BY <1>1, <1>4, <1>6, <2>1, PortReplaced, PortAgedSpeaks
  <2>. HIDE DEF On
  <2>. QED BY <2>2, SameSpeechConveys
<1>7. CASE ~expired
  BY <1>3, <1>4, <1>6, <1>7
<1>8. CASE expired /\ b.port[p].state = "listening"
  <2>1. ForwardDelayTick(b, p, ticks, w) = On(learning)
    <3>1. ForwardDelayTimerExpiry(aged, p, w) = [aged EXCEPT !.port[p] = learning]
      BY <1>5, <1>4, <1>8 DEF ForwardDelayTimerExpiry
    <3>. QED BY <3>1, <1>3, <1>5, <1>8
  <2>2. /\ learning \in PortRecords /\ learning.state = "learning"
        /\ learning.info = x.info
        /\ learning.config_pending = x.config_pending
        /\ learning.topology_change_ack = x.topology_change_ack
    <3>1. 0 \in Timers
      BY TimersHold
    <3>. QED BY <1>4, <3>1 DEF WithState, PortRecords, StpStates
  <2>. HIDE DEF learning
  <2>3. Conveys(b, On(learning))
    BY <1>4, <1>6, <1>8, <2>2
  <2>. QED BY <2>1, <2>3
<1>9. CASE expired /\ b.port[p].state = "learning"
  <2>1. \/ ForwardDelayTick(b, p, ticks, w) = On(open)
        \/ ForwardDelayTick(b, p, ticks, w) = TopologyChangeDetection(On(open), w)
    <3>. DEFINE opened == [aged EXCEPT !.port[p] = open]
    <3>1. \/ ForwardDelayTimerExpiry(aged, p, w) = opened
          \/ ForwardDelayTimerExpiry(aged, p, w) = TopologyChangeDetection(opened, w)
      BY <1>5, <1>4, <1>9 DEF ForwardDelayTimerExpiry
    <3>2. opened = On(open)
      BY <1>5
    <3>. HIDE DEF opened, open, On
    <3>. QED BY <3>1, <3>2, <1>3, <1>9
  <2>2. /\ open \in PortRecords /\ open.state = "forwarding"
        /\ open.info = x.info
        /\ open.config_pending = x.config_pending
        /\ open.topology_change_ack = x.topology_change_ack
    BY <1>4 DEF WithState, PortRecords, StpStates
  <2>. HIDE DEF open
  <2>3. On(open) \in Bridges /\ Conveys(b, On(open))
    BY <1>4, <1>6, <1>9, <2>2
  <2>. HIDE DEF On
  <2>4. Conveys(On(open), TopologyChangeDetection(On(open), w))
    BY <2>3, TopologyChangeDetectionConveys DEF Conveys
  <2>. QED BY <2>1, <2>3, <2>4, ConveysTransitive
<1>10. CASE expired /\ b.port[p].state \notin {"listening", "learning"}
  <2>1. ForwardDelayTimerExpiry(aged, p, w) = aged
    BY <1>4, <1>5, <1>10 DEF ForwardDelayTimerExpiry
  <2>. QED BY <2>1, <1>3, <1>4, <1>6, <1>10
<1>. QED BY <1>7, <1>8, <1>9, <1>10

(***************************************************************************)
(* A BPDU held back is sent when the hold timer has run out, by the port   *)
(* that owes it.                                                           *)
(***************************************************************************)
LEMMA HoldTickConveys ==
  ASSUME NEW b \in Bridges, TalksByRole(b), NEW p \in EnabledPorts(b),
         NEW ticks \in Int, NEW w \in Whims
  PROVE  Conveys(b, HoldTick(b, p, ticks, w))
<1>. DEFINE timer == TimerAfter(b.port[p].hold_timer, ticks, HoldTime)
            expired == TimerExpired(b.port[p].hold_timer, ticks, HoldTime)
            x == [b.port[p] EXCEPT !.hold_timer = timer]
            aged == [b EXCEPT !.port[p] = x]
            sent == TransmitConfigs(aged, {p}, w)
<1>1. b.port[p] \in PortRecords /\ p \in Ports
  BY DEF Bridges, EnabledPorts, PortsOf
<1>2. timer \in Timers
  BY <1>1, TimerAfterShape DEF PortRecords
<1>3. HoldTick(b, p, ticks, w)
        = IF expired /\ b.port[p].config_pending THEN sent ELSE aged
  BY <1>1 DEF HoldTick, Bridges, PortRecords
<1>. HIDE DEF timer, expired
<1>4. /\ x \in PortRecords
      /\ x.state = b.port[p].state /\ x.info = b.port[p].info
      /\ x.config_pending = b.port[p].config_pending
      /\ x.topology_change_ack = b.port[p].topology_change_ack
  BY <1>1, <1>2 DEF PortRecords
<1>. HIDE DEF x
<1>5. aged \in Bridges /\ SameSpeech(b, aged) /\ SameNews(b, aged)
  BY <1>1, <1>4, PortReplaced, PortAgedSpeaks
<1>. HIDE DEF aged
<1>6. Conveys(b, aged)
  BY <1>5, SameSpeechKeeps, SameNewsKeeps DEF Conveys, SameSpeech
<1>7. CASE b.port[p].config_pending
  <2>1. IsDesignatedPort(aged, p) /\ p \in EnabledPorts(aged)
    BY <1>1, <1>5, <1>7 DEF TalksByRole, OwesByRole, SameSpeech,
       IsDesignatedPort, EnabledPorts, PortsOf
  <2>2. SameStanding(aged, sent) /\ SameNews(aged, sent) /\ TalksByRole(sent)
    BY <1>1, <1>5, <1>6, <2>1, TransmitConfigsKeeps, TransmitConfigsSays
       DEF Conveys, TalksByRole
  <2>. HIDE DEF sent
  <2>3. Conveys(aged, sent)
    BY <2>2, SameRoles, SameNewsKeeps DEF Conveys, SameStanding
  <2>. QED BY <1>3, <1>6, <2>3, ConveysTransitive
<1>8. CASE ~b.port[p].config_pending
  BY <1>3, <1>6, <1>8
<1>. QED BY <1>7, <1>8

LEMMA PortTickConveys ==
  ASSUME NEW b, Poised(b), NEW p \in EnabledPorts(b), NEW ticks \in Int,
         NEW w \in Whims
  PROVE  Conveys(b, PortTick(b, p, ticks, w))
<1>. DEFINE t == ForwardDelayTick(b, p, ticks, w)
<1>1. t \in Bridges /\ Conveys(b, t) /\ p \in EnabledPorts(t)
  BY ForwardDelayTickSound, ForwardDelayTickConveys DEF Poised, Sound
<1>2. PortTick(b, p, ticks, w) = HoldTick(t, p, ticks, w)
  BY DEF PortTick
<1>. HIDE DEF t
<1>3. Conveys(t, HoldTick(t, p, ticks, w))
  BY <1>1, HoldTickConveys DEF Conveys
<1>. QED BY <1>1, <1>2, <1>3, ConveysTransitive

(***************************************************************************)
(* What was said is forgotten before the next operation.                   *)
(***************************************************************************)
LEMMA QuietIsPoised ==
  ASSUME NEW b, Sound(b), TalksByRole(b)
  PROVE  /\ Poised(Quiet(b)) /\ SameNews(b, Quiet(b))
         /\ Quiet(b).bridge_id = b.bridge_id
         /\ IsRootBridge(Quiet(b)) <=> IsRootBridge(b)
<1>1. /\ Quiet(b).out = {} /\ Quiet(b).port = b.port
      /\ Quiet(b).bridge_id = b.bridge_id
      /\ SameNews(b, Quiet(b))
      /\ IsRootBridge(Quiet(b)) <=> IsRootBridge(b)
  BY DEF Quiet, Sound, Bridges, SameNews, IsRootBridge
<1>2. Sound(Quiet(b)) /\ EnabledPorts(Quiet(b)) = EnabledPorts(b)
  BY QuietSound
<1>3. OwesByRole(Quiet(b))
  BY <1>1, <1>2 DEF TalksByRole, OwesByRole, IsDesignatedPort
<1>. QED BY <1>1, <1>2, <1>3 DEF Poised
=============================================================================
