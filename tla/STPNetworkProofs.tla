-------------------------- MODULE STPNetworkProofs --------------------------
(***************************************************************************)
(* Proofs about STPNetwork: any number of hosts, sessions that come and    *)
(* go, BPDUs that are lost or overtake each other.                         *)
(***************************************************************************)
EXTENDS STPNetwork, STPProofs, FiniteSetTheorems

-----------------------------------------------------------------------------
(***************************************************************************)
(* Recursion over the numbers up to n.  A set that has 0 and, with a       *)
(* number, the next one, has all; so the function that a step defines by   *)
(* recursion exists, and stays where the step stays.                       *)
(***************************************************************************)
LEMMA Climb ==
  ASSUME NEW n \in Nat, NEW T, 0 \in T, \A k \in 1..n : k - 1 \in T => k \in T
  PROVE  \A k \in 0..n : k \in T
<1>. DEFINE Missing == {k \in 0..n : k \notin T}
<1>1. SUFFICES ASSUME Missing # {} PROVE FALSE
  OBVIOUS
<1>2. PICK x \in Missing : \A y \in Missing : <<y, x>> \notin LessThan
  <2>1. Missing \subseteq Nat
    OBVIOUS
  <2>. QED BY <1>1, <2>1, LessThanWellFounded, WFMin
<1>3. x \in 1..n /\ x - 1 \in 0..n /\ x - 1 \notin T
  OBVIOUS
<1>4. x - 1 \in Missing /\ <<x - 1, x>> \in LessThan
  BY <1>3 DEF LessThan
<1>. QED BY <1>2, <1>4

StepsIn(S, n, step) == step \in [S \X (1..n) -> S]

Walks(S, a, n, step) ==
  {f \in [0..n -> S] : f[0] = a /\ \A k \in 1..n : f[k] = step[<<f[k - 1], k>>]}

Staying(S, n, f) ==
  f[0] \in S /\ \A k \in 1..n : f[k - 1] \in S => f[k] \in S

LEMMA WalkExists ==
  ASSUME NEW S, NEW a \in S, NEW n \in Nat, NEW step, StepsIn(S, n, step)
  PROVE  Walks(S, a, n, step) # {}
<1>. DEFINE Begun(m) == {f \in [0..n -> S] :
              f[0] = a /\ \A k \in 1..m : f[k] = step[<<f[k - 1], k>>]}
            T == {m \in 0..n : Begun(m) # {}}
<1>. USE DEF StepsIn
<1>1. 0 \in T
  <2>1. [k \in 0..n |-> a] \in Begun(0)
    OBVIOUS
  <2>. QED BY <2>1
<1>2. ASSUME NEW m \in 1..n, m - 1 \in T PROVE m \in T
  <2>1. PICK f \in Begun(m - 1) : TRUE
    BY <1>2
  <2>. DEFINE g == [f EXCEPT ![m] = step[<<f[m - 1], m>>]]
  <2>2. /\ f \in [0..n -> S] /\ f[0] = a /\ m - 1 \in 0..n /\ m \in 0..n
        /\ \A k \in 1..(m - 1) : f[k] = step[<<f[k - 1], k>>]
    BY <2>1
  <2>3. f[m - 1] \in S
    BY <2>2
  <2>4. step[<<f[m - 1], m>>] \in S
    BY <2>3
  <2>5. /\ g \in [0..n -> S] /\ g[m] = step[<<f[m - 1], m>>]
        /\ \A k \in 0..n : k # m => g[k] = f[k]
    BY <2>2, <2>4
  <2>. HIDE DEF g
  <2>6. \A k \in 1..m : g[k] = step[<<g[k - 1], k>>]
    <3>1. TAKE k \in 1..m
    <3>2. k \in 0..n /\ k - 1 \in 0..n /\ k - 1 # m /\ (k = m \/ k \in 1..(m - 1))
      OBVIOUS
    <3>. QED BY <2>2, <2>5, <3>2
  <2>7. g \in Begun(m)
    BY <2>2, <2>5, <2>6
  <2>. QED BY <2>7
<1>3. n \in T
  <2>. HIDE DEF T
  <2>1. \A k \in 0..n : k \in T
    BY <1>1, <1>2, Climb
  <2>. QED BY <2>1
<1>. QED BY <1>3 DEF Walks

LEMMA WalkStays ==
  ASSUME NEW S, NEW n \in Nat, NEW f, Staying(S, n, f)
  PROVE  f[n] \in S
<1>. USE DEF Staying
<1>. DEFINE T == {k \in 0..n : f[k] \in S}
<1>1. 0 \in T
  OBVIOUS
<1>2. \A k \in 1..n : k - 1 \in T => k \in T
  OBVIOUS
<1>. HIDE DEF T
<1>3. \A k \in 0..n : k \in T
  BY <1>1, <1>2, Climb
<1>4. n \in T
  BY <1>3
<1>. QED BY <1>4 DEF T

(***************************************************************************)
(* The ports to walk over are listed, each once, by a finite sequence.     *)
(***************************************************************************)
LEMMA OrderIsSequence ==
  ASSUME NEW S \in SUBSET Hosts, NEW order \in SetToSeqs(S)
  PROVE  /\ order \in Seq(S) /\ Len(order) \in Nat
         /\ \A k \in 1..Len(order) : order[k] \in S
<1>1. IsFiniteSet(S) /\ Cardinality(S) \in Nat
  BY HostsAssumption, FS_Subset, FS_CardinalityType
<1>2. order \in [1..Cardinality(S) -> S]
  BY DEF SetToSeqs
<1>3. order \in Seq(S)
  BY <1>1, <1>2
<1>. QED BY <1>3

LEMMA SomeOrder ==
  ASSUME NEW S \in SUBSET Hosts
  PROVE  SetToSeq(S) \in Seq(Hosts)
<1>1. IsFiniteSet(S) /\ Cardinality(S) \in Nat
  BY HostsAssumption, FS_Subset, FS_CardinalityType
<1>2. \E f \in [1..Cardinality(S) -> S] : IsInjective(f)
  <2>1. Bijection(1..Cardinality(S), S) # {}
    BY <1>1, FS_CardinalityType DEF ExistsBijection
  <2>. QED BY <2>1 DEF Bijection, Injection
<1>3. SetToSeq(S) \in [1..Cardinality(S) -> S]
  BY <1>2 DEF SetToSeq
<1>4. SetToSeq(S) \in [1..Cardinality(S) -> Hosts]
  BY <1>3
<1>. QED BY <1>1, <1>4

LEMMA HostIsNat == Hosts \subseteq Nat
  BY PortsAssumption DEF Hosts

-----------------------------------------------------------------------------
(***************************************************************************)
(* The root a bridge believes in after an operation: itself, the one it    *)
(* believed in, or one it has just heard of.                               *)
(***************************************************************************)
LEMMA ReconfigureRoot ==
  ASSUME NEW b, Updatable(b), NEW w \in Whims
  PROVE  Reconfigure(b, w).designated_root
           \in {b.bridge_id} \cup {b.port[p].info.root : p \in EnabledPorts(b)}
<1>. DEFINE u == ConfigurationUpdate(b)
<1>1. b \in Bridges
  BY DEF Updatable
<1>2. u \in Bridges /\ u.designated_root = RootSelection(b).designated_root
  BY <1>1, ConfigurationUpdateAgrees, ConfigurationUpdateSays DEF Selectable, Updatable
<1>. HIDE DEF u
<1>3. Reconfigure(b, w).designated_root = u.designated_root
  BY <1>2, PortStateSelectionShape DEF Reconfigure, u
<1>4. CASE RootCandidates(b) = {}
  <2>1. RootSelection(b).designated_root = b.bridge_id
    BY <1>1, <1>4 DEF RootSelection, Bridges
  <2>. QED BY <1>2, <1>3, <2>1
<1>5. CASE RootCandidates(b) # {}
  <2>1. BestRootPort(b) \in EnabledPorts(b)
    BY <1>1, <1>5, BestRootPortIsCandidate DEF RootCandidates
  <2>2. RootSelection(b).designated_root = b.port[BestRootPort(b)].info.root
    BY <1>1, <1>5 DEF RootSelection, Bridges
  <2>. QED BY <1>2, <1>3, <2>1, <2>2
<1>. QED BY <1>4, <1>5

LEMMA ReconfiguredRoot ==
  ASSUME NEW b, Updatable(b), HeardAlike(b), NEW w \in Whims
  PROVE  ReconfigureOrLead(b, w).designated_root \in {b.bridge_id, b.designated_root}
<1>. DEFINE next == Reconfigure(b, w)
<1>1. next.designated_root \in {b.bridge_id, b.designated_root}
  BY ReconfigureRoot DEF HeardAlike
<1>2. next \in Bridges
  BY ReconfigureSound DEF Sound
<1>3. next = Reconfigure(b, w)
  OBVIOUS
<1>. HIDE DEF next
<1>4. BecomeRootBridge(next, w).designated_root = next.designated_root
  BY <1>2, BecomeRootBridgeKeeps DEF SameStanding
<1>. QED BY <1>1, <1>3, <1>4 DEF ReconfigureOrLead

LEMMA ReceivedBpduRoot ==
  ASSUME NEW b, Sound(b), NEW p \in PortsOf(b), NEW w \in Whims,
         NEW c \in ConfigContents \cup OtherContents,
         NEW R, b.bridge_id \in R, b.designated_root \in R,
         c.type = "config" => c.root \in R
  PROVE  ReceivedBpdu(b, p, c, w).designated_root \in R
<1>1. b \in Bridges /\ p \in Ports
  BY DEF Sound, PortsOf
<1>2. CASE b.port[p].state = "disabled" \/ c.type = "malformed"
  BY <1>2 DEF ReceivedBpdu
<1>3. CASE b.port[p].state # "disabled" /\ c.type = "tcn"
  <2>. DEFINE t == TopologyChangeDetection(b, w)
  <2>1. ReceivedBpdu(b, p, c, w) = ReceivedTcnBpdu(b, p, w)
    BY <1>3 DEF ReceivedBpdu
  <2>2. ReceivedTcnBpdu(b, p, w) \in {b, AcknowledgeTopologyChange(t, p, w)}
    BY DEF ReceivedTcnBpdu
  <2>3. t \in Bridges /\ SameStanding(b, t)
    BY <1>1, TopologyChangeDetectionKeeps
  <2>. HIDE DEF t
  <2>4. AcknowledgeTopologyChange(t, p, w).designated_root = b.designated_root
    BY <1>1, <2>3, AcknowledgeTopologyChangeKeeps DEF SameStanding
  <2>. QED BY <2>1, <2>2, <2>4
<1>4. CASE b.port[p].state # "disabled" /\ c.type \notin {"malformed", "tcn"}
  <2>. DEFINE recorded == RecordConfigInformation(b, p, c)
              selected == Reconfigure(recorded, w)
              yielded == IF ~IsRootBridge(selected) /\ IsRootBridge(b)
                         THEN YieldRoot(selected, w)
                         ELSE selected
  <2>1. c \in ConfigContents /\ c.type = "config" /\ p \in EnabledPorts(b)
    BY <1>4 DEF ConfigContents, OtherContents, EnabledPorts
  <2>2. ReceivedBpdu(b, p, c, w) = ReceivedConfigBpdu(b, p, c, w)
    BY <1>4, <2>1 DEF ReceivedBpdu
  <2>3. /\ Updatable(recorded) /\ recorded.bridge_id = b.bridge_id
        /\ recorded.port[p].info.root = c.root
        /\ \A q \in EnabledPorts(recorded) \ {p} :
             recorded.port[q].info = b.port[q].info /\ q \in EnabledPorts(b)
    <3>1. /\ Prepared(b, recorded) /\ recorded.bridge_id = b.bridge_id
          /\ recorded.port[p].info = [root |-> c.root, cost |-> c.cost,
                                      bridge |-> c.bridge, port |-> c.port]
          /\ \A q \in EnabledPorts(recorded) \ {p} :
               recorded.port[q].info = b.port[q].info /\ q \in EnabledPorts(b)
      BY <2>1, RecordedPrepared
    <3>. HIDE DEF recorded
    <3>. QED BY <3>1 DEF Prepared
  <2>4. AcceptConfig(b, p, c, w) \in {yielded, FollowRoot(yielded, c, w)}
    BY DEF AcceptConfig
  <2>. HIDE DEF recorded
  <2>5. \A q \in EnabledPorts(recorded) : recorded.port[q].info.root \in R
    BY <2>1, <2>3 DEF Sound, PortsAgree
  <2>6. selected \in Bridges /\ selected.designated_root \in R
    BY <2>3, <2>5, ReconfigureSound, ReconfigureRoot DEF Sound
  <2>. HIDE DEF selected
  <2>7. yielded \in Bridges /\ yielded.designated_root \in R
    BY <2>6, YieldRootKeeps DEF SameStanding
  <2>. HIDE DEF yielded
  <2>8. FollowRoot(yielded, c, w).designated_root \in R
    BY <2>1, <2>7, FollowRootKeeps DEF SameStanding
  <2>9. TransmitConfigs(b, {p}, w).designated_root \in R
    BY <1>1, TransmitConfigsKeeps DEF SameStanding
  <2>. QED BY <2>2, <2>4, <2>7, <2>8, <2>9 DEF ReceivedConfigBpdu
<1>. QED BY <1>2, <1>3, <1>4

LEMMA MessageAgeTickRoot ==
  ASSUME NEW b, Sound(b), NEW p \in EnabledPorts(b), NEW ticks \in Int,
         NEW w \in Whims
  PROVE  MessageAgeTick(b, p, ticks, w).designated_root
           \in {b.bridge_id, b.designated_root}
<1>1. CASE TimerExpired(b.port[p].message_age_timer, ticks, b.times.max_age)
  BY <1>1, MessageAgeTickReconfigures, ReconfiguredRoot DEF Prepared
<1>2. CASE ~TimerExpired(b.port[p].message_age_timer, ticks, b.times.max_age)
  BY <1>2 DEF MessageAgeTick, Sound, Bridges
<1>. QED BY <1>1, <1>2

LEMMA PortTickRoot ==
  ASSUME NEW b, Sound(b), NEW p \in EnabledPorts(b), NEW ticks \in Int,
         NEW w \in Whims
  PROVE  PortTick(b, p, ticks, w).designated_root = b.designated_root
<1>. DEFINE t == ForwardDelayTick(b, p, ticks, w)
<1>1. t \in Bridges /\ t.designated_root = b.designated_root /\ p \in Ports
  BY ForwardDelayTickSound DEF Sound, EnabledPorts, PortsOf
<1>2. PortTick(b, p, ticks, w) = HoldTick(t, p, ticks, w)
  BY DEF PortTick
<1>. HIDE DEF t
<1>3. SameStanding(t, HoldTick(t, p, ticks, w))
  BY <1>1, HoldTickKeeps
<1>. QED BY <1>1, <1>2, <1>3 DEF SameStanding

-----------------------------------------------------------------------------
(***************************************************************************)
(* What the ports of a bridge know of, after an operation: their own       *)
(* names, what they knew of before, and what was heard, which is told by   *)
(* the port it was heard at and the names it came under.                   *)
(***************************************************************************)
OwnName(b, p) == b.port[p].info.bridge = b.bridge_id /\ b.port[p].info.port = p

Heeds(b, t, heard) ==
  /\ t.bridge_id = b.bridge_id
  /\ \A p \in PortsOf(t) :
       LET info == t.port[p].info
       IN  \/ OwnName(t, p)
           \/ p \in PortsOf(b) /\ info = b.port[p].info
           \/ <<p, info.bridge, info.port>> \in heard

LEMMA SameStandingHeeds ==
  ASSUME NEW b, NEW t, SameStanding(b, t)
  PROVE  Heeds(b, t, {})
BY DEF SameStanding, SamePort, Heeds, PortsOf

LEMMA HeedsTransitive ==
  ASSUME NEW b, NEW t, NEW u, NEW heard, Heeds(b, t, heard), Heeds(t, u, {})
  PROVE  Heeds(b, u, heard)
BY DEF Heeds, OwnName

LEMMA HeedsItself ==
  ASSUME NEW b
  PROVE  Heeds(b, b, {})
BY DEF Heeds

LEMMA PortStateSelectionHeeds ==
  ASSUME NEW b \in Bridges, NEW w \in Whims
  PROVE  Heeds(b, PortStateSelection(b, w), {}) /\ PortStateSelection(b, w) \in Bridges
<1>. DEFINE t == PortStateSelection(b, w)
<1>1. /\ t \in Bridges /\ t.bridge_id = b.bridge_id
      /\ t.port = [p \in Ports |-> SelectedPort(b, p)]
  BY PortStateSelectionShape
<1>2. \A p \in Ports : t.port[p].info = b.port[p].info
  BY <1>1, SelectedPortAgrees
<1>3. \A p \in Ports : p \notin EnabledPorts(b) => t.port[p] = b.port[p]
  BY <1>1, SelectedPortAgrees
<1>. HIDE DEF t
<1>4. PortsOf(t) \subseteq PortsOf(b)
  BY <1>3 DEF PortsOf, EnabledPorts
<1>5. Heeds(b, t, {})
  BY <1>1, <1>2, <1>4 DEF Heeds, PortsOf
<1>. QED BY <1>1, <1>5 DEF t

LEMMA ReconfigureHeeds ==
  ASSUME NEW b \in Bridges, NEW w \in Whims
  PROVE  /\ Heeds(b, Reconfigure(b, w), {}) /\ Reconfigure(b, w) \in Bridges
         /\ Heeds(b, ReconfigureOrLead(b, w), {})
<1>. DEFINE r == RootSelection(b)
            x(p) == [r.port[p] EXCEPT !.info = OwnInfo(r, p)]
            port == [p \in Ports |->
                       IF p \in EnabledPorts(r) /\ ServesSegment(r, p)
                       THEN x(p) ELSE r.port[p]]
            u == [r EXCEPT !.port = port]
            next == Reconfigure(b, w)
<1>1. r \in Bridges /\ r.bridge_id = b.bridge_id /\ r.port = b.port
  BY RootSelectionSelects
<1>2. ConfigurationUpdate(b) = u
  BY DEF ConfigurationUpdate, DesignatedPortSelection
<1>. HIDE DEF r
<1>3. \A p \in Ports :
        /\ x(p) \in PortRecords /\ x(p).state = r.port[p].state
        /\ x(p).info = OwnInfo(r, p) /\ r.port[p] \in PortRecords
  <2>1. TAKE p \in Ports
  <2>2. r.port[p] \in PortRecords /\ OwnInfo(r, p) \in Infos
    BY <1>1, HostIsNat DEF Bridges, OwnInfo, Infos, Hosts
  <2>. QED BY <2>2 DEF PortRecords
<1>. HIDE DEF x
<1>4. /\ port \in [Ports -> PortRecords]
      /\ \A p \in Ports : /\ port[p].state = b.port[p].state
                          /\ port[p].info \in {b.port[p].info, OwnInfo(r, p)}
  BY <1>1, <1>3
<1>. HIDE DEF port
<1>5. u \in Bridges /\ u.bridge_id = b.bridge_id /\ u.port = port
  BY <1>1, <1>4 DEF Bridges
<1>6. Heeds(b, u, {})
  <2>1. \A p \in Ports : OwnInfo(r, p).bridge = b.bridge_id /\ OwnInfo(r, p).port = p
    BY <1>1 DEF OwnInfo
  <2>. HIDE DEF u
  <2>. QED BY <1>4, <1>5, <2>1 DEF Heeds, OwnName, PortsOf
<1>. HIDE DEF u
<1>7. Heeds(b, next, {}) /\ next \in Bridges
  BY <1>2, <1>5, <1>6, PortStateSelectionHeeds, HeedsTransitive DEF Reconfigure
<1>8. ReconfigureOrLead(b, w) \in {next, BecomeRootBridge(next, w)}
  BY DEF ReconfigureOrLead
<1>. HIDE DEF next
<1>9. Heeds(next, BecomeRootBridge(next, w), {})
  BY <1>7, BecomeRootBridgeKeeps, SameStandingHeeds
<1>10. Heeds(b, BecomeRootBridge(next, w), {})
  BY <1>7, <1>9, HeedsTransitive
<1>. QED BY <1>7, <1>8, <1>10 DEF next

LEMMA PortReplacedHeeds ==
  ASSUME NEW b \in Bridges, NEW p \in PortsOf(b), NEW x \in PortRecords,
         x.info = b.port[p].info \/ x.info = OwnInfo(b, p)
  PROVE  /\ Heeds(b, [b EXCEPT !.port[p] = x], {})
         /\ [b EXCEPT !.port[p] = x] \in Bridges
<1>. DEFINE t == [b EXCEPT !.port[p] = x]
<1>1. p \in Ports
  BY DEF PortsOf
<1>2. /\ t \in Bridges /\ t.port[p] = x /\ t.bridge_id = b.bridge_id
      /\ \A q \in Ports \ {p} : t.port[q] = b.port[q]
  BY <1>1, PortReplaced
<1>. HIDE DEF t
<1>3. OwnInfo(b, p).bridge = b.bridge_id /\ OwnInfo(b, p).port = p
  BY DEF OwnInfo
<1>4. Heeds(b, t, {})
  BY <1>1, <1>2, <1>3 DEF Heeds, OwnName, PortsOf
<1>. QED BY <1>2, <1>4 DEF t

LEMMA ReceivedBpduHeeds ==
  ASSUME NEW b, Sound(b), NEW p \in PortsOf(b), NEW w \in Whims,
         NEW c \in ConfigContents \cup OtherContents, NEW heard,
         c.type = "config" => <<p, c.bridge, c.port>> \in heard
  PROVE  Heeds(b, ReceivedBpdu(b, p, c, w), heard)
<1>1. b \in Bridges /\ p \in Ports
  BY DEF Sound, PortsOf
<1>2. \A t : Heeds(b, t, {}) => Heeds(b, t, heard)
  BY DEF Heeds
<1>3. CASE b.port[p].state = "disabled" \/ c.type = "malformed"
  BY <1>2, <1>3, HeedsItself DEF ReceivedBpdu
<1>4. CASE b.port[p].state # "disabled" /\ c.type = "tcn"
  <2>. DEFINE t == TopologyChangeDetection(b, w)
  <2>1. ReceivedBpdu(b, p, c, w) = ReceivedTcnBpdu(b, p, w)
    BY <1>4 DEF ReceivedBpdu
  <2>2. ReceivedTcnBpdu(b, p, w) \in {b, AcknowledgeTopologyChange(t, p, w)}
    BY DEF ReceivedTcnBpdu
  <2>3. t \in Bridges /\ Heeds(b, t, {})
    BY <1>1, TopologyChangeDetectionKeeps, SameStandingHeeds
  <2>. HIDE DEF t
  <2>4. Heeds(t, AcknowledgeTopologyChange(t, p, w), {})
    BY <1>1, <2>3, AcknowledgeTopologyChangeKeeps, SameStandingHeeds
  <2>5. Heeds(b, AcknowledgeTopologyChange(t, p, w), {})
    BY <2>3, <2>4, HeedsTransitive
  <2>. QED BY <1>2, <2>1, <2>2, <2>5, HeedsItself
<1>5. CASE b.port[p].state # "disabled" /\ c.type \notin {"malformed", "tcn"}
  <2>. DEFINE recorded == RecordConfigInformation(b, p, c)
              selected == Reconfigure(recorded, w)
              yielded == IF ~IsRootBridge(selected) /\ IsRootBridge(b)
                         THEN YieldRoot(selected, w)
                         ELSE selected
              info == [root |-> c.root, cost |-> c.cost,
                       bridge |-> c.bridge, port |-> c.port]
              x == [b.port[p] EXCEPT !.info = info, !.message_age_timer = c.message_age]
  <2>1. c \in ConfigContents /\ c.type = "config"
    BY <1>5 DEF ConfigContents, OtherContents
  <2>2. ReceivedBpdu(b, p, c, w) = ReceivedConfigBpdu(b, p, c, w)
    BY <1>5, <2>1 DEF ReceivedBpdu
  <2>3. recorded = [b EXCEPT !.port[p] = x]
    BY <1>1 DEF RecordConfigInformation, Bridges
  <2>4. x \in PortRecords /\ x.info.bridge = c.bridge /\ x.info.port = c.port
    <3>1. b.port[p] \in PortRecords
      BY <1>1 DEF Bridges
    <3>2. info \in Infos /\ c.message_age \in Timers
      BY <2>1 DEF ConfigContents, Infos, Timers
    <3>. QED BY <3>1, <3>2 DEF PortRecords
  <2>5. AcceptConfig(b, p, c, w) \in {yielded, FollowRoot(yielded, c, w)}
    BY DEF AcceptConfig
  <2>. HIDE DEF x
  <2>6. recorded \in Bridges /\ Heeds(b, recorded, heard)
    <3>. DEFINE t == [b EXCEPT !.port[p] = x]
    <3>1. /\ t \in Bridges /\ t.port[p] = x /\ t.bridge_id = b.bridge_id
          /\ \A q \in Ports \ {p} : t.port[q] = b.port[q]
      BY <1>1, <2>4, PortReplaced
    <3>. HIDE DEF t
    <3>2. Heeds(b, t, heard)
      BY <2>1, <2>4, <3>1 DEF Heeds, PortsOf
    <3>. QED BY <2>3, <3>1, <3>2 DEF t
  <2>. HIDE DEF recorded
  <2>7. selected \in Bridges /\ Heeds(b, selected, heard)
    BY <2>6, ReconfigureHeeds, HeedsTransitive
  <2>. HIDE DEF selected
  <2>8. yielded \in Bridges /\ Heeds(b, yielded, heard)
    <3>1. YieldRoot(selected, w) \in Bridges /\ Heeds(selected, YieldRoot(selected, w), {})
      BY <2>7, YieldRootKeeps, SameStandingHeeds
    <3>. QED BY <2>7, <3>1, HeedsTransitive
  <2>. HIDE DEF yielded
  <2>9. Heeds(b, FollowRoot(yielded, c, w), heard)
    <3>1. Heeds(yielded, FollowRoot(yielded, c, w), {})
      BY <2>1, <2>8, FollowRootKeeps, SameStandingHeeds
    <3>. QED BY <2>8, <3>1, HeedsTransitive
  <2>10. Heeds(b, TransmitConfigs(b, {p}, w), heard)
    BY <1>1, <1>2, TransmitConfigsKeeps, SameStandingHeeds
  <2>. QED BY <1>2, <2>2, <2>5, <2>8, <2>9, <2>10, HeedsItself DEF ReceivedConfigBpdu
<1>. QED BY <1>3, <1>4, <1>5

LEMMA MessageAgeTickHeeds ==
  ASSUME NEW b, Sound(b), NEW p \in EnabledPorts(b), NEW ticks \in Int,
         NEW w \in Whims
  PROVE  Heeds(b, MessageAgeTick(b, p, ticks, w), {})
<1>. DEFINE timer == TimerAfter(b.port[p].message_age_timer, ticks, b.times.max_age)
            x == [b.port[p] EXCEPT !.message_age_timer = timer]
            aged == [b EXCEPT !.port[p] = x]
            y == [x EXCEPT !.info = OwnInfo(aged, p)]
            own == [aged EXCEPT !.port[p] = y]
<1>1. b \in Bridges /\ p \in Ports /\ b.port[p] \in PortRecords /\ p \in PortsOf(b)
  BY DEF Sound, EnabledPorts, PortsOf, Bridges
<1>2. timer \in Timers
  BY <1>1, TimerAfterShape DEF PortRecords, Bridges, Times
<1>. HIDE DEF timer
<1>3. x \in PortRecords /\ x.info = b.port[p].info /\ x.state = b.port[p].state
  BY <1>1, <1>2 DEF PortRecords
<1>4. MessageAgeTick(b, p, ticks, w) \in {aged, ReconfigureOrLead(own, w)}
  <2>1. aged = [b EXCEPT !.port[p].message_age_timer =
                  TimerAfter(@, ticks, b.times.max_age)]
    BY <1>1 DEF timer, Bridges
  <2>2. aged.port[p] = x
    BY <1>1 DEF Bridges
  <2>3. BecomeDesignatedPort(aged, p) = own
    BY <2>2 DEF BecomeDesignatedPort
  <2>. QED BY <2>1, <2>3 DEF MessageAgeTick, MessageAgeTimerExpiry
<1>. HIDE DEF x
<1>5. /\ Heeds(b, aged, {}) /\ aged \in Bridges /\ aged.port[p] = x
  BY <1>1, <1>3, PortReplacedHeeds, PortReplaced
<1>. HIDE DEF aged
<1>6. p \in PortsOf(aged) /\ y \in PortRecords /\ y.info = OwnInfo(aged, p)
  <2>1. OwnInfo(aged, p) \in Infos
    BY <1>1, <1>5, HostIsNat DEF OwnInfo, Infos, Bridges, Hosts
  <2>. QED BY <1>1, <1>3, <1>5, <2>1 DEF PortsOf, PortRecords
<1>. HIDE DEF y
<1>7. Heeds(aged, own, {}) /\ own \in Bridges
  BY <1>5, <1>6, PortReplacedHeeds
<1>. HIDE DEF own
<1>8. Heeds(b, ReconfigureOrLead(own, w), {})
  BY <1>5, <1>7, ReconfigureHeeds, HeedsTransitive
<1>. QED BY <1>4, <1>5, <1>8

LEMMA PortTickHeeds ==
  ASSUME NEW b, Sound(b), NEW p \in EnabledPorts(b), NEW ticks \in Int,
         NEW w \in Whims
  PROVE  Heeds(b, PortTick(b, p, ticks, w), {})
<1>. DEFINE timer == TimerAfter(b.port[p].forward_delay_timer, ticks, b.times.forward_delay)
            x == [b.port[p] EXCEPT !.forward_delay_timer = timer]
            aged == [b EXCEPT !.port[p] = x]
            learning == [WithState(x, "learning") EXCEPT !.forward_delay_timer = 0]
            forwarding == WithState(x, "forwarding")
            open == [aged EXCEPT !.port[p] = forwarding]
            t == ForwardDelayTick(b, p, ticks, w)
<1>1. b \in Bridges /\ p \in Ports /\ b.port[p] \in PortRecords /\ p \in PortsOf(b)
  BY DEF Sound, EnabledPorts, PortsOf, Bridges
<1>2. timer \in Timers
  BY <1>1, TimerAfterShape DEF PortRecords, Bridges, Times
<1>. HIDE DEF timer
<1>3. x \in PortRecords /\ x.info = b.port[p].info /\ x.state = b.port[p].state
  BY <1>1, <1>2 DEF PortRecords
<1>4. t \in {aged, [aged EXCEPT !.port[p] = learning], open,
             TopologyChangeDetection(open, w)}
  <2>1. aged = [b EXCEPT !.port[p].forward_delay_timer =
                  TimerAfter(@, ticks, b.times.forward_delay)]
    BY <1>1 DEF timer, Bridges
  <2>2. aged.port[p] = x
    BY <1>1 DEF Bridges
  <2>3. ForwardDelayTimerExpiry(aged, p, w)
          \in {aged, [aged EXCEPT !.port[p] = learning], open,
               TopologyChangeDetection(open, w)}
    BY <2>2 DEF ForwardDelayTimerExpiry
  <2>. QED BY <2>1, <2>3 DEF ForwardDelayTick
<1>. HIDE DEF x
<1>5. /\ learning \in PortRecords /\ learning.info = b.port[p].info
      /\ forwarding \in PortRecords /\ forwarding.info = b.port[p].info
  <2>. DEFINE y == WithState(x, "learning")
  <2>1. y \in PortRecords /\ y.info = x.info
    BY <1>3 DEF WithState, PortRecords, StpStates
  <2>2. forwarding \in PortRecords /\ forwarding.info = x.info
    BY <1>3 DEF WithState, PortRecords, StpStates
  <2>. HIDE DEF y
  <2>3. learning \in PortRecords /\ learning.info = y.info
    BY <2>1, TimersHold DEF PortRecords, y
  <2>. QED BY <1>3, <2>1, <2>2, <2>3
<1>. HIDE DEF learning, forwarding
<1>6. /\ [aged EXCEPT !.port[p] = learning] = [b EXCEPT !.port[p] = learning]
      /\ open = [b EXCEPT !.port[p] = forwarding]
  BY <1>1 DEF Bridges
<1>7. /\ Heeds(b, aged, {}) /\ Heeds(b, [aged EXCEPT !.port[p] = learning], {})
      /\ Heeds(b, open, {}) /\ open \in Bridges
  BY <1>1, <1>3, <1>5, <1>6, PortReplacedHeeds
<1>. HIDE DEF aged, open
<1>8. Heeds(b, TopologyChangeDetection(open, w), {})
  BY <1>7, TopologyChangeDetectionKeeps, SameStandingHeeds, HeedsTransitive
<1>9. Heeds(b, t, {}) /\ t \in Bridges
  BY <1>4, <1>7, <1>8, ForwardDelayTickSound DEF Sound
<1>10. PortTick(b, p, ticks, w) = HoldTick(t, p, ticks, w)
  BY DEF PortTick
<1>. HIDE DEF t
<1>11. Heeds(t, HoldTick(t, p, ticks, w), {})
  BY <1>1, <1>9, HoldTickKeeps, SameStandingHeeds
<1>. QED BY <1>9, <1>10, <1>11, HeedsTransitive

-----------------------------------------------------------------------------
(***************************************************************************)
(* What each host keeps: the bridge that bears its id is sound, owes and   *)
(* leads and carries on what its role demands, and knows of no root that   *)
(* is not a host.  What it says, it says in its own name, and what a port  *)
(* of it knows of is its own, or was said by the neighbour there.          *)
(***************************************************************************)
Honest(h, said) ==
  \A bpdu \in said :
    bpdu.type = "config" =>
      bpdu.bridge = h /\ bpdu.port = bpdu.via /\ bpdu.root \in Hosts

Heard(b) ==
  \A g \in PortsOf(b) :
    \/ OwnName(b, g)
    \/ b.port[g].info.bridge = g /\ b.port[g].info.port = b.bridge_id

Stands(h, b) ==
  /\ Sound(b) /\ OwesByRole(b)
  /\ Leads(b) /\ Carries(b)
  /\ b.bridge_id = h
  /\ b.designated_root \in Hosts
  /\ Honest(h, b.out) /\ Heard(b)

Silent(h) == {b \in Bridges : Stands(h, b) /\ b.out = {}}

USE CostAssumption, TimesAssumption, SpanAssumption

(***************************************************************************)
(* An operation on a bridge that has said nothing yet leaves it standing.  *)
(***************************************************************************)
LEMMA ConveyedStands ==
  ASSUME NEW h \in Hosts, NEW b, Stands(h, b), NEW t, Conveys(b, t), Sound(t),
         t.designated_root \in Hosts,
         NEW heard, Heeds(b, t, heard), heard \subseteq {<<g, g, h>> : g \in Hosts}
  PROVE  Stands(h, t)
<1>1. Honest(h, t.out)
  BY DEF Conveys, Stands, TalksByRole, SpokeByRole, Believed, Honest
<1>2. Heard(t)
  <2>1. SUFFICES ASSUME NEW g \in PortsOf(t), ~OwnName(t, g)
                 PROVE  t.port[g].info.bridge = g /\ t.port[g].info.port = h
    BY DEF Heard, Heeds, Stands
  <2>2. CASE g \in PortsOf(b) /\ t.port[g].info = b.port[g].info
    BY <2>1, <2>2 DEF Stands, Heard, Heeds, OwnName
  <2>3. CASE <<g, t.port[g].info.bridge, t.port[g].info.port>> \in heard
    BY <2>3
  <2>. QED BY <2>1, <2>2, <2>3 DEF Heeds
<1>. QED BY <1>1, <1>2 DEF Conveys, Stands, TalksByRole

LEMMA SilentPoised ==
  ASSUME NEW h, NEW b \in Silent(h)
  PROVE  Poised(b) /\ Stands(h, b) /\ b \in Bridges
  BY DEF Silent, Stands, Poised

(***************************************************************************)
(* A bridge that differs in what it has said, the flags that OnTimer       *)
(* fetches and nothing else stands as well.                                *)
(***************************************************************************)
LEMMA SameStands ==
  ASSUME NEW h, NEW b, Stands(h, b), NEW t \in Bridges, SameStanding(b, t),
         SameNews(b, t), Honest(h, t.out),
         \A p \in Ports : /\ t.port[p].config_pending = b.port[p].config_pending
                          /\ t.port[p].topology_change_ack
                               = b.port[p].topology_change_ack
  PROVE  Stands(h, t)
<1>1. Sound(t)
  BY SameStandingSound DEF Stands
<1>2. Leads(t) /\ Carries(t)
  BY SameNewsKeeps, SameRoles DEF Stands
<1>3. OwesByRole(t)
  <2>1. EnabledPorts(t) = EnabledPorts(b) /\ EnabledPorts(b) \subseteq Ports
    BY SameSets DEF EnabledPorts, PortsOf
  <2>. QED BY <2>1, SameSets DEF Stands, OwesByRole
<1>4. Heard(t)
  BY DEF Stands, Heard, OwnName, PortsOf, SameStanding, SamePort
<1>. QED BY <1>1, <1>2, <1>3, <1>4 DEF Stands, SameStanding

LEMMA QuietStands ==
  ASSUME NEW h, NEW b, Stands(h, b)
  PROVE  /\ Quiet(b) \in Silent(h)
         /\ PortsOf(Quiet(b)) = PortsOf(b)
         /\ EnabledPorts(Quiet(b)) = EnabledPorts(b)
<1>1. b \in Bridges
  BY DEF Stands, Sound
<1>2. /\ Quiet(b) \in Bridges /\ Quiet(b).out = {} /\ Quiet(b).port = b.port
      /\ SameStanding(b, Quiet(b)) /\ SameNews(b, Quiet(b))
  BY <1>1 DEF Quiet, Bridges, SameStanding, SamePort, SameNews
<1>3. Honest(h, {})
  BY DEF Honest
<1>4. Stands(h, Quiet(b))
  BY <1>2, <1>3, SameStands
<1>. QED BY <1>2, <1>4, SameSets DEF Silent

LEMMA ThenStands ==
  ASSUME NEW h, NEW b, Stands(h, b), NEW t, Stands(h, t)
  PROVE  /\ Stands(h, Then(b, t))
         /\ EnabledPorts(Then(b, t)) = EnabledPorts(t)
<1>. DEFINE u == Then(b, t)
<1>1. b \in Bridges /\ t \in Bridges
  BY DEF Stands, Sound
<1>2. /\ u \in Bridges /\ u.out = t.out \cup b.out /\ u.port = t.port
      /\ SameStanding(t, u) /\ SameNews(t, u)
  BY <1>1 DEF Then, Bridges, SameStanding, SamePort, SameNews
<1>. HIDE DEF u
<1>3. Honest(h, u.out)
  BY <1>2 DEF Stands, Honest
<1>4. Stands(h, u) /\ EnabledPorts(u) = EnabledPorts(t)
  BY <1>2, <1>3, SameStands, SameSets
<1>. QED BY <1>4 DEF u

LEMMA ReportedStands ==
  ASSUME NEW h, NEW b, Stands(h, b)
  PROVE  Stands(h, Reported(b))
<1>. DEFINE port == [p \in Ports |-> [b.port[p] EXCEPT !.state_changed = FALSE]]
            t == [b EXCEPT !.port = port, !.fdb_needs_flush = FALSE]
<1>1. b \in Bridges /\ \A p \in Ports : b.port[p] \in PortRecords
  BY DEF Stands, Sound, Bridges
<1>2. \A p \in Ports :
        /\ port[p] \in PortRecords /\ SamePort(b.port[p], port[p])
        /\ port[p].config_pending = b.port[p].config_pending
        /\ port[p].topology_change_ack = b.port[p].topology_change_ack
  BY <1>1 DEF PortRecords, SamePort
<1>3. port \in [Ports -> PortRecords]
  BY <1>2
<1>. HIDE DEF port
<1>4. /\ t \in Bridges /\ t.port = port /\ t.out = b.out
      /\ SameStanding(b, t) /\ SameNews(b, t)
  BY <1>1, <1>2, <1>3 DEF Bridges, SameStanding, SameNews
<1>5. Reported(b) = t
  BY DEF Reported, port
<1>. HIDE DEF t
<1>6. Stands(h, t)
  BY <1>2, <1>4, SameStands DEF Stands
<1>. QED BY <1>5, <1>6

-----------------------------------------------------------------------------
(***************************************************************************)
(* The operations of a host.                                               *)
(***************************************************************************)
LEMMA NewBridgeStands ==
  ASSUME NEW h \in Hosts
  PROVE  NewBridge(h, DefaultTimes) \in Silent(h)
<1>. DEFINE b == NewBridge(h, DefaultTimes)
<1>1. AbsentPort \in PortRecords /\ AbsentPort.state = "absent"
  BY TimersHold DEF AbsentPort, PortRecords, Infos
<1>2. /\ b \in Bridges /\ b.bridge_id = h
      /\ b.bridge_id = b.designated_root /\ b.root_path_cost = 0
      /\ b.root_port = NoPort
      /\ b.hello_timer = DefaultTimes.hello_time
      /\ b.tcn_timer = Off /\ b.topology_change_timer = Off
      /\ ~b.topology_change /\ ~b.topology_change_detected
      /\ b.out = {}
      /\ \A p \in Ports : b.port[p].state = "absent"
  <2>. HIDE DEF AbsentPort
  <2>. QED BY <1>1, TimersHold, HostIsNat DEF NewBridge, Bridges, Times
<1>. HIDE DEF b
<1>3. PortsOf(b) = {} /\ EnabledPorts(b) = {}
  BY <1>2 DEF PortsOf, EnabledPorts
<1>4. Sound(b)
  BY <1>2, <1>3 DEF Sound, RootPortOK, RootAgrees, PortsAgree, RolesAgree,
     HeardInfoIsTimed, ProgressIsTimed
<1>5. Leads(b) /\ Carries(b)
  BY <1>2, TimersHold DEF Leads, Leading, Carries, Times
<1>6. OwesByRole(b) /\ Honest(h, b.out) /\ Heard(b)
  BY <1>2, <1>3 DEF OwesByRole, Honest, Heard
<1>. QED BY <1>2, <1>4, <1>5, <1>6 DEF Silent, Stands, b

LEMMA WithPortStands ==
  ASSUME NEW h \in Hosts, NEW b \in Silent(h), NEW g \in Ports,
         NEW reused \in BOOLEAN, NEW w \in Whims
  PROVE  Stands(h, WithPort(b, g, reused, w))
<1>. DEFINE t == CreatePort(b, g, DefaultCost, reused)
            u == PortEnable(t, g, w)
<1>1. Poised(b) /\ Stands(h, b) /\ b \in Bridges /\ Sound(b)
  BY SilentPoised DEF Stands
<1>2. Poised(t) /\ Conveys(b, t) /\ Sound(t) /\ g \in PortsOf(t)
  BY <1>1, CreatePortConveys, CreatePortSound
<1>3. t.designated_root = b.designated_root /\ t \in Bridges
  BY <1>1, <1>2 DEF CreatePort, Bridges, Sound
<1>4. WithPort(b, g, reused, w) = u
  BY DEF WithPort
<1>8. Heeds(b, t, {})
  <2>1. /\ t.bridge_id = b.bridge_id /\ \A q \in Ports \ {g} : t.port[q] = b.port[q]
        /\ t.port[g] = b.port[g] \/ t.port[g].info = OwnInfo(b, g)
    BY <1>1 DEF CreatePort, InitialPort, Bridges
  <2>2. OwnInfo(b, g).bridge = b.bridge_id /\ OwnInfo(b, g).port = g
    BY DEF OwnInfo
  <2>. HIDE DEF t
  <2>. QED BY <2>1, <2>2 DEF Heeds, OwnName, PortsOf
<1>. HIDE DEF t
<1>5. Conveys(t, u) /\ Sound(u)
  BY <1>2, PortEnableConveys, PortEnableSound
<1>6. u.designated_root = t.designated_root /\ Heeds(t, u, {})
  <2>. DEFINE x == InitialPort(t, g, t.port[g].path_cost, "blocking", TRUE)
              v == [t EXCEPT !.port[g] = x]
  <2>1. u = t \/ u = PortStateSelection(v, w)
    BY <1>2 DEF PortEnable, Sound, Bridges
  <2>2. x \in PortRecords /\ x.info = OwnInfo(t, g)
    <3>1. t.port[g] \in PortRecords
      BY <1>3 DEF Bridges
    <3>2. t.port[g].path_cost \in Nat \ {0}
      BY <3>1 DEF PortRecords
    <3>3. OwnInfo(t, g) \in Infos
      BY <1>3, HostIsNat DEF OwnInfo, Infos, Bridges, Hosts
    <3>. QED BY <3>2, <3>3, TimersHold DEF InitialPort, PortRecords, StpStates
  <2>. HIDE DEF x
  <2>3. v \in Bridges /\ v.designated_root = t.designated_root /\ Heeds(t, v, {})
    BY <1>2, <1>3, <2>2, PortReplaced, PortReplacedHeeds
  <2>. HIDE DEF v, u
  <2>4. Heeds(t, PortStateSelection(v, w), {})
    BY <2>3, PortStateSelectionHeeds, HeedsTransitive
  <2>. QED BY <2>1, <2>3, <2>4, PortStateSelectionShape, HeedsItself
<1>. HIDE DEF u
<1>7. Conveys(b, u) /\ Heeds(b, u, {})
  BY <1>2, <1>5, <1>6, <1>8, ConveysTransitive, HeedsTransitive
<1>. QED BY <1>1, <1>3, <1>4, <1>5, <1>6, <1>7, ConveyedStands DEF Stands

LEMMA DestroyPortStands ==
  ASSUME NEW h \in Hosts, NEW b \in Silent(h), NEW g \in PortsOf(b)
  PROVE  Stands(h, DestroyPort(b, g))
<1>1. Poised(b) /\ Stands(h, b) /\ b \in Bridges /\ Sound(b)
  BY SilentPoised DEF Stands
<1>2. DestroyPort(b, g).designated_root = b.designated_root
  BY <1>1 DEF DestroyPort, Bridges
<1>3. Heeds(b, DestroyPort(b, g), {})
  BY <1>1 DEF DestroyPort, AbsentPort, Heeds, PortsOf, Bridges
<1>. QED BY <1>1, <1>2, <1>3, DestroyPortSound, DestroyPortConveys, ConveyedStands
        DEF Stands

(***************************************************************************)
(* The receiver looks at what a BPDU says, not at the port it left by.     *)
(***************************************************************************)
Contents(bpdu) ==
  IF bpdu.type = "config"
  THEN [type |-> "config", root |-> bpdu.root, cost |-> bpdu.cost,
        bridge |-> bpdu.bridge, port |-> bpdu.port,
        message_age |-> bpdu.message_age, times |-> bpdu.times,
        tca |-> bpdu.tca, tc |-> bpdu.tc]
  ELSE [type |-> "tcn"]

LEMMA ContentsReceived ==
  ASSUME NEW bpdu \in SentBpdus, NEW b, NEW p, NEW w
  PROVE  /\ Contents(bpdu) \in ConfigContents \cup OtherContents
         /\ Contents(bpdu).type = bpdu.type
         /\ bpdu.type = "config" =>
              /\ Contents(bpdu).root = bpdu.root
              /\ Contents(bpdu).bridge = bpdu.bridge
              /\ Contents(bpdu).port = bpdu.port
         /\ ReceivedBpdu(b, p, bpdu, w) = ReceivedBpdu(b, p, Contents(bpdu), w)
<1>. DEFINE c == Contents(bpdu)
<1>1. CASE bpdu.type = "config"
  <2>1. /\ c.type = "config" /\ c.root = bpdu.root /\ c.cost = bpdu.cost
        /\ c.bridge = bpdu.bridge /\ c.port = bpdu.port
        /\ c.message_age = bpdu.message_age /\ c.times = bpdu.times
        /\ c.tca = bpdu.tca /\ c.tc = bpdu.tc
        /\ c \in ConfigContents
    BY <1>1, HostIsNat DEF Contents, SentBpdus, ConfigContents, Hosts
  <2>. HIDE DEF c
  <2>2. /\ RecordConfigInformation(b, p, c) = RecordConfigInformation(b, p, bpdu)
        /\ SupersedesPortInfo(b, p, c) <=> SupersedesPortInfo(b, p, bpdu)
        /\ \A x : FollowRoot(x, c, w) = FollowRoot(x, bpdu, w)
    BY <2>1 DEF RecordConfigInformation, SupersedesPortInfo, FollowRoot
  <2>3. AcceptConfig(b, p, c, w) = AcceptConfig(b, p, bpdu, w)
    BY <2>2 DEF AcceptConfig
  <2>4. ReceivedConfigBpdu(b, p, c, w) = ReceivedConfigBpdu(b, p, bpdu, w)
    BY <2>1, <2>2, <2>3 DEF ReceivedConfigBpdu
  <2>5. ReceivedBpdu(b, p, c, w) = ReceivedBpdu(b, p, bpdu, w)
    BY <1>1, <2>1, <2>4 DEF ReceivedBpdu
  <2>. QED BY <1>1, <2>1, <2>5 DEF c
<1>2. CASE bpdu.type # "config"
  <2>1. bpdu.type = "tcn" /\ c.type = "tcn" /\ c \in OtherContents
    BY <1>2 DEF SentBpdus, Contents, OtherContents
  <2>. HIDE DEF c
  <2>2. ReceivedBpdu(b, p, c, w) = ReceivedBpdu(b, p, bpdu, w)
    BY <2>1 DEF ReceivedBpdu
  <2>. QED BY <2>1, <2>2 DEF c
<1>. QED BY <1>1, <1>2

LEMMA ReceivedStands ==
  ASSUME NEW h \in Hosts, NEW b \in Silent(h), NEW g \in PortsOf(b), g # h,
         NEW w \in Whims, NEW bpdu \in SentBpdus, Honest(g, {bpdu}), bpdu.via = h
  PROVE  Stands(h, ReceivedBpdu(b, g, bpdu, w))
<1>. DEFINE c == Contents(bpdu)
            t == ReceivedBpdu(b, g, c, w)
            heard == {<<g, g, h>>}
<1>1. Poised(b) /\ Stands(h, b) /\ b \in Bridges /\ Sound(b) /\ g \in Hosts
  BY SilentPoised DEF Stands, PortsOf, Hosts
<1>2. /\ c \in ConfigContents \cup OtherContents
      /\ c.type = "config" => c.root \in Hosts /\ c.bridge = g /\ c.port = h
      /\ ReceivedBpdu(b, g, bpdu, w) = t
  BY ContentsReceived DEF Honest
<1>. HIDE DEF c
<1>3. c.type = "config" => ~(c.bridge = b.bridge_id /\ c.port = g)
  BY <1>1, <1>2 DEF Stands
<1>4. Conveys(b, t) /\ Sound(t)
  BY <1>1, <1>2, <1>3, ReceivedBpduConveys, ReceivedBpduSound
<1>5. t.designated_root \in Hosts
  BY <1>1, <1>2, ReceivedBpduRoot DEF Stands
<1>6. Heeds(b, t, heard) /\ heard \subseteq {<<x, x, h>> : x \in Hosts}
  BY <1>1, <1>2, ReceivedBpduHeeds
<1>. HIDE DEF t, heard
<1>. QED BY <1>1, <1>2, <1>4, <1>5, <1>6, ConveyedStands

LEMMA WithPortsStands ==
  ASSUME NEW h \in Hosts, NEW others \in Seq(Hosts)
  PROVE  WithPorts(h, others) \in Silent(h)
<1>. DEFINE n == Len(others)
            S == Silent(h)
            a == NewBridge(h, DefaultTimes)
            E(x, k) == Quiet(WithPort(x, others[k], FALSE, FirstWhim))
            step == [y \in S \X (1..n) |-> E(y[1], y[2])]
            Follows(f) == f = [k \in 0..n |-> IF k = 0 THEN a ELSE E(f[k - 1], k)]
            walk == CHOOSE f : Follows(f)
<1>1. n \in Nat /\ \A k \in 1..n : others[k] \in Ports
  BY DEF Hosts
<1>2. a \in S
  BY NewBridgeStands
<1>3. \A x \in S, k \in 1..n : E(x, k) \in S
  <2>1. TAKE x \in S, k \in 1..n
  <2>2. FirstWhim \in Whims
    BY DEF FirstWhim, Whims
  <2>3. Stands(h, WithPort(x, others[k], FALSE, FirstWhim))
    BY <1>1, <2>2, WithPortStands
  <2>. QED BY <2>3, QuietStands
<1>4. WithPorts(h, others) = walk[n]
  BY DEF WithPorts
<1>. HIDE DEF n, S, a, E
<1>5. StepsIn(S, n, step)
  BY <1>3 DEF StepsIn
<1>6. PICK f \in [0..n -> S] : f[0] = a /\ \A k \in 1..n : f[k] = step[<<f[k - 1], k>>]
  <2>1. Walks(S, a, n, step) # {}
    <3>. HIDE DEF step
    <3>. QED BY <1>1, <1>2, <1>5, WalkExists
  <2>. QED BY <2>1 DEF Walks
<1>7. Follows(f)
  <2>1. \A k \in 0..n : f[k] = IF k = 0 THEN a ELSE E(f[k - 1], k)
    <3>1. TAKE k \in 0..n
    <3>2. CASE k = 0
      BY <1>6, <3>2
    <3>3. CASE k # 0
      <4>1. k \in 1..n /\ k - 1 \in 0..n
        BY <1>1, <3>3
      <4>2. f[k - 1] \in S /\ f[k] = step[<<f[k - 1], k>>]
        BY <1>6, <4>1
      <4>. QED BY <3>3, <4>1, <4>2
    <3>. QED BY <3>2, <3>3
  <2>. QED BY <1>6, <2>1
<1>8. Follows(walk)
  BY <1>7
<1>. HIDE DEF walk
<1>9. walk[0] = a /\ \A k \in 1..n : walk[k] = E(walk[k - 1], k)
  BY <1>1, <1>8
<1>10. Staying(S, n, walk)
  BY <1>2, <1>3, <1>9 DEF Staying
<1>11. walk[n] \in S
  BY <1>1, <1>10, WalkStays
<1>. QED BY <1>4, <1>11 DEF S

LEMMA TickedStands ==
  ASSUME NEW h \in Hosts, NEW b \in Silent(h),
         NEW order \in Seq(EnabledPorts(b)), NEW w \in Whims
  PROVE  Stands(h, Ticked(b, order, w))
<1>. DEFINE n == Len(order)
            S == {x \in Bridges : Stands(h, x) /\ EnabledPorts(x) = EnabledPorts(b)}
            a == BridgeTick(b, Span, w)
            E(x, k) ==
              Then(x, IF k <= n THEN MessageAgeTick(Quiet(x), order[k], Span, w)
                      ELSE PortTick(Quiet(x), order[k - n], Span, w))
            step == [y \in S \X (1..(2 * n)) |-> E(y[1], y[2])]
            Follows(f) == f = [k \in 0..(2 * n) |-> IF k = 0 THEN a ELSE E(f[k - 1], k)]
            walk == CHOOSE f : Follows(f)
<1>1. n \in Nat /\ \A k \in 1..n : order[k] \in EnabledPorts(b)
  OBVIOUS
<1>2. a \in S
  <2>1. Poised(b) /\ Stands(h, b) /\ b \in Bridges /\ Span \in Int
    BY SilentPoised
  <2>2. a \in Bridges /\ SameStanding(b, a) /\ Conveys(b, a)
    BY <2>1, BridgeTickKeeps, BridgeTickConveys
  <2>. HIDE DEF a
  <2>3. /\ Sound(a) /\ EnabledPorts(a) = EnabledPorts(b)
        /\ a.designated_root = b.designated_root
        /\ Heeds(b, a, {})
    BY <2>1, <2>2, SameStandingSound, SameSets, SameStandingHeeds DEF SameStanding, Stands
  <2>. QED BY <2>1, <2>2, <2>3, ConveyedStands DEF Stands
<1>3. \A x \in S, k \in 1..(2 * n) : E(x, k) \in S
  <2>1. TAKE x \in S, k \in 1..(2 * n)
  <2>. DEFINE q == Quiet(x)
  <2>2. q \in Silent(h) /\ EnabledPorts(q) = EnabledPorts(b)
    BY QuietStands
  <2>3. Poised(q) /\ Stands(h, q) /\ Sound(q) /\ Span \in Int
        /\ q.designated_root \in Hosts /\ q.bridge_id = h
    BY <2>2, SilentPoised DEF Stands
  <2>. HIDE DEF q
  <2>4. ASSUME NEW t, Stands(h, t), EnabledPorts(t) = EnabledPorts(q)
        PROVE  Then(x, t) \in S
    <3>1. Stands(h, Then(x, t)) /\ EnabledPorts(Then(x, t)) = EnabledPorts(t)
      BY <2>4, ThenStands
    <3>. QED BY <2>2, <2>4, <3>1 DEF Stands, Sound
  <2>5. CASE k <= n
    <3>. DEFINE t == MessageAgeTick(q, order[k], Span, w)
    <3>1. order[k] \in EnabledPorts(q)
      BY <1>1, <2>2, <2>5
    <3>2. /\ Sound(t) /\ EnabledPorts(t) = EnabledPorts(q) /\ Conveys(q, t)
          /\ t.designated_root \in Hosts /\ Heeds(q, t, {})
      BY <2>3, <3>1, MessageAgeTickSound, MessageAgeTickConveys, MessageAgeTickRoot,
         MessageAgeTickHeeds
    <3>3. E(x, k) = Then(x, t)
      BY <2>5 DEF q
    <3>. HIDE DEF t, E, S
    <3>4. Stands(h, t)
      BY <2>3, <3>2, ConveyedStands
    <3>. QED BY <2>4, <3>2, <3>3, <3>4
  <2>6. CASE ~(k <= n)
    <3>. DEFINE t == PortTick(q, order[k - n], Span, w)
    <3>1. k - n \in 1..n
      BY <1>1, <2>6
    <3>2. order[k - n] \in EnabledPorts(q)
      BY <1>1, <2>2, <3>1
    <3>3. /\ Sound(t) /\ EnabledPorts(t) = EnabledPorts(q) /\ Conveys(q, t)
          /\ t.designated_root \in Hosts /\ Heeds(q, t, {})
      BY <2>3, <3>2, PortTickSound, PortTickConveys, PortTickRoot, PortTickHeeds
    <3>4. E(x, k) = Then(x, t)
      BY <2>6 DEF q
    <3>. HIDE DEF t, E, S
    <3>5. Stands(h, t)
      BY <2>3, <3>3, ConveyedStands
    <3>. QED BY <2>4, <3>3, <3>4, <3>5
  <2>. QED BY <2>5, <2>6
<1>4. Ticked(b, order, w) = Reported(walk[2 * n])
  BY DEF Ticked
<1>. HIDE DEF S, a, E
<1>5. StepsIn(S, 2 * n, step)
  BY <1>3 DEF StepsIn
<1>6. PICK f \in [0..(2 * n) -> S] :
        f[0] = a /\ \A k \in 1..(2 * n) : f[k] = step[<<f[k - 1], k>>]
  <2>1. 2 * n \in Nat
    BY <1>1
  <2>2. Walks(S, a, 2 * n, step) # {}
    <3>. HIDE DEF step, n
    <3>. QED BY <2>1, <1>2, <1>5, WalkExists
  <2>. QED BY <2>2 DEF Walks
<1>7. Follows(f)
  <2>1. \A k \in 0..(2 * n) : f[k] = IF k = 0 THEN a ELSE E(f[k - 1], k)
    <3>1. TAKE k \in 0..(2 * n)
    <3>2. CASE k = 0
      BY <1>6, <3>2
    <3>3. CASE k # 0
      <4>1. k \in 1..(2 * n) /\ k - 1 \in 0..(2 * n)
        BY <1>1, <3>3
      <4>2. f[k - 1] \in S /\ f[k] = step[<<f[k - 1], k>>]
        BY <1>6, <4>1
      <4>. QED BY <3>3, <4>1, <4>2
    <3>. QED BY <3>2, <3>3
  <2>. QED BY <1>6, <2>1
<1>8. Follows(walk)
  BY <1>7
<1>. HIDE DEF walk
<1>9. walk[0] = a /\ \A k \in 1..(2 * n) : walk[k] = E(walk[k - 1], k)
  <2>1. \A k \in 1..(2 * n) : k \in 0..(2 * n) /\ k # 0
    BY <1>1
  <2>2. 0 \in 0..(2 * n)
    BY <1>1
  <2>. HIDE DEF n
  <2>. QED BY <1>8, <2>1, <2>2
<1>10. walk[2 * n] \in S
  <2>1. 2 * n \in Nat
    BY <1>1
  <2>2. Staying(S, 2 * n, walk)
    BY <1>2, <1>3, <1>9 DEF Staying
  <2>. HIDE DEF n
  <2>. QED BY <2>1, <2>2, WalkStays
<1>11. Stands(h, walk[2 * n])
  BY <1>10 DEF S
<1>. QED BY <1>4, <1>11, ReportedStands

-----------------------------------------------------------------------------
(***************************************************************************)
(* The inductive invariant: the bridge of each host stands and has handed  *)
(* over what it said, and what is under way from a host was said in its    *)
(* name, through its port to where it goes.                                *)
(***************************************************************************)
Hailed(pair, said) ==
  Honest(pair[1], said) /\ \A bpdu \in said : bpdu.via = pair[2]

NInv ==
  /\ bridge \in [Hosts -> Bridges]
  /\ \A h \in Hosts : bridge[h] \in Silent(h)
  /\ wire \in [Pairs -> SUBSET SentBpdus]
  /\ \A pair \in Pairs : Hailed(pair, wire[pair])

LEMMA BecomesKeeps ==
  ASSUME NInv, NEW h \in Hosts, NEW b, Stands(h, b), NEW otherwise,
         \A pair \in Pairs : otherwise[pair] \subseteq wire[pair],
         Becomes(h, b, otherwise)
  PROVE  NInv'
<1>1. b \in Bridges /\ b.out \subseteq SentBpdus /\ Honest(h, b.out)
  BY DEF Stands, Sound, Bridges
<1>2. Quiet(b) \in Silent(h) /\ Quiet(b) \in Bridges
  BY QuietStands DEF Silent
<1>3. /\ bridge' \in [Hosts -> Bridges]
      /\ \A g \in Hosts : bridge'[g] \in Silent(g)
  <2>. DEFINE q == Quiet(b)
  <2>1. bridge' = [bridge EXCEPT ![h] = q]
    BY DEF Becomes
  <2>. HIDE DEF q
  <2>. QED BY <1>2, <2>1 DEF NInv, q
<1>4. \A pair \in Pairs :
        wire'[pair] = IF pair[1] = h
                      THEN otherwise[pair] \cup {bpdu \in b.out : bpdu.via = pair[2]}
                      ELSE otherwise[pair]
  BY DEF Becomes
<1>5. \A pair \in Pairs : wire'[pair] \in SUBSET SentBpdus /\ Hailed(pair, wire'[pair])
  <2>1. TAKE pair \in Pairs
  <2>2. /\ otherwise[pair] \in SUBSET SentBpdus
        /\ Hailed(pair, otherwise[pair])
    BY DEF NInv, Hailed, Honest
  <2>. QED BY <1>1, <1>4, <2>2 DEF Hailed, Honest
<1>6. wire' \in [Pairs -> SUBSET SentBpdus]
  BY <1>5 DEF Becomes
<1>. QED BY <1>3, <1>5, <1>6 DEF NInv

LEMMA InitNInv == Init => NInv
<1>. SUFFICES ASSUME Init PROVE NInv
  OBVIOUS
<1>1. ASSUME NEW h \in Hosts PROVE bridge[h] \in Silent(h)
  <2>. DEFINE S == {g \in Hosts : <<h, g>> \in Joined}
  <2>1. bridge[h] = WithPorts(h, SetToSeq(S))
    BY DEF Init
  <2>2. SetToSeq(S) \in Seq(Hosts)
    BY SomeOrder
  <2>. HIDE DEF S
  <2>. QED BY <2>1, <2>2, WithPortsStands
<1>2. bridge \in [Hosts -> Bridges]
  BY <1>1 DEF Init, Silent
<1>3. /\ wire \in [Pairs -> SUBSET SentBpdus]
      /\ \A pair \in Pairs : wire[pair] = {}
  BY DEF Init
<1>. QED BY <1>1, <1>2, <1>3 DEF NInv, Hailed, Honest

LEMMA JoinKeeps ==
  ASSUME NInv, NEW h \in Hosts, NEW g \in Hosts, Join(h, g)
  PROVE  NInv'
<1>1. bridge[h] \in Silent(h) /\ bridge[h] \in Bridges
  BY DEF NInv
<1>2. PICK w \in Outcomes(bridge[h]), reused \in {FALSE, bridge[h].root_port = StalePort} :
        Becomes(h, WithPort(bridge[h], g, reused, w), wire)
  BY DEF Join
<1>3. w \in Whims /\ reused \in BOOLEAN
  BY <1>1, OutcomesAreWhims
<1>4. Stands(h, WithPort(bridge[h], g, reused, w))
  BY <1>1, <1>3, WithPortStands DEF Hosts
<1>. QED BY <1>2, <1>4, BecomesKeeps

LEMMA LeaveKeeps ==
  ASSUME NInv, NEW pair \in Pairs, Leave(pair[1], pair[2])
  PROVE  NInv'
<1>. DEFINE h == pair[1]
            g == pair[2]
            otherwise == [wire EXCEPT ![<<g, h>>] = {}]
<1>1. h \in Hosts /\ bridge[h] \in Silent(h) /\ g \in PortsOf(bridge[h])
  BY DEF NInv, Pairs, Leave
<1>2. Becomes(h, DestroyPort(bridge[h], g), otherwise)
  BY DEF Leave
<1>3. \A other \in Pairs : otherwise[other] \subseteq wire[other]
  BY DEF NInv
<1>. HIDE DEF h, g, otherwise
<1>4. Stands(h, DestroyPort(bridge[h], g))
  BY <1>1, DestroyPortStands
<1>. QED BY <1>1, <1>2, <1>3, <1>4, BecomesKeeps

LEMMA DeliverKeeps ==
  ASSUME NInv, NEW pair \in Pairs, Deliver(pair[1], pair[2])
  PROVE  NInv'
<1>. DEFINE g == pair[1]
            h == pair[2]
<1>1. /\ h \in Hosts /\ g \in Hosts \ {h} /\ pair = <<g, h>>
      /\ bridge[h] \in Silent(h) /\ bridge[h] \in Bridges
  BY DEF NInv, Pairs
<1>2. PICK bpdu \in wire[<<g, h>>] :
        LET others == [wire EXCEPT ![<<g, h>>] = @ \ {bpdu}]
        IN  IF g \in PortsOf(bridge[h])
            THEN \E w \in Outcomes(bridge[h]) :
                   Becomes(h, ReceivedBpdu(bridge[h], g, bpdu, w), others)
            ELSE wire' = others /\ UNCHANGED bridge
  BY DEF Deliver
<1>. DEFINE others == [wire EXCEPT ![<<g, h>>] = @ \ {bpdu}]
<1>3. bpdu \in SentBpdus /\ Honest(g, {bpdu}) /\ bpdu.via = h
  BY <1>1 DEF NInv, Hailed, Honest
<1>4. /\ others \in [Pairs -> SUBSET SentBpdus]
      /\ \A other \in Pairs : others[other] \subseteq wire[other]
  BY <1>1 DEF NInv
<1>5. CASE g \in PortsOf(bridge[h])
  <2>1. PICK w \in Outcomes(bridge[h]) :
          Becomes(h, ReceivedBpdu(bridge[h], g, bpdu, w), others)
    BY <1>2, <1>5
  <2>. HIDE DEF others, g, h
  <2>2. w \in Whims
    BY <1>1, OutcomesAreWhims
  <2>3. Stands(h, ReceivedBpdu(bridge[h], g, bpdu, w))
    BY <1>1, <1>3, <1>5, <2>2, ReceivedStands
  <2>. QED BY <1>1, <1>4, <2>1, <2>3, BecomesKeeps
<1>6. CASE g \notin PortsOf(bridge[h])
  <2>1. wire' = others /\ bridge' = bridge
    BY <1>2, <1>6
  <2>. HIDE DEF others
  <2>. QED BY <1>4, <2>1 DEF NInv, Hailed, Honest
<1>. QED BY <1>5, <1>6

LEMMA LoseKeeps ==
  ASSUME NInv, NEW pair \in Pairs, Lose(pair[1], pair[2])
  PROVE  NInv'
<1>1. PICK bpdu : wire' = [wire EXCEPT ![<<pair[1], pair[2]>>] = @ \ {bpdu}]
  BY DEF Lose
<1>2. /\ wire' \in [Pairs -> SUBSET SentBpdus]
      /\ \A other \in Pairs : wire'[other] \subseteq wire[other]
  BY <1>1 DEF NInv
<1>3. bridge' = bridge
  BY DEF Lose
<1>. QED BY <1>2, <1>3 DEF NInv, Hailed, Honest

LEMMA OnTimerKeeps ==
  ASSUME NInv, NEW h \in Hosts, OnTimer(h)
  PROVE  NInv'
<1>1. bridge[h] \in Silent(h) /\ bridge[h] \in Bridges
  BY DEF NInv
<1>2. PICK order \in SetToSeqs(EnabledPorts(bridge[h])), w \in Outcomes(bridge[h]) :
        Becomes(h, Ticked(bridge[h], order, w), wire)
  BY DEF OnTimer
<1>3. w \in Whims
  BY <1>1, OutcomesAreWhims
<1>4. EnabledPorts(bridge[h]) \subseteq Hosts
  BY DEF EnabledPorts, PortsOf, Hosts
<1>5. order \in Seq(EnabledPorts(bridge[h]))
  BY <1>4, OrderIsSequence
<1>6. Stands(h, Ticked(bridge[h], order, w))
  BY <1>1, <1>3, <1>5, TickedStands
<1>. QED BY <1>2, <1>6, BecomesKeeps

LEMMA StepNInv == NInv /\ [Next]_vars => NInv'
<1>. SUFFICES ASSUME NInv, [Next]_vars PROVE NInv'
  OBVIOUS
<1>1. ASSUME NEW pair \in Pairs, Join(pair[1], pair[2]) PROVE NInv'
  BY <1>1, JoinKeeps DEF Pairs
<1>2. ASSUME NEW pair \in Pairs, Leave(pair[1], pair[2]) PROVE NInv'
  BY <1>2, LeaveKeeps
<1>3. ASSUME NEW pair \in Pairs, Deliver(pair[1], pair[2]) PROVE NInv'
  BY <1>3, DeliverKeeps
<1>4. ASSUME NEW pair \in Pairs, Lose(pair[1], pair[2]) PROVE NInv'
  BY <1>4, LoseKeeps
<1>5. ASSUME NEW h \in Hosts, OnTimer(h) PROVE NInv'
  BY <1>5, OnTimerKeeps
<1>6. CASE UNCHANGED vars
  BY <1>6 DEF vars, NInv
<1>. QED BY <1>1, <1>2, <1>3, <1>4, <1>5, <1>6 DEF Next

(***************************************************************************)
(* In a network of any number of hosts, with sessions that come and go and *)
(* BPDUs lost and overtaken (CVSwitchImp's AddSink, RemoveSink, OnTimer    *)
(* and ReceivedBpdu of every host), the bridge of each host keeps          *)
(* what STPBridge shows of one bridge, and believes in no root but a host. *)
(***************************************************************************)
THEOREM NetworkInvariance == Spec => []NInv
<1>1. Init => NInv
  BY InitNInv
<1>2. NInv /\ [Next]_vars => NInv'
  BY StepNInv
<1>. QED BY <1>1, <1>2, PTL DEF Spec

-----------------------------------------------------------------------------
(***************************************************************************)
(* What ReconfigureOrLead, DesignatedPortSelection and the timers see to   *)
(* holds of every bridge in the network: what it says of itself agrees     *)
(* with its root port and with what it has heard, the states of its ports  *)
(* with their roles, and every information and every transition has its    *)
(* timer.                                                                  *)
(***************************************************************************)
BridgesAgree ==
  \A h \in Hosts :
    /\ RootAgrees(bridge[h]) /\ PortsAgree(bridge[h]) /\ RolesAgree(bridge[h])
    /\ HeardInfoIsTimed(bridge[h]) /\ ProgressIsTimed(bridge[h])

THEOREM NetworkAgrees == Spec => []BridgesAgree
<1>1. NInv => BridgesAgree
  BY DEF NInv, BridgesAgree, Silent, Stands, Sound
<1>. QED BY <1>1, NetworkInvariance, PTL

(***************************************************************************)
(* No bridge believes in a root that is not there, nor in a greater id     *)
(* than its own (RootSelection), whatever BPDUs are lost or late; the host *)
(* with the least id never stops being its own root.                       *)
(***************************************************************************)
RootsAreHosts ==
  /\ \A h \in Hosts :
       LET root == bridge[h].designated_root
       IN  /\ root \in Hosts /\ root <= h
           /\ (\A g \in Hosts : h <= g) => root = h
  /\ \A pair \in Pairs : \A bpdu \in wire[pair] :
       bpdu.type = "config" => bpdu.root \in Hosts

THEOREM BelievedRootsAreHosts == Spec => []RootsAreHosts
<1>1. NInv => RootsAreHosts
  <2>. SUFFICES ASSUME NInv PROVE RootsAreHosts
    OBVIOUS
  <2>1. ASSUME NEW h \in Hosts, NEW root, root = bridge[h].designated_root
        PROVE  /\ root \in Hosts /\ root <= h
               /\ (\A g \in Hosts : h <= g) => root = h
    <3>1. /\ Stands(h, bridge[h]) /\ bridge[h] \in Bridges
          /\ RootAgrees(bridge[h]) /\ bridge[h].bridge_id = h
      BY DEF NInv, Silent, Stands, Sound
    <3>2. root \in Hosts /\ root <= h
      BY <2>1, <3>1, HostIsNat DEF Stands, RootAgrees
    <3>. QED BY <3>2, HostIsNat
  <2>2. \A pair \in Pairs : \A bpdu \in wire[pair] :
          bpdu.type = "config" => bpdu.root \in Hosts
    BY DEF NInv, Hailed, Honest
  <2>. QED BY <2>1, <2>2 DEF RootsAreHosts
<1>. QED BY <1>1, NetworkInvariance, PTL

(***************************************************************************)
(* A config BPDU under way names the bridge and the port it left by        *)
(* (SendConfigBpdu, TransmitConfig), so that none comes back to the port   *)
(* that sent it: what STPBridge assumes of the BPDUs that arrive.          *)
(***************************************************************************)
NoEcho ==
  \A pair \in Pairs : \A bpdu \in wire[pair] :
    bpdu.type = "config" =>
      /\ bpdu.bridge = pair[1] /\ bpdu.port = pair[2]
      /\ bpdu.bridge # bridge[pair[2]].bridge_id

THEOREM NobodyHearsItself == Spec => []NoEcho
<1>1. NInv => NoEcho
  <2>. SUFFICES ASSUME NInv, NEW pair \in Pairs, NEW bpdu \in wire[pair],
                       bpdu.type = "config"
                PROVE  /\ bpdu.bridge = pair[1] /\ bpdu.port = pair[2]
                       /\ bpdu.bridge # bridge[pair[2]].bridge_id
    BY DEF NoEcho
  <2>1. pair[2] \in Hosts /\ pair[1] # pair[2]
    BY DEF Pairs
  <2>2. bridge[pair[2]].bridge_id = pair[2]
    BY <2>1 DEF NInv, Silent, Stands
  <2>. QED BY <2>1, <2>2 DEF NInv, Hailed, Honest
<1>. QED BY <1>1, NetworkInvariance, PTL

(***************************************************************************)
(* A port towards a neighbour knows of what this bridge says there, or of  *)
(* what that neighbour said to it (RecordConfigInformation,                *)
(* BecomeDesignatedPort), never of what another said to another: not after *)
(* a session has ended and a new one come, nor late BPDUs.                 *)
(***************************************************************************)
HeardFromNeighbours ==
  \A h \in Hosts : \A g \in PortsOf(bridge[h]) :
    LET info == bridge[h].port[g].info
    IN  <<info.bridge, info.port>> \in {<<h, g>>, <<g, h>>}

THEOREM OnlyNeighboursAreHeard == Spec => []HeardFromNeighbours
<1>1. NInv => HeardFromNeighbours
  <2>. SUFFICES ASSUME NInv, NEW h \in Hosts, NEW g \in PortsOf(bridge[h]), NEW info,
                       info = bridge[h].port[g].info
                PROVE  <<info.bridge, info.port>> \in {<<h, g>>, <<g, h>>}
    BY DEF HeardFromNeighbours
  <2>1. Heard(bridge[h]) /\ bridge[h].bridge_id = h
    BY DEF NInv, Silent, Stands
  <2>. QED BY <2>1 DEF Heard, OwnName
<1>. QED BY <1>1, NetworkInvariance, PTL

-----------------------------------------------------------------------------
(***************************************************************************)
(* The end of a link that knows what the other end would say, and passes   *)
(* frames over it, has its root port there, and is farther from the root.  *)
(***************************************************************************)
LEMMA KnowingIsBelow ==
  ASSUME NInv, NEW h \in Hosts, NEW g \in Hosts, Passes(h, g), Knows(h, g)
  PROVE  /\ bridge[h].root_port = g
         /\ bridge[h].designated_root = bridge[g].designated_root
         /\ bridge[h].root_path_cost > bridge[g].root_path_cost
<1>. DEFINE b == bridge[h]
            d == bridge[g]
<1>1. /\ Stands(h, b) /\ Sound(b) /\ b \in Bridges /\ b.bridge_id = h
      /\ d \in Bridges /\ d.bridge_id = g /\ g # h /\ g \in Ports
  BY DEF NInv, Silent, Stands, Sound, Passes, Pairs, Hosts
<1>2. /\ b.port[g].state = "forwarding" /\ b.port[g].info = OwnInfo(d, h)
      /\ b.port[g] \in PortRecords
  BY <1>1 DEF Passes, Knows, stp_forward_in_state, Bridges
<1>. HIDE DEF b, d
<1>3. /\ b.port[g].info.root = d.designated_root
      /\ b.port[g].info.cost = d.root_path_cost
      /\ b.port[g].info.bridge = g
  BY <1>1, <1>2 DEF OwnInfo
<1>4. g \in EnabledPorts(b) /\ ~IsDesignatedPort(b, g)
  BY <1>1, <1>2, <1>3 DEF EnabledPorts, PortsOf, IsDesignatedPort
<1>5. b.root_port = g
  BY <1>1, <1>2, <1>4 DEF Sound, RolesAgree
<1>6. b.root_port # NoPort /\ ~Orphan(b)
  <2>1. g # 0 /\ g # -1
    BY <1>1, PortsAssumption
  <2>. QED BY <1>4, <1>5, <2>1 DEF Orphan, NoPort, StalePort
<1>7. /\ d.designated_root = b.designated_root
      /\ d.root_path_cost + b.port[g].path_cost = b.root_path_cost
  BY <1>1, <1>3, <1>5, <1>6 DEF Sound, RootAgrees
<1>8. b.port[g].path_cost \in Nat \ {0} /\ d.root_path_cost \in Nat
  BY <1>1, <1>2 DEF PortRecords, Bridges
<1>. QED BY <1>5, <1>7, <1>8 DEF b, d

LEMMA PassesBothWays ==
  ASSUME NEW h, NEW g, Passes(h, g)
  PROVE  h \in Hosts /\ g \in Hosts /\ Passes(g, h)
BY DEF Passes, Pairs

(***************************************************************************)
(* Among some hosts there is one that none is farther from its root than.  *)
(***************************************************************************)
LEMMA FarthestExists ==
  ASSUME NInv, NEW circle \in SUBSET Hosts, circle # {}
  PROVE  \E h \in circle :
           \A g \in circle : ~(bridge[g].root_path_cost > bridge[h].root_path_cost)
<1>. DEFINE Farther(h) ==
              {g \in circle : bridge[g].root_path_cost > bridge[h].root_path_cost}
            Sizes == {n \in Nat : \E h \in circle : Cardinality(Farther(h)) = n}
<1>1. IsFiniteSet(circle)
  BY HostsAssumption, FS_Subset
<1>2. \A h \in circle : IsFiniteSet(Farther(h)) /\ Cardinality(Farther(h)) \in Nat
  BY <1>1, FS_Subset, FS_CardinalityType
<1>3. Sizes # {} /\ Sizes \subseteq Nat
  BY <1>2
<1>4. PICK n \in Sizes : \A m \in Sizes : <<m, n>> \notin LessThan
  BY <1>3, LessThanWellFounded, WFMin
<1>5. PICK h \in circle : Cardinality(Farther(h)) = n
  BY <1>4
<1>6. ASSUME NEW g \in circle, bridge[g].root_path_cost > bridge[h].root_path_cost
      PROVE  FALSE
  <2>1. \A x \in circle : bridge[x].root_path_cost \in Nat
    BY DEF NInv, Bridges
  <2>2. Farther(g) \subseteq Farther(h) /\ g \in Farther(h) /\ g \notin Farther(g)
    BY <1>6, <2>1
  <2>. DEFINE few == Farther(g)
              many == Farther(h)
  <2>3. few \in SUBSET many /\ few # many /\ IsFiniteSet(many)
    BY <1>2, <2>2
  <2>4. Cardinality(few) \in Nat /\ Cardinality(many) \in Nat
    BY <1>2
  <2>5. Cardinality(few) \in Sizes
    BY <2>4
  <2>. HIDE DEF few, many
  <2>6. Cardinality(few) < Cardinality(many)
    BY <2>3, <2>4, FS_Subset
  <2>7. Cardinality(many) = n
    BY <1>5 DEF many
  <2>8. <<Cardinality(few), n>> \in LessThan
    BY <2>4, <2>6, <2>7 DEF LessThan
  <2>. QED BY <1>4, <2>5, <2>8
<1>. QED BY <1>5, <1>6

(***************************************************************************)
(* While every link that passes frames is known to one of its ends, frames *)
(* cannot go round: of the hosts of a circle the one farthest from the     *)
(* root passes frames to none of them but over its root port.  So the      *)
(* roles that ConfigurationUpdate gives, with a path cost that is never 0, *)
(* exclude loops for any number of hosts; what is left to time, and to     *)
(* NoLoop as the runs check it, is the way from one settled state to       *)
(* another.                                                                *)
(***************************************************************************)
THEOREM SettledHasNoLoop == Spec => [](Settled => NoLoop)
<1>1. NInv /\ Settled => NoLoop
  <2>. SUFFICES ASSUME NInv, Settled, NEW circle \in (SUBSET Hosts) \ {{}}
                PROVE  \E h \in circle :
                         Cardinality({g \in circle : Passes(h, g)}) <= 1
    BY DEF NoLoop
  <2>1. PICK h \in circle :
          \A g \in circle : ~(bridge[g].root_path_cost > bridge[h].root_path_cost)
    BY FarthestExists
  <2>. DEFINE near == {g \in circle : Passes(h, g)}
  <2>2. \A g \in near : g = bridge[h].root_port
    <3>1. TAKE g \in near
    <3>2. Passes(h, g) /\ Passes(g, h) /\ g \in Hosts /\ h \in Hosts /\ <<h, g>> \in Pairs
      BY PassesBothWays DEF Passes
    <3>3. ~Knows(g, h)
      BY <2>1, <3>2, KnowingIsBelow
    <3>4. Knows(h, g)
      BY <3>2, <3>3 DEF Settled
    <3>. QED BY <3>2, <3>4, KnowingIsBelow
  <2>. HIDE DEF near
  <2>. DEFINE only == {bridge[h].root_port}
  <2>3. near \in SUBSET only
    BY <2>2
  <2>4. IsFiniteSet(only) /\ Cardinality(only) = 1
    BY FS_Singleton
  <2>5. Cardinality(near) <= 1
    <3>. HIDE DEF only
    <3>1. Cardinality(near) <= Cardinality(only)
      BY <2>3, <2>4, FS_Subset
    <3>. QED BY <2>4, <3>1
  <2>. QED BY <2>5 DEF near
<1>. QED BY <1>1, NetworkInvariance, PTL
=============================================================================
