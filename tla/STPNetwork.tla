---------------------------- MODULE STPNetwork -----------------------------
(***************************************************************************)
(* Hosts that run the switch in the vswitch mode, joined by one session    *)
(* for each pair: their bridges (STP), the OnTimer each runs every         *)
(* SWITCH_TICK, and the BPDUs under way between them.  A host is named by  *)
(* the id of its bridge, and its port towards another host by that one's.  *)
(*                                                                         *)
(* The two ends of a session come to exist, and to end, each at its own    *)
(* time.  BPDUs may be lost or overtake each other, but are fast against   *)
(* SWITCH_TICK: what was sent to a host has arrived, or is lost, before    *)
(* its next OnTimer.  The periods are equal, so the OnTimers of the hosts  *)
(* keep the order they happen to have.                                     *)
(***************************************************************************)
EXTENDS STP, SequencesExt

CONSTANTS
  DefaultCost,    \* the path cost AddSink is called with
  DefaultTimes,   \* the times of a new bridge
  Span,           \* the STP ticks of a SWITCH_TICK
  Joined,         \* the ends of sessions that exist before the first OnTimer
  Leaving,        \* the ends of sessions that may be removed
  Orders,         \* the orders in which the OnTimers of the hosts may come
  MaxFaults       \* a bound on the BPDUs lost and ends of sessions removed

ASSUME CostAssumption == DefaultCost \in Nat \ {0}
ASSUME TimesAssumption == DefaultTimes \in Times
ASSUME SpanAssumption == Span \in Nat \ {0}

Hosts == Ports

ASSUME HostsAssumption == IsFiniteSet(Hosts)

Pairs == {pair \in Hosts \X Hosts : pair[1] # pair[2]}

ASSUME JoinedAssumption == Joined \subseteq Pairs
ASSUME LeavingAssumption == Leaving \subseteq Pairs
ASSUME OrdersAssumption == Orders \subseteq SetToSeqs(Hosts)

VARIABLES
  bridge,    \* the CVSwitchSTP object of a host
  wire,      \* the BPDUs under way from one host to another
  turns,     \* the hosts in the order of their next OnTimers
  faults     \* how often a BPDU was lost or an end of a session removed

vars == <<bridge, wire, turns, faults>>

(***************************************************************************)
(* AddSink, of the session to host g.                                      *)
(***************************************************************************)
WithPort(b, g, reused, w) ==
  PortEnable(CreatePort(b, g, DefaultCost, reused), g, w)

FirstWhim == [late |-> FALSE, age |-> 0, target |-> NoPort]

WithPorts(h, others) ==
  LET with[k \in 0..Len(others)] ==
        IF k = 0 THEN NewBridge(h, DefaultTimes)
        ELSE Quiet(WithPort(with[k - 1], others[k], FALSE, FirstWhim))
  IN  with[Len(others)]

Init ==
  /\ bridge = [h \in Hosts |->
                 WithPorts(h, SetToSeq({g \in Hosts : <<h, g>> \in Joined}))]
  /\ wire = [pair \in Pairs |-> {}]
  /\ turns \in Orders
  /\ faults = 0

-----------------------------------------------------------------------------
(***************************************************************************)
(* The bridge of h becomes b, and what b sends through a port joins what   *)
(* else is under way to that neighbour.                                    *)
(***************************************************************************)
Becomes(h, b, otherwise) ==
  /\ bridge' = [bridge EXCEPT ![h] = Quiet(b)]
  /\ wire' = [pair \in Pairs |->
       IF pair[1] = h
       THEN otherwise[pair] \cup {bpdu \in b.out : bpdu.via = pair[2]}
       ELSE otherwise[pair]]

Fault == faults < MaxFaults /\ faults' = faults + 1

(***************************************************************************)
(* A peer connects or disconnects: AddSink or RemoveSink of its session.   *)
(* What was under way to a session goes with it.                           *)
(***************************************************************************)
Join(h, g) ==
  /\ g \notin PortsOf(bridge[h])
  /\ \E w \in Outcomes(bridge[h]),
        reused \in {FALSE, bridge[h].root_port = StalePort} :
       Becomes(h, WithPort(bridge[h], g, reused, w), wire)
  /\ UNCHANGED <<turns, faults>>

Leave(h, g) ==
  /\ Fault
  /\ <<h, g>> \in Leaving /\ g \in PortsOf(bridge[h])
  /\ Becomes(h, DestroyPort(bridge[h], g), [wire EXCEPT ![<<g, h>>] = {}])
  /\ UNCHANGED turns

(***************************************************************************)
(* A BPDU of g reaches h, where it is dropped when there is no session.    *)
(***************************************************************************)
Deliver(g, h) ==
  \E bpdu \in wire[<<g, h>>] :
    LET others == [wire EXCEPT ![<<g, h>>] = @ \ {bpdu}]
    IN  /\ IF g \in PortsOf(bridge[h])
           THEN \E w \in Outcomes(bridge[h]) :
                  Becomes(h, ReceivedBpdu(bridge[h], g, bpdu, w), others)
           ELSE wire' = others /\ UNCHANGED bridge
        /\ UNCHANGED <<turns, faults>>

Lose(g, h) ==
  /\ Fault
  /\ \E bpdu \in wire[<<g, h>>] :
       wire' = [wire EXCEPT ![<<g, h>>] = @ \ {bpdu}]
  /\ UNCHANGED <<bridge, turns>>

(***************************************************************************)
(* Tick, which walks twice over the ports in the order of their map, and   *)
(* what OnTimer fetches then.  Each timer may send.                        *)
(***************************************************************************)
Then(before, after) == [after EXCEPT !.out = @ \cup before.out]

Ticked(b, order, w) ==
  LET n == Len(order)
      Expire(x, k) ==
        Then(x, IF k <= n THEN MessageAgeTick(Quiet(x), order[k], Span, w)
                ELSE PortTick(Quiet(x), order[k - n], Span, w))
      walk[k \in 0..(2 * n)] ==
        IF k = 0 THEN BridgeTick(b, Span, w) ELSE Expire(walk[k - 1], k)
  IN  Reported(walk[2 * n])

TurnTaken == turns' = Append(Tail(turns), Head(turns))

OnTimer(h) ==
  /\ h = Head(turns) /\ TurnTaken
  /\ \A g \in Hosts \ {h} : wire[<<g, h>>] = {}
  /\ \E order \in SetToSeqs(EnabledPorts(bridge[h])), w \in Outcomes(bridge[h]) :
       Becomes(h, Ticked(bridge[h], order, w), wire)
  /\ UNCHANGED faults

Next ==
  \/ \E pair \in Pairs : \/ Join(pair[1], pair[2]) \/ Leave(pair[1], pair[2])
                         \/ Deliver(pair[1], pair[2]) \/ Lose(pair[1], pair[2])
  \/ \E h \in Hosts : OnTimer(h)

Spec == Init /\ [][Next]_vars

(***************************************************************************)
(* Time goes on: the timers of all hosts expire again and again.           *)
(***************************************************************************)
FairSpec == Spec /\ WF_turns(TurnTaken)

-----------------------------------------------------------------------------
(***************************************************************************)
(* Whether data frames pass between two hosts.                             *)
(***************************************************************************)
Passes(h, g) ==
  /\ <<h, g>> \in Pairs
  /\ stp_forward_in_state(bridge[h].port[g].state)
  /\ stp_forward_in_state(bridge[g].port[h].state)

(***************************************************************************)
(* Whether one end of every link that passes frames knows what the other   *)
(* end would say now.                                                      *)
(***************************************************************************)
Knows(h, g) == bridge[h].port[g].info = OwnInfo(bridge[g], h)

Settled ==
  \A pair \in Pairs :
    Passes(pair[1], pair[2]) =>
      Knows(pair[1], pair[2]) \/ Knows(pair[2], pair[1])

(***************************************************************************)
(* Frames never go round in circles, at no moment: not while the tree is   *)
(* made, not when sessions come up and BPDUs cross or are lost, and not    *)
(* when a session ends.  The states of both ends of every link and the     *)
(* forward delay (SelectedPort, ForwardDelayTimerExpiry) work together for *)
(* that.  In a circle every host has two neighbours in it.                 *)
(***************************************************************************)
NoLoop ==
  \A circle \in (SUBSET Hosts) \ {{}} :
    \E h \in circle : Cardinality({g \in circle : Passes(h, g)}) <= 1

(***************************************************************************)
(* When faults end, the hosts come to agree on the least id as the root,   *)
(* to knowing each other, and to a tree of links that reaches all of them, *)
(* and every change of topology comes to an end: what the spanning tree    *)
(* entities (CVSwitchSTP) are there for.  A bridge that lost its root port *)
(* with the session, and does not select another (DestroyPort), is a fault *)
(* that does not end.                                                      *)
(***************************************************************************)
FaultsEnd == <>[]\A h \in Hosts : ~Orphan(bridge[h])

Reaching ==
  \A side \in (SUBSET Hosts) \ {{}, Hosts} :
    \E h \in side, g \in Hosts \ side : Passes(h, g)

AgreeOnRoot == \A h, g \in Hosts : bridge[h].designated_root <= g

Changing(h) == bridge[h].topology_change_detected \/ bridge[h].topology_change

Settles ==
  FaultsEnd => <>[](/\ Reaching /\ AgreeOnRoot /\ Settled
                    /\ \A h \in Hosts : ~Changing(h))

(***************************************************************************)
(* A change of topology that one bridge detects is in the end known to all *)
(* at once, over TCNs to the root and config BPDUs from it, whatever is    *)
(* lost (ReceivedTcnBpdu, FollowRoot): all tables are flushed.             *)
(***************************************************************************)
ChangeSpreads ==
  FaultsEnd =>
    ((\E h \in Hosts : bridge[h].topology_change_detected)
       ~> \A h \in Hosts : bridge[h].topology_change)
=============================================================================
