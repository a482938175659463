------------------------------ MODULE VSwitch ------------------------------
(***************************************************************************)
(* The virtual switch CVSwitchImp (src/src/vswitch/CVSwitchImp.cpp): its   *)
(* sinks, its table of learnt addresses and its timer, around the spanning *)
(* tree entity of STPBridge, every step of which it drives.                *)
(* Left out: GetAllItem and the getters, which change nothing;             *)
(* CheckAndUpdateLinkState, ClearTable and SetMacItemTimeOutMs, which      *)
(* nothing calls; m_outputid, which nothing reads.                         *)
(***************************************************************************)
EXTENDS STPBridge

CONSTANTS
  Sinks,          \* the sessions and the TAP device: IDIPCVSwitchSink
  Macs,           \* the unicast addresses of stations
  Group,          \* the broadcast and the multicast addresses
  Nowhere,        \* no sink
  NoFrame,        \* no frame has just come in
  MacTicks        \* OnTimer runs after which an entry has surely timed out

ASSUME SinksAssumption == Nowhere \notin Sinks
ASSUME MacsAssumption == Group \notin Macs
ASSUME MacTicksAssumption == MacTicks \in Nat \ {0}

VARIABLES
  sinks,     \* m_sinklist: the sink of the port with an id, or Nowhere
  known,     \* m_stp_state of CVSwitchPort: the state OnTimer has last seen
  table,     \* m_macTable: the entry of an address
  frame      \* where the data frame that came in last was output

switchVars == <<vars, sinks, known, table, frame>>

(***************************************************************************)
(* An entry is the sink and the OnTimer runs since the address was heard.  *)
(***************************************************************************)
NoEntry == [sink |-> Nowhere, age |-> 0]

Attached == {sinks[p] : p \in Ports} \ {Nowhere}

PortOf(s) == CHOOSE p \in Ports : sinks[p] = s

StateOf(s) == bridge.port[PortOf(s)].state

Open == {s \in Attached : stp_forward_in_state(StateOf(s))}

SwitchInit ==
  /\ Init
  /\ sinks = [p \in Ports |-> Nowhere]
  /\ known = [p \in Ports |-> "disabled"]
  /\ table = [m \in Macs |-> NoEntry]
  /\ frame = NoFrame

-----------------------------------------------------------------------------
(***************************************************************************)
(* Mutation of AddSink: whether the sink is there is not asked.            *)
(***************************************************************************)
AddSinkTwice(s, p) ==
  /\ AddPort(p)
  /\ sinks' = [sinks EXCEPT ![p] = s]
  /\ known' = [known EXCEPT ![p] = "disabled"]
  /\ frame' = NoFrame /\ UNCHANGED table

(***************************************************************************)
(* AddSink and RemoveSink.  A sink that is there already is not added      *)
(* again, and without a free id none is.                                   *)
(***************************************************************************)
AddSink(s, p) ==
  /\ s \notin Attached
  /\ AddPort(p)
  /\ sinks' = [sinks EXCEPT ![p] = s]
  /\ known' = [known EXCEPT ![p] = "disabled"]
  /\ frame' = NoFrame /\ UNCHANGED table

(***************************************************************************)
(* Mutation of ForgetSink: the entries are left alone.                     *)
(***************************************************************************)
ForgetSinkNot(s) == table

ForgetSink(s) ==
  [m \in Macs |-> IF table[m].sink = s THEN NoEntry ELSE table[m]]

RemoveSink(s) ==
  /\ s \in Attached
  /\ RemovePort(PortOf(s))
  /\ sinks' = [sinks EXCEPT ![PortOf(s)] = Nowhere]
  /\ table' = ForgetSink(s)
  /\ frame' = NoFrame /\ UNCHANGED known

-----------------------------------------------------------------------------
(***************************************************************************)
(* Input of a frame of type 0x9946, a BPDU, and of any other frame.  One   *)
(* that cannot be decoded, or of a sink that is not there, is refused.     *)
(***************************************************************************)
InputBpdu(s) ==
  /\ s \in Attached
  /\ Receive(PortOf(s))
  /\ frame' = NoFrame /\ UNCHANGED <<sinks, known, table>>

(***************************************************************************)
(* InsertMac: new, known behind s, or moved from another sink.             *)
(***************************************************************************)
InsertMac(s, src) ==
  IF src \in Macs /\ stp_learn_in_state(StateOf(s))
  THEN [table EXCEPT ![src] = [sink |-> s, age |-> 0]]
  ELSE table

(***************************************************************************)
(* Mutation of Outputs: a frame may go back where it came from.            *)
(***************************************************************************)
OutputsBack(s, dst, learnt) ==
  IF ~stp_forward_in_state(StateOf(s)) THEN {}
  ELSE IF dst = Group \/ learnt[dst] = NoEntry THEN Open
  ELSE Open \cap {learnt[dst].sink}

(***************************************************************************)
(* LookUp, and OutputAllSink when the destination is not known.            *)
(***************************************************************************)
Outputs(s, dst, learnt) ==
  IF ~stp_forward_in_state(StateOf(s)) THEN {}
  ELSE IF dst = Group \/ learnt[dst] = NoEntry THEN Open \ {s}
  ELSE (Open \cap {learnt[dst].sink}) \ {s}

InputData(s) ==
  /\ s \in Attached
  /\ Operation /\ bridge' = Quiet(bridge)
  /\ \E src, dst \in Macs \cup {Group} :
       /\ table' = InsertMac(s, src)
       /\ frame' = [from |-> s, dst |-> dst, to |-> Outputs(s, dst, table')]
  /\ UNCHANGED <<sinks, known>>

-----------------------------------------------------------------------------
(***************************************************************************)
(* Mutation of MayBecome: the time since an address was heard is forgotten *)
(* at every tick.                                                          *)
(***************************************************************************)
MayBecomeYoung(entry, aged) ==
  aged = IF entry = NoEntry THEN NoEntry ELSE [entry EXCEPT !.age = 1]

(***************************************************************************)
(* OnTimer begins by erasing what has timed out.  The clock is read, not   *)
(* the ticks counted: an entry may time out one tick early.                *)
(***************************************************************************)
MayBecome(entry, aged) ==
  \/ aged = NoEntry /\ (entry = NoEntry \/ entry.age + 2 >= MacTicks)
  \/ /\ entry # NoEntry /\ entry.age + 1 < MacTicks
     /\ aged = [entry EXCEPT !.age = @ + 1]

AgedTables ==
  {aged \in [Macs -> {NoEntry} \cup
                       [sink: Attached, age: 1..(MacTicks - 1)]] :
     \A m \in Macs : MayBecome(table[m], aged[m])}

BeginOnTimer ==
  /\ StartTick
  /\ table' \in AgedTables
  /\ frame' = NoFrame /\ UNCHANGED <<sinks, known>>

WithinTick ==
  /\ \/ EndAging
     \/ \E p \in Ports : AgePort(p) \/ DelayPort(p)
  /\ frame' = NoFrame /\ UNCHANGED <<sinks, known, table>>

(***************************************************************************)
(* OnTimer goes on with the ports whose state changed: the table is        *)
(* emptied when one began or ceased to learn since it last looked, and     *)
(* when the spanning tree asks for it.                                     *)
(***************************************************************************)
LearningChanged ==
  \E p \in ChangedPorts(bridge) :
    stp_learn_in_state(known[p]) # stp_learn_in_state(bridge.port[p].state)

FlushDue == bridge.fdb_needs_flush \/ LearningChanged

(***************************************************************************)
(* Mutation of Survivors: nothing is flushed.                              *)
(***************************************************************************)
SurvivorsAll(entries) == entries

Survivors(entries) ==
  IF FlushDue THEN [m \in Macs |-> NoEntry] ELSE entries

EndOnTimer ==
  /\ Report
  /\ known' = [p \in Ports |-> IF p \in ChangedPorts(bridge)
                               THEN bridge.port[p].state ELSE known[p]]
  /\ \/ phase = "delaying" /\ table' = Survivors(table)
     \/ /\ phase = "idle"
        /\ \E aged \in AgedTables : table' = Survivors(aged)
  /\ frame' = NoFrame /\ UNCHANGED sinks

OnTimer == BeginOnTimer \/ WithinTick \/ EndOnTimer

SwitchNext ==
  \/ \E s \in Sinks, p \in Ports : AddSink(s, p)
  \/ \E s \in Sinks : RemoveSink(s) \/ InputBpdu(s) \/ InputData(s)
  \/ OnTimer

SwitchSpec == SwitchInit /\ [][SwitchNext]_switchVars

FairSwitchSpec == SwitchSpec /\ WF_<<phase, todo, elapsed>>(OnTimerProceeds)

-----------------------------------------------------------------------------
(***************************************************************************)
(* Types, and: a sink has one port at most, and a port the bridge has is   *)
(* one of a sink.                                                          *)
(***************************************************************************)
Entries == [sink: Sinks, age: 0..(MacTicks - 1)] \cup {NoEntry}

Frames == [from: Sinks, dst: Macs \cup {Group}, to: SUBSET Sinks] \cup {NoFrame}

SwitchTypeOK ==
  /\ TypeOK
  /\ sinks \in [Ports -> Sinks \cup {Nowhere}]
  /\ \A p, q \in Ports : sinks[p] = sinks[q] /\ sinks[p] # Nowhere => p = q
  /\ PortsOf(bridge) = {p \in Ports : sinks[p] # Nowhere}
  /\ known \in [Ports -> StpStates]
  /\ table \in [Macs -> Entries]
  /\ frame \in Frames

(***************************************************************************)
(* No entry holds the pointer of a sink that was removed.                  *)
(***************************************************************************)
EntriesLive == \A m \in Macs : table[m].sink \in Attached \cup {Nowhere}

(***************************************************************************)
(* OnTimer misses no state of a port: when what it has last seen of a port *)
(* is not what the port is in, the port will be among the changed ones.    *)
(***************************************************************************)
NoChangeMissed ==
  \A p \in PortsOf(bridge) :
    known[p] # bridge.port[p].state => bridge.port[p].state_changed

(***************************************************************************)
(* An address learnt behind a port that has since left the tree does not   *)
(* outlive the OnTimer that follows.                                       *)
(***************************************************************************)
StaleEntriesFlushed ==
  \A s \in Attached :
    ~stp_learn_in_state(StateOf(s)) /\ (\E m \in Macs : table[m].sink = s)
      => FlushDue

(***************************************************************************)
(* The switch keeps the promise of LearningSwitch.                         *)
(***************************************************************************)
Promise == INSTANCE LearningSwitch WITH
  attached <- Attached, open <- Open,
  place <- [m \in Macs |-> table[m].sink], frame <- frame

ImplementsLearningSwitch == Promise!Spec

(***************************************************************************)
(* A station that from some time on is silent is forgotten in the end.     *)
(***************************************************************************)
SilentForgotten ==
  \A m \in Macs :
    <>[][table'[m] \in {NoEntry, table[m]} \/ table'[m].age > table[m].age]_table
      => <>[](table[m] = NoEntry)
=============================================================================
