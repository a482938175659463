# dipcvnet: a verification development

dipcvnet joins hosts into a virtual network: each host runs a process that
opens *sessions* to its peers over the DIPC transport and connects them, and
a local TAP device, by one of four modes: a learning switch with spanning tree
(`vswitch`), a hub with a table of addresses (`mppp`), a point-to-point link per
session (`ppp`), or a switch in front of a user-space IP stack (`vos`).
These modules model the code under `src/src`; `PROJECT.json` maps each
definition to the lines it stands for, and each property to a plausible bug
that it catches.

    tlc -workers 2 -config STPBridge.cfg MCSTPBridge
    tlapm VSwitchProofs.tla

A module's theorems rest on those of the modules it extends; `tlapm` checks one module at a
time, and each of the eight `...Proofs` modules is to be checked.

## 1. Inventory

The process has one thread that reads the network, runs the timers and calls the
sinks (`CDIPCVNetProcess` on the reactor of starbase), so a handler runs to its
end before the next begins. What interleaves is the *order* of handlers: frames of
different sessions, timers, peers that come and go. Only the read thread of the
TAP device is another thread, inside a library.

| component | state | operations | with whom |
|---|---|---|---|
| spanning tree, `vswitch/CVSwitchSTP.cpp` | ports with role, state and four timers; designated root, cost, root port; three bridge timers; times | create, destroy, enable, disable and reprice a port; set id and times; `ReceivedBpdu`; `Tick` | called by the switch; sends through `SendSTPPacket` |
| switch, `vswitch/CVSwitchImp.cpp` | list of sinks, table of addresses, ports of the spanning tree | `AddSink`, `RemoveSink`, `Input`, `OnTimer` (3 s) | sinks: the sessions and the TAP device |
| sessions, `dipcvnet/*.cpp` | map of peers to sessions; per session a policy and a data channel | peer connected or disconnected, data received, send | the process, the mode's manager, the policy |
| vswitch mode | a switch, the TAP sink | as above; the TAP is opened again when it fails | switch, sessions |
| mppp mode | TAP, addresses with raw session pointers | TAP input, session input | sessions |
| ppp mode | one TAP per session | forward both ways | sessions |
| vos mode | wiring of a switch to an IP stack outside the repository | | switch |
| policy, `vnetpolicy` | a one-shot and a periodic timer, the probes | dispatch of PDUs by type, send with a 16-bit length | session, probes |
| probes, `probe` | sequence number, time sent, loss and round-trip time | request, response, timer | policy, transport |
| lists, `utils` | numbers of peers | read, find | the process refuses peers by them |
| process, configuration, `main` | configuration, the manager | start-up, dispatch of transport events | everything |
| codecs, `packet` | the fields of a packet | build, copy, encode, decode, to and from JSON | switch, users of the classes |
| DIPC, reactor, TAP | outside the repository | | |

What is hard about them, and what has to hold:

* **Spanning tree.** An event-driven protocol of many small procedures that have to
  be called in the right order by each handler (`ConfigurationUpdate`, then
  `PortStateSelection`, then the timers). Roles, states, timers and the information
  ports hold must fit together after *any* sequence of operations and losses;
  changes of topology must be carried to the root and end; a silent network must
  recover. The code departs from its ancestor (the STP library of Open vSwitch) in that
  ports are objects that can be deleted, and `root_port` is a pointer to one.
* **Switch.** Three registers of the same ports; a table that points to sinks; ports
  that leave the tree with addresses learnt behind them; a flush that depends on marks
  OnTimer and the spanning tree pass to each other.
* **The network.** Each bridge decides alone, from BPDUs that cross, are late or are
  lost, and the two ends of a session come and go at their own times. What all hosts make
  of it together must never be a circle, and must end as a tree.
* **Sessions and modes.** Sessions that duplicate others, fail half way through
  `Init`, or are deleted while others hold their pointer: the manager's map, the
  sinks of the switch and the `mppp` table have to agree about which sessions there are.
* **Policy and probes.** A frame's length is written twice and checked by the peer; the
  probes call through objects made before or after them.
* **Lists.** Files that are read up to the first entry of a wrong type, and numbers that
  are cut after they were compared.
* **Codecs.** Two tags of several kinds, TLVs, options and padding; lengths that are kept
  up, recomputed or guessed; `CVSwitchImp::Input` decodes every frame and encodes it
  again, and drops what it cannot decode.

`PROJECT.json` lists the hazards, each at its line, with the properties for it.

## 2. Modules

| module | models | extends or uses |
|---|---|---|
| `STP` | the procedures of `CVSwitchSTP`, pure operators from a bridge record to a bridge record | |
| `STPBridge` | the `CVSwitchSTP` object as its callers drive it: one action per operation, `Tick` in steps | `STP` |
| `BridgeTimers` | the arithmetic of times and clock: milliseconds to STP ticks | |
| `LearningSwitch` | abstract specification: what a learning switch promises to its sinks | |
| `VSwitch` | `CVSwitchImp` around `STPBridge`; implements `LearningSwitch` | `STPBridge` |
| `STPNetwork` | bridges of several hosts, the sessions between them, BPDUs under way | `STP` |
| `VNetConfig` | the configuration, the lists, the names of modes and policies | |
| `VNetPolicy` | the policy of a session and its probes | |
| `Sessions` | the process, its sessions, and the four modes | `VNetConfig`, `VNetPolicy` |
| `Wire` | fields, layouts, the byte stream, JSON values | |
| `EtherPackets`, `IPPackets` | the packet classes that stand in Ethernet, and in IP | `Wire`; `EtherPackets` |
| `Discovery` | the packet that finds a path | `Wire` |
| `Codecs` | the life of a packet: built, copied, encoded, decoded, encoded again, taken through JSON | `IPPackets`, `Discovery` |
| `STPProofs` | lemmas: what each procedure of `STP` does to roles, states and timers, and what it sends, owes and carries on | `STP` |
| `STPNetworkProofs` | theorems about any number of hosts | `STPNetwork`, `STPProofs` |
| `VSwitchProofs` | theorems about one bridge, and about the switch around it | `VSwitch`, `STPProofs` |
| `BridgeTimersProofs` | theorems about times and clock | `BridgeTimers` |
| `SessionsProofs` | theorems about what the lists hold, sessions and modes | `Sessions` |
| `DiscoveryProofs` | fields, layouts and discovery packets: what is written is read back | `Discovery` |
| `PacketsProofs` | the packet classes: the values of their fields, what reading makes of any bytes, how many bytes are written | `IPPackets`, `DiscoveryProofs` |
| `CodecsProofs` | theorems about the life of packets | `Codecs`, `PacketsProofs` |
| `MC...` | instances for TLC | |

### How state and actions correspond to the code

A **bridge record** has the fields of `CVSwitchSTP` under their names. Ports are a
function of the port id; an id that is not in the map `ports` holds `AbsentPort`. A timer
is `Off` or a number that counts up; `TimerExpired` and `TimerAfter` are the two halves of
the code's `TimerExpired`. `designated_root`, `designated_cost`, `designated_bridge` and
`designated_port` of a port are its `info`. Bridge ids are numbers, as in the code, where
the priority is their upper 16 bits. `out` collects what the last operation sent.

Three things in the code have no fixed outcome, and are nondeterministic here
(`Whims`, `Outcomes`):

* the order in which `unordered_map` is walked. It matters to a walk that
  sends a TCN through the root port before or after that port leaves the
  blocked state, and in `Tick`, which is why `Tick` takes one step per port;
* what is read through `root_port` when its port was deleted (`StalePort`),
  including that a new port may be allocated at the same address;
* `elapsed_remainder`, which no constructor initialises: the first `Tick` may
  count any number of STP ticks (`FirstElapsed`), less than none included.

An **operation** of `STPBridge` is one step: `Operation` says that no `OnTimer` is
under way. `OnTimer` is `StartTick` (the bridge timers), an `AgePort` for each port,
`EndAging`, a `DelayPort` for each port, and `Report` (`GetChangedPort` and
`CheckAndResetFdbFlush`); other operations wait for its end, as in the code. The
neighbours are an environment that may deliver any BPDU of `ConfigBpdus` and
`OtherBpdus` to any port at any time: losses, repetitions, delays and reordering are all
covered, and the proofs hold for whatever set is given.

`VSwitch` adds `m_sinklist`, the state `OnTimer` last saw of each port, and the table.
Each of its actions conjoins an action of `STPBridge` with what `CVSwitchImp` does around
it. A timed-out entry is erased by a clock the code reads, so `AgedTables` lets an entry
go one run of `OnTimer` early.

`BridgeTimers` models `UpdateBridgeTimers`, the three setters and the conversion at the
start of `Tick`, with C's division and ints of 32 bits. The first `Tick` adds to an int that may have any value, so its
sum (`Sum32`) and the product in `ms_to_timer` may overflow, which the language leaves open; what the build
computes is modelled: the sum wraps, and of a number times 256 its lower 24 bits remain (`Low24`), so that the product
is never written down. `STPBridge` takes its results: `InitialTimes`,
`NewTimes` and `Spans` are sets of what it computes.

`STPNetwork` has a bridge record per host, built by the same operators of `STP`. A host is
named by its bridge's id, and its port towards another host by that host's id. `Join` and
`Leave` are `AddSink` and `RemoveSink` of *one end* of a session, `Deliver` is the BPDU part of
`Input`, and `OnTimer` is the whole handler in one step, in any order of the ports. What a
bridge sends (`out`) joins the set `wire` of its neighbour, from which BPDUs are taken in any
order; they may be lost (`Lose`). `MaxFaults` bounds losses and removals together, and `Leaving`
names the ends that may be removed. What was sent to
a host has arrived, or is lost, before that host's next `OnTimer`, 3 s later; the hosts' timers have equal
periods, so that their `OnTimer`s keep their order (`turns`).

`Sessions` has objects in memory cells: `vnet.session` is what lies in a cell, `m_sessions` the
map of `CDIPCVnetSessionManager`, `sinks` those of the switch and `m_macTable` the table of
`CDIPCVnetMPPPTapLocal`, which holds cells as the code holds raw pointers. A cell that was freed is used
again, so a stale pointer may lead to another session. Each handler is one action:
`Start` (`main`, `readconfig`, `InitVNet`), `OnPeerConnected` (both lists, then the mode's
`VNetAddSession`, with the constructor, `Init`, `AddSession` and what each does when it
fails), `OnPeerDisconnect`, `OnPacketRcv` (the policy's `PolicyRecv` and the mode's
`OnUplayerRecvPacket`), `OnProbePdu`, `TapOutput`, and the policy's `OnTimer`. What the system
grants (a reactor, a TAP device, an interface of the stack, a data channel) is chosen in
each call. The switch is here its promise, `LearningSwitch`, which `VSwitch` is shown to
keep: a frame may go to any sinks but its own. The state `stage` also records undefined behaviour:
`"stale"` after the use of a deleted session, `"nochannel"` after a call through the NULL
data channel; nothing happens after either. `heard` is what an observer knows: the
connected peer a station was last heard from.

A **packet** in `Wire` and the modules above it is a record of the fields of its class; fields
wider than two bytes are sequences of bytes. A *layout* lists the fields and their widths
in the order of the stream, and reading and writing follow it; what the classes do besides (tags,
bits that share a word, options, TLVs, checksums, the payload's length) has its own operators under
the names of the code. `Codecs` is the machine: the `Build...` actions are the setters,
`Copy` the copies that are safe, `Encode` makes the stream in a block of
`GetEncodeSpace()`, `Input` is the first half of `CVSwitchImp::Input`, `Discover` and `GoesOn`
take a discovery packet to the next datapath, `Report` and `ReadJson` are `ToJson` and
`DecodeEthernetFromJson`. `CVSwitchSTP::SendBPDU` is the only code here that builds a packet of these classes, and
nothing uses `DiscoveryPacket`; for the other classes the builder stands for a user of the class.

## 3. Runs

| run | configuration | distinct states | question |
|---|---|---|---|
| `bridge` | two ports; a root, a worse bridge, one below, own BPDUs, TCNs, malformed ones | 120,724 | do roles, states, timers and BPDUs fit together after any sequence; does a port skip or repeat a wait on its way to forwarding? |
| `bridge_managed` | the setters of ports on one of two ports; a first `Tick` of nothing or of a tick | 372,602 | do roles and information still agree, when ports are disabled, enabled, repriced? |
| `bridge_live` | ids and times that change; a first `Tick` that turns the clock back | 182,747 | does a bridge in silence become the root; does a port that is not blocked come to forward? |
| `stale_root_port` | two ports | violated | is `root_port` always NULL or a port? |
| `bridge_times` | six values for each time, 47 for the remainder, both ends of an int among them | 24,353 | are the times in range and in relation; does the clock keep time? |
| `forward_delay_relation` | the same values | violated | is the relation of the comments kept exactly? |
| `switch_table` | two sinks, one station; the root and TCNs are heard | 125,637 | is every step one of the learning switch; do the registers agree; are addresses forgotten with their port, and with their station's silence? |
| `network` | three hosts in a triangle, one fault | 145,841 | never a circle; in the end one tree; does a change become known to all? |
| `sessions` | four modes, eleven configurations, four peers with three keys, frames of two sizes | 23,695 | do map, objects, sinks and table agree; is a deleted session used; does the peer understand? |
| `session_probe` | one configuration of the vswitch mode | violated | is a ping out when the probe's timer has expired? |
| `codecs` | eleven classes of packets, fifty frames of hosts | 26,310 | do packets fill their space, arrive as sent, pass the switch, survive JSON? |
| `fragments` | three whole frames, two fragments | violated | is every frame decoded? |

*Bounds.* Two ports give every pair of the roles root port, designated and blocked,
and every change of one under the other. The set of ids has one better than the bridge, one worse and its
own, which is all the comparisons tell apart; costs and message ages are taken around
the boundaries that decide. Timers are short. In
`bridge` they keep the order of the program, where a tick of 3 s is longer than the
hello and hold times and shorter than the others (`MCTimes`, a tick of two units);
in the runs with more operations or liveness (`MCFastTimes`, and the switch) the forward
delay expires at the first tick and the maximal age at the second, which keeps them
apart with the fewest states. With two sinks a flooded and a forwarded frame can
only go to the same sink or none; for more sinks and stations the refinement is proved.

`network` counts in the real unit, 1/256 s, with the program's tick of 3 s, hold time and hello
time, a maximal age of 8 s and the shortest forward delay the setters grant with it (5 s): a port
takes two ticks for each of its steps, and information is forgotten after three. With the least
maximal age the setters grant, 6 s, the hosts would not settle: a BPDU a designated port relays after
its hold time is a tick old by then, and what it says expires before the next one comes. Three hosts are
the least that make a circle, and every host's role differs; their timers expire in the order of
their ids (`MCRootFirst`). One fault is enough for a TCN, its acknowledgement or a root's BPDU to
be lost, or for a session to exist at one end only, and for the other end to come back at any later
time. The ends removed (`MCLeaving`) are a root port, a port of the root and both ends of the
link that is not in the tree: the ports the roles tell apart.

`sessions` has three cells for at most three sessions, two peers that share a key,
one of another key, and one the lists refuse; entries that are absent, of the wrong type, zero and
too large; frames of 60 bytes and of as many as the buffer of `PolicySend` has room for; cells are
symmetric. `bridge_times` starts the clock with every remainder near zero, and with those at which the sum of `Tick` or
the product of `ms_to_timer` just does or does not fit an int. `codecs` has room for 40 bytes of payload
(`ETHERNET_MAX_SIZE`), which is enough for every fixed head and a few bytes to spare or
one too many; frames are whole, cut at the end, padded, tagged once and twice with
both kinds of tags, with and without options. Discovery packets have up to three links of
two datapaths, so a path can come back to where it was.

Nothing is cut off by constraints: the state spaces are complete. Deadlock is checked except in
`sessions` and `session_probe`, where the process may exit or end in undefined behaviour,
and in `codecs` and `fragments`, where a packet's life ends.

*What they show.* All safety and liveness properties hold as stated, with four exceptions that
contradict the repository's own words:

* `stale_root_port`: `RemoveSink` on the root port's sink deletes the port and leaves
  `root_port` pointing to it, where the comment of `GetRootPort` promises a port or
  NULL. The bridge goes on advertising a root that it cannot hear. The other properties
  are therefore stated, and hold, with an `Orphan` root port as a possible state. In
  `network` it is the one fault the hosts do not recover from by themselves, so that `Settles` and
  `ChangeSpreads` are stated for behaviours in which it goes away (`FaultsEnd`);
  `NoLoop` needs no such condition: the forward delay protects against it, too. `Settles` ends in a
  tree that is also `Settled`, each link of it known to one end.
* `forward_delay_relation`: the relation `2 * (bridge_forward_delay - 1 s) >=
  bridge_max_age` of the setters' comments fails by up to two STP ticks, since each
  time is rounded after it was compared.
* `session_probe`: a session makes its policy before its data channel, so the data probe
  keeps NULL and the timer calls through it before the DIPC probe has sent a ping.
* `fragments`: fragments of a UDP datagram are decoded as whole datagrams, which fails, and
  `Input` asserts that it never does.

Some properties name what the code does not do, so that they can hold: `WholeFramesPass`
excepts tagged IP frames whose protocol is read at the wrong place (`Misread`) and
fragments, `ReencodedAlike` frames with bits no field keeps (`Exact`), `DecodedIsSent`
an LLDP packet with nine bytes before its last TLV (`NineLeft`), `UsesLiveSessions` the
`mppp` mode, whose table keeps the pointers of sessions that are gone; `LearntFromPeer`
says for which stations that table can be trusted all the same.

*Fairness.* `WF(OnTimerProceeds)` in `STPBridge` and `VSwitch`: the switch's timer is scheduled periodically
(`CVSwitchImp::Init`, `m_timeout.Schedule`) and its handler runs to the end of its loops,
so the steps of `OnTimer` go on being taken. No fairness is assumed of the neighbours,
the sinks or the stations. `SilenceRestoresRoot` assumes of the environment what the
property is about (from some time on no better BPDU arrives, and the root port has not been
deleted), `SilentForgotten` that the station is silent. In `STPNetwork` it is
`WF_turns(TurnTaken)`: the same timer on every host. Since a host's turn waits for what was
sent to it, BPDUs that are not lost arrive; whether one is lost, and a session's end joined
again, is left free.

## 4. Proofs

### One bridge

`VSwitchProofs` proves, for all ports, times, BPDUs, costs, ids and elapsed times that
satisfy the assumptions named in `STP` and `STPBridge`, that all the invariants of the bridge
runs hold of `Spec`. First `TypeOK`, `RootAgreement`, `PortAgreement`, `RoleAgreement`,
`HeardInfoAges` and `ForwardDelayRuns`:

* none of them is inductive alone: an expired message age timer makes its port designated,
  which is right only if the port held a neighbour's information (`HeardInfoAges`); a
  port that advances to forwarding is right only if it is in the tree (`RoleAgreement`
  with `ForwardDelayRuns`); a disabled or repriced port leaves roles behind that only
  a new selection repairs. `Sound(b)` says the five agreements and the types of a bridge
  record `b` together, and the inductive invariant `IInv` is `Sound(bridge)` with the
  types of the walk;
* in the middle of an operation less holds: `ConfigurationUpdate` takes any bridge whose
  foreign information is timed to one whose ports agree on the root (`Selectable`), and
  `PortStateSelection` takes that to a sound one. The first needs that `RootSelection`
  finds a root port with the least vector, which exists because the lexicographic
  order on naturals is well founded (`BestVector`), and that this port does not
  serve its own segment, so that it keeps what it heard (`RootPortKeepsInfo`);
* most procedures leave a bridge *in the same standing* (`SameStanding`): they change
  flags, hold timers and what is sent. One lemma each says so, and one lemma says that
  a bridge in the same standing as a sound one is sound;
* one lemma per operation then shows that it takes sound bridges to sound bridges, and
  `StepIInv` has one step per action.

Then what a bridge says: `OwedByDesignated`, `SentByRole`, `RootSpeaks`, `AnnouncementEnds` and
`ChangeCarried`. `SameStanding` abstracts from all of it, so there is a second invariant, `SInv`,
on top of the first:

* `TalksByRole` says that what is owed and what was sent fit the roles, *and* that a config BPDU says what the
  bridge believes. It must hold after every procedure: `DesignatedPortSelection` gives roles
  to ports that owe something, `PortStateSelection` takes them and the debts away, and what was sent in between
  must still be right at the end of the operation. `Poised` is what an operation starts from: sound,
  nothing sent, no debt out of role;
* `Leads` (a root's hello timer runs, and its announcement has an end) and `Carries` (a known change
  is retold to the root, or announced by it, and no such timer runs without one) break for a
  moment in every change of the root: `UpdateAndSelect` decides by the root before and after, and until
  `ReconfigureOrLead` and `Follow` have set the timers, `Ignorant` is what is left of them;
* `Conveys` composes: one lemma per operation says that it talks by role and keeps the other two, and `StepSInv`
  has one step per action;
* `BridgeId` takes the rootship away without stopping the timers, and `PortSetPathCost` may make a bridge the
  root without starting them: `Carries` is proved for the operations that
  the switch calls (`Managed = {}` and `NewIds \subseteq {InitialId}`), `Leads` for `Managed = {}`. These
  are the conditions the properties state; the runs `bridge` and `switch_table` meet both.

And how a port comes to forward: `DelayServed`, a property of the steps. It is about the state of a port
together with its forward delay timer (`Waits`), which `PortStateSelection` and the
timer alone change. One lemma per operation says so: a port *turns* (`Turns`) only at the border of the
tree, from blocking to the start of the way or off it, however often an operation selects the roles; a
port that is added or enabled *enters* there or stays blocked (`Enters`); and the timer either counts, or advances the port by
one state when its delay is served (`Waited`). That the timer is off on a port that is not on its way
is the invariant `ForwardDelayRuns`, and the operations it starts from are sound, so
`StepProceeds` rests on `IInv`. It holds for all operations, those of the managed ports and ids included.

### Times

`BridgeTimersProofs` proves `TypeOK`, `TimesInRelation` and `ClockKeepsTime` for all requests and
whatever int `elapsed_remainder` held at first (`RemaindersAssumption` says no more than that it is an int).
`TimesInRelation` follows from bounds on the quotients.
The clock needs a strengthening, `Leftover`: which milliseconds left over go with which ticks in excess. After an overflow
`elapsed_remainder` may stay large for good, since `ms_to_timer` sees its lower 24 bits only and `Tick` subtracts only what it
counted; so `Leftover` is about the lower 24 bits. The first `Tick` leaves between -4 and 4 there
(`LeftIsSmall`, `RemainderIs`), a later one adds 3000 to them without leaving the 24 bits (`LaterTicks`), and each of the nine
values left over is then a case.

### The network

`STPNetworkProofs` proves about any finite number of hosts, any sessions between them, any order of the
timers and any number of faults (from `CostAssumption`: a link is never free; `TimesAssumption`,
`SpanAssumption`, `HostsAssumption`):

* `NetworkAgrees`: the bridge of every host keeps the agreements above, in the company of the others;
* `BelievedRootsAreHosts`: nobody believes in a root that is not a host or is worse than itself, and the host with
  the least id never ceases to be its own root, whatever is lost or late;
* `NobodyHearsItself`: a config BPDU names the bridge and the port it left by, and none comes back to the bridge that
  sent it. `STPBridge` assumes less of the BPDUs that arrive (none comes back to the port that sent it), so a
  network of such bridges meets its assumption;
* `OnlyNeighboursAreHeard`: what a port holds was said by its own bridge there, or by the neighbour there;
* `SettledHasNoLoop`: whenever one end of each link that passes frames knows what the other would say now
  (`Settled`), `NoLoop` holds.

The inductive invariant `NInv` says that each bridge `Stands`: it is poised, knows of no root but
hosts, only of what its own ports or their neighbours said, and names itself by its host; and that what is under way was said
honestly: a root that is a host, by the sender, through the port towards the receiver. That each operation of `STP` keeps it
uses the lemmas of `STPProofs`; of new lemmas there is one per procedure on the root it
believes in and one on whom it heeds. `OnTimer` walks over all ports: that the recursive functions `Ticked` and
`WithPorts` exist, and stay where each step stays, is proved in the module (`Climb`, `WalkExists`, `WalkStays`) from the
well-foundedness of the naturals. `SettledHasNoLoop`: in a settled network a link that passes frames leads to
the root port of one of its ends, whose path cost is greater by the cost of the link, as one that serves the
other (`KnowingIsBelow`, `PassesBothWays`). In a circle take the host farthest from the root (`FarthestExists`): none of the others
hangs below it, so the only link it can have into the circle is over its root port.

### The switch

`VSwitchProofs` proves, from the theorems about one bridge and for all sinks, stations and everything
above, that `SwitchTypeOK`, `EntriesLive`, `NoChangeMissed` and `StaleEntriesFlushed` are invariants
of `SwitchSpec`, and that it implements `LearningSwitch` (`SwitchKeepsPromise`). The argument:

* what `OnTimer` sees of the bridge is its marks (`state_changed`) and its request for a
  flush. `Shown(b, t)` says that a step from `b` to `t` marks every port whose state it changes, makes and
  deletes none, and asks for the flush when a port that detects changes ceases to learn. One
  lemma per procedure of `STP` shows it, and `ShownTransitive` composes them;
* `CreatePort`, `PortEnable` and `DestroyPort` are the only steps with a different shape, and each touches
  one port of the registers (`AddPortShape`, `RemovePortShape`);
* the inductive invariant `SwitchIInv` adds two conjuncts that no property states: change
  detection is on at every port (only `STPBridge`'s setters could switch it off, which the switch does not
  call), and `FlushOwed`, that an entry behind a port that does not learn has a flush
  coming;
* for the refinement `Open` is shown to be the sinks of the forwarding ports, the table's
  sinks are `place`, and each action maps to the promise's action of the same meaning or to a stutter.

### Sessions and configuration

`SessionsProofs` proves `SessionsTypeOK`, `SessionsAgree`, `UsesLiveSessions`, `LearntFromPeer` and
`SentIsUnderstood` for all cells, peers, keys, frames, PDUs and configurations. The
inductive invariant `IInv` is `Agree` (the agreement with the types of its parts, and who
has a policy: the sessions of the modes `vswitch` and `vos`) together with what is known before the
process runs. A new session goes through states in which the agreement fails (made but not
in the map, in the switch but not in the map): `Readied` says what is known of them, and
each of the four `VNetAddSession` ends in one of two outcomes, the session is in (`Joins`) or all
is as it was. That `PolicyRecv` of the peer takes what `PolicySend` makes needs that a frame with its head
fits 16 bits (`SizesAssumption`). It assumes that NULL is no session, peer or TAP, which is
what `Null` stands for, and that `NoPolicy` is not the state of a policy.

`OnlyTheAdmitted` proves `AdmittedOnly`: no session is with a peer that the white list does not name, or
that the black list names. `OnPeerConnected` reads the lists, so the inductive
invariant (`AInv`) ties every session to what the lists were read to. What that is, is
`ListHoldsTheNamed`: reading a list of entries holds exactly the numbers
of the entries before the first one of a wrong type, cut to 16 bits, but those that were zero. Reading is
a recursive function over the entries (`ReadUpTo`), shown to exist and to read what is named by
climbing up the prefixes of the file. The configuration files are any finite sequences of entries
(`ConfigsAssumption`).

### Packets

`CodecsProofs` proves `PathConnected`: wherever a discovery packet is, in a datapath or back from JSON at the controller,
each of its links starts where the one before it ended, and the loop it finds at a datapath starts there. It holds for
all frames, payloads, options, TLVs and tags; datapaths, ports and costs are any that fit their fields,
and the links as many as the 16 bits of `linklength` can count (`LinkAssumption`: the next one would wrap the
length to zero, and the packet would lose its links on the way). The inductive invariant `PathInv` has three parts:

* while the packet is built, its links are a path: `AddNewLinkKeeps` and `ModifyLastDpPortKeeps`;
* on the wire the frame is what the object wrote, with a length that counts its links, and in JSON the value holds its paths:
  so what is read is the object again. `DiscoveryReadBack` is an instance of `RoundTrip`, for any layout: what `WriteFields`
  writes, `ReadFields` reads, field by field, whatever follows; it rests on `ValueOfBytes` for each width. The links are
  cut out of the stream every 32 bytes (`PieceOfPile`), and through JSON they keep their datapaths (`LinksFromJsonFollow`);
* no other packet becomes a discovery packet. It would have to change its class, and no setter, reader, copy or section of
  JSON does: `Alike` says so of each of them, down to `AlikeStreamFrom`, for any bytes in a frame.

It also proves `FitsItsSpace` (`SpaceSuffices`): a packet that is encoded fills exactly the bytes that
`GetEncodeSpace` counted for it, of every class, whatever was set (each mandatory TLV once, IP options of whole words)
in any order, copied or not, decoded or not; and it fails only for the two reasons the property names. The assumptions are the widths of what is set
(`TagAssumption`, `BytesAssumption`) and that a frame with its heads is counted by 16 bits (`SizeAssumption`). The argument:

* `Of(p, T)` says that a packet has the fields of `T`, each with a value of its type; `FieldTypes` gives `T` for each
  class, as an extension of the types of Ethernet and IP. Every layout is shown once to have the fields, types and width it has;
* of each class `PacketsProofs` proves four things: what the constructor makes, what `StreamFrom` makes of *any* bytes
  (`ReadsReady`), what `StreamTo` sets before it writes (`PreparedReady`) and every setter keep these types; and
  then `StreamTo` writes the bytes counted (`SpaceFilled`). The walks over TLVs and the sums of 16 bit words
  are recursive functions, with a lemma each on what they return for any length;
* types are not enough for four classes, so a relation of fields goes with them: the size of a payload counts no more than it
  has (`DataHeld`: STP, LinkData), the options of TCP fit the words its data offset leaves (`TCPShape`, and fill them where
  they were read: `TCPFull`), and the length of LLDP counts the TLVs that are set (`Counted`; all, where they were read:
  `Full`). `operator=` of LLDP breaks the last, padded options the one before, and these are the exceptions of the property;
* the inductive invariant `FitsInv` says at which stage of a packet's life which of these hold. TLC checked
  it on the instances of `codecs` and `fragments` before it was proved.

It also proves `JsonKeeps` (`JsonIsKept`): what a controller is told of a packet and sends back is what the packet that is
made of it says, in every section the two classes share. A section is written and read field by field
(`AssignedBack`), and a value is read back only if it fits the width it is cut to, which is what `FitsInv` says of the packet
that is reported; no two sections hold the same field (`SectionsApart`), so that reading one undoes no other
(`SectionTold`); and a class that is made for a value reads the sections as the sender wrote them (`SectionsAre`), whether or
not it is the sender's class. The inductive invariant `JsonInv` says that the value under way tells what the packet says; TLC
checked it on the instance of `codecs`.

`SumOf`, `ReadFields` and `FlattenSeq` are folds of the community modules, which are defined by recursion over a set. That
each is what its steps give (`SumOfSteps`, `ReadFieldsSteps`, `FlattenSteps`) is proved by climbing the naturals.

### Only model-checked

* `NoLoop` in every state: the theorem is about settled networks. Between two settled states it is the
  forward delay that protects, and an invariant for that has to relate the ages of information at several
  hosts to the forward delays of others, over time and for a diameter that the times allow;
* of the codecs `WholeFramesPass`, `ReencodedAlike` and `DecodedIsSent`: they compare what a packet says before and
  after, field by field and for each of eleven classes. `WholeFramesPass` does not hold for every string of bytes
  as it stands, so it is a statement about the frames of the runs, which are cut and changed from built ones:
  `Whole` does not ask that the tags themselves are all there, that an IP head has the five words that
  `IPPacket` reads whatever its length field says, or that the last TLV of an LLDP frame is empty, and a frame
  that lacks one of these is dropped. A theorem needs those three as hypotheses, and an induction over the TLVs;
* everything about liveness (`SilenceRestoresRoot`, `Settles`, `ChangeSpreads` and the others), which with its fairness
  is out of the prover's reach.

## 5. Not modelled

* **Other packet classes.** `RADIUS` leaves a method of its base pure virtual, and with
  `RADIUSAttribute` and `EAP` is made nowhere; `PacketBase` is a second copy of `IPacketParser` from
  which nothing derives; `DIPCPacket` is not in the Makefile; `IPv6Packet` and
  `ICMPv6Packet` are empty; `VlanId` and `TpPort` wrap a value that nothing uses.
* **Raw ICMP probe.** Raw socket I/O that nothing in the program calls.
* **DIPC, starbase, wface.** Reactor, timers, transport, TAP device with its thread and byte streams are
  outside the repository, and so is the IP stack of the `vos` mode. Of the byte stream it is taken that it
  fails when the block is full or what is read is too short, and that an IPv4 address read from four bytes and
  written as text comes back the same. `dipcvos`, a second wiring of that stack, is not used by the
  program.
* Code without a caller: `PortSetPriority`, `CheckAndUpdateLinkState`, `ClearTable`,
  `SetMacItemTimeOutMs`, `CreateSession`, `ClearMacTable`, `RemoveList` of the lists. Counters, names,
  passwords and the log: no step reads them. `m_outputid`: nothing reads it.
* The `aux` pointer of a port, which `PortDisable` clears and `OnTimer` follows: nothing
  calls `PortDisable`.
* Sinks that call the switch from within `OnOutput` or `OnStateChange`, while it walks over them: no sink
  of the repository adds or removes one there.
* Overflow of costs near 2^31; the 13 bits of a fragment offset that are read
  into eight, which no caller looks at.
* What writing or reading past a buffer does to memory: `PolicySend` copies a frame into a static buffer of 2048 bytes
  without looking at its size (`CDIPCVnetAutoPolicy.cpp:121-123`), and `SizesAssumption` keeps to frames that fit
  with their head; `LLDPTLV` has 255 bytes for a value whose length is read from nine bits (`LLDPTLV.h:32`,
  `LLDPTLV.cpp:88-96`), and the frames of the runs and `BytesAssumption` keep to 255; `DecodeEthernet` reads the protocol at
  a fixed place (`Ethernet.cpp:381`), which the frames of the runs all have. IP options that a frame cuts short have the
  length of the header in the code and in the model; for their bytes, which are left uninitialised, the model has zeros.
* Setters used otherwise than in the model's life of a packet: IP options that are no whole words, and a mandatory TLV
  of LLDP that is set twice, which `m_len` would count twice (`CLLDP.cpp:240-254`).
* Copies of the IP classes, whose constructors leave fields uninitialised or share the
  options, and the checksum of a TCP packet with options.
