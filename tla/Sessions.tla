------------------------------ MODULE Sessions ------------------------------
(***************************************************************************)
(* The process (src/src/main/CDIPCVNetProcess.cpp) and the sessions to its *)
(* peers in each of the four modes (src/src/dipcvnet/): peers connect,     *)
(* disconnect and send, the TAP device sends, the probe timers expire.     *)
(* A handler runs to its end before the next begins.                       *)
(*                                                                         *)
(* Sessions are objects in memory cells that are used again, because the   *)
(* code keeps raw pointers to them.  The learning switch of the vswitch    *)
(* mode is its promise (LearningSwitch): a frame reaches any of its sinks  *)
(* but the one it came from.  The IP stack of the vos mode is outside the  *)
(* repository and may answer with any frames.                              *)
(***************************************************************************)
EXTENDS VNetConfig, VNetPolicy, FiniteSets

CONSTANTS
  Cells,          \* where session objects can be
  Peers,          \* the addresses of peers
  Keys,           \* what ConvertKey tells apart of an address
  KeyOf, JnoOf,   \* the key of an address, and the job number of a key
  Macs, Group,    \* unicast addresses of stations; broadcast and multicast
  Sizes,          \* sizes of frames
  Incoming,       \* the PDUs other than data that peers send
  RawConfigs,     \* what may be in the configuration file and the lists
  Null, Tap

(***************************************************************************)
(* The states of a policy, whose data channel is NULL: see SessionPolicy.  *)
(***************************************************************************)
Probes == [lastseq: Nat, measured: BOOLEAN]

PolicyStates == [channel: {Null}, dataprobe: Probes, dipcprob: Probes, due: BOOLEAN]

ASSUME CellsAssumption == Null \notin Cells /\ Tap \notin Cells
ASSUME PeersAssumption == Null \notin Peers
ASSUME KeysAssumption == KeyOf \in [Peers -> Keys] /\ JnoOf \in [Keys -> Nat]
ASSUME GroupAssumption == Group \notin Macs
ASSUME PolicyAssumption == NoPolicy \notin PolicyStates
ASSUME ConfigsAssumption ==
  \A config \in RawConfigs :
    /\ {"mode", "whitelist", "blacklist"} \subseteq DOMAIN config
    /\ config.whitelist \in Files /\ config.blacklist \in Files

(***************************************************************************)
(* A frame and the head before it fit the buffer of PolicySend.  No code   *)
(* here sees to it: it is what TAP devices and peers are taken to send, as *)
(* the other buffers for a frame take it, which have the same size.        *)
(***************************************************************************)
ASSUME SizesAssumption == \A size \in Sizes : size \in Nat /\ size + PacketSize <= BufferSize

VARIABLES
  raw,       \* the configuration file and the lists, which nothing changes
  stage,     \* "boot", "running", "stopped", or undefined behaviour: a
             \* NULL data channel was called ("nochannel"), a session was
             \* used after it was deleted ("stale")
  mode,      \* the manager InitVNet made
  white,     \* m_white_list
  black,     \* m_black_list
  tapUp,     \* the local TAP device, which may be left down, is up
  vnet,      \* what the manager holds
  heard,     \* the peer a station was last heard from, while it is connected
  sent       \* the packets the last handler sent to peers

vars == <<raw, stage, mode, white, black, tapUp, vnet, heard, sent>>

Frames == [src: Macs, dst: Macs \cup {Group}, size: Sizes]

NoSession == [peer |-> Null, policy |-> NoPolicy]

(***************************************************************************)
(* What the system grants: a network reactor, a TAP device, an interface   *)
(* of the stack, a data channel.                                           *)
(***************************************************************************)
Grants == [reactor: BOOLEAN, tap: BOOLEAN, veth: BOOLEAN, channel: BOOLEAN]

(***************************************************************************)
(* session: the object in a cell; m_sessions: the map of the session       *)
(* manager; sinks: those of the switch; m_macTable: of the mppp mode.      *)
(***************************************************************************)
EmptyVNet ==
  [session |-> [c \in Cells |-> NoSession], m_sessions |-> [k \in Keys |-> Null],
   sinks |-> {}, m_macTable |-> [m \in Macs |-> Null]]

Live(v) == {c \in Cells : v.session[c] # NoSession}

Init ==
  /\ raw \in RawConfigs
  /\ stage = "boot" /\ mode = "unknown"
  /\ white = <<>> /\ black = <<>> /\ tapUp = FALSE
  /\ vnet = EmptyVNet
  /\ heard = [m \in Macs |-> Null]
  /\ sent = {}

-----------------------------------------------------------------------------
(***************************************************************************)
(* Tap_init of the local TAP device in each mode that has one: an address  *)
(* that cannot be read, no reactor and a failing Init are failures; a      *)
(* netmask, gateway or Up that fails is only written to the log.           *)
(***************************************************************************)
CanTapInit(config, section, os) ==
  config.address[<<section, "netaddr">>] # "invalid" /\ os.reactor /\ os.tap

SwitchTapInit(config, os) == CanTapInit(config, "vswitch", os)

MPPPTapInit(config, os) == CanTapInit(config, "mppp", os)

VOSTapInit(config, os) == CanTapInit(config, "ostap", os)

(***************************************************************************)
(* Init of the manager of each mode, and what it makes: the switch has the *)
(* TAP as its first sink; a vos has the stack's side, too; a ppp manager   *)
(* does nothing yet.                                                       *)
(***************************************************************************)
VOSPortExtInit(os) == os.veth

VOSManagerInit(config, os) == VOSTapInit(config, os) /\ VOSPortExtInit(os)

SwitchManagerInit(v) == [v EXCEPT !.sinks = {Tap}]

InitVNet(config, os) ==
  CASE StringToVNet(config.mode) = "vswitch" -> SwitchTapInit(config, os)
    [] StringToVNet(config.mode) = "mppp" -> MPPPTapInit(config, os)
    [] StringToVNet(config.mode) = "vos" -> VOSManagerInit(config, os)
    [] StringToVNet(config.mode) = "ppp" -> TRUE
    [] OTHER -> FALSE

Exit ==
  /\ stage' = "stopped" /\ sent' = {}
  /\ UNCHANGED <<raw, mode, white, black, tapUp, vnet, heard>>

Run(config) ==
  /\ stage' = "running" /\ mode' = config.mode
  /\ white' = WhiteInit(config) /\ black' = BlackInit(config)
  /\ tapUp' \in (IF config.mode = "ppp" THEN {FALSE} ELSE BOOLEAN)
  /\ vnet' = IF config.mode = "vswitch" THEN SwitchManagerInit(vnet) ELSE vnet
  /\ UNCHANGED <<raw, heard, sent>>

Start ==
  /\ stage = "boot"
  /\ \E os \in Grants :
       IF ~ExitsOn(raw) /\ InitVNet(readconfig(raw), os)
       THEN Run(readconfig(raw)) ELSE Exit

-----------------------------------------------------------------------------
(***************************************************************************)
(* A session object: made, and deleted by its destructor, which for a      *)
(* switch session takes it out of the switch.                              *)
(***************************************************************************)
Construct(v, c, peer) ==
  [v EXCEPT !.session[c] = [peer |-> peer, policy |-> NoPolicy]]

AddSink(v, c) == [v EXCEPT !.sinks = @ \cup {c}]

(***************************************************************************)
(* Mutation of Destroy: the destructor leaves the switch alone.            *)
(***************************************************************************)
DestroyOnly(v, c) == [v EXCEPT !.session[c] = NoSession]

Destroy(v, c) == [v EXCEPT !.session[c] = NoSession, !.sinks = @ \ {c}]

(***************************************************************************)
(* Init of a session.  The policy is always "auto", whatever is            *)
(* configured, and is made before the data channel, so that its probe gets *)
(* none; a channel that cannot be opened takes the policy with it.         *)
(***************************************************************************)
SessionPolicy(os) ==
  IF StringToVNetPolicy("auto") = "auto" /\ os.channel
  THEN NewPolicy(Null) ELSE NoPolicy

SessionInit(v, c, os) == [v EXCEPT !.session[c].policy = SessionPolicy(os)]

(***************************************************************************)
(* AddSession: a peer whose key has a session already is refused, and the  *)
(* caller's pointer was the only one to the new session.                   *)
(***************************************************************************)
AddSession(v, c, key) ==
  IF v.m_sessions[key] = Null THEN [v EXCEPT !.m_sessions[key] = c] ELSE Destroy(v, c)

(***************************************************************************)
(* Init of a switch session, which attaches it whether or not the rest     *)
(* succeeded, and VNetAddSession of the vswitch mode.                      *)
(***************************************************************************)
SwitchSessionInit(v, c, os) == AddSink(SessionInit(v, c, os), c)

(***************************************************************************)
(* Mutation of SwitchAddSession: a session whose Init fails is not deleted.*)
(***************************************************************************)
SwitchAddSessionKept(v, c, peer, os) ==
  LET ready == SwitchSessionInit(Construct(v, c, peer), c, os)
  IN  IF os.channel THEN AddSession(ready, c, KeyOf[peer]) ELSE ready

SwitchAddSession(v, c, peer, os) ==
  LET ready == SwitchSessionInit(Construct(v, c, peer), c, os)
  IN  IF os.channel THEN AddSession(ready, c, KeyOf[peer]) ELSE Destroy(ready, c)

(***************************************************************************)
(* The mppp mode has no Init of a session, and so no policy; a ppp session *)
(* needs a TAP device, a vos session an interface of the stack.            *)
(***************************************************************************)
MPPPAddSession(v, c, peer) == AddSession(Construct(v, c, peer), c, KeyOf[peer])

PPPSessionInit(os) == os.reactor /\ os.tap

PPPAddSession(v, c, peer, os) ==
  IF PPPSessionInit(os) THEN AddSession(Construct(v, c, peer), c, KeyOf[peer])
  ELSE Destroy(Construct(v, c, peer), c)

VOSPortInit(os) == os.veth

VOSAddSession(v, c, peer, os) ==
  LET ready == SessionInit(Construct(v, c, peer), c, os)
  IN  IF os.channel /\ VOSPortInit(os)
      THEN AddSession(ready, c, KeyOf[peer]) ELSE Destroy(ready, c)

VNetAddSession(c, peer, os) ==
  CASE mode = "vswitch" -> SwitchAddSession(vnet, c, peer, os)
    [] mode = "mppp" -> MPPPAddSession(vnet, c, peer)
    [] mode = "ppp" -> PPPAddSession(vnet, c, peer, os)
    [] OTHER -> VOSAddSession(vnet, c, peer, os)

(***************************************************************************)
(* OnPeerConnected: the lists decide, then the manager adds a session.     *)
(* A ppp session whose TAP device cannot be made ends the process.         *)
(***************************************************************************)
Admitted(peer) ==
  /\ BlackVeryfy(black, JnoOf[KeyOf[peer]]) # "VNET_BL_FIND_OK"
  /\ WhiteVeryfy(white, JnoOf[KeyOf[peer]]) # "VNET_WL_FIND_FAILURE"

OnPeerConnected(peer) ==
  /\ stage = "running" /\ Admitted(peer)
  /\ \E c \in Cells \ Live(vnet), os \in Grants :
       IF mode = "ppp" /\ os.reactor /\ ~os.tap THEN Exit
       ELSE /\ vnet' = VNetAddSession(c, peer, os)
            /\ sent' = {}
            /\ UNCHANGED <<raw, stage, mode, white, black, tapUp, heard>>

(***************************************************************************)
(* OnPeerDisconnect: RemoveSession drops the last pointer to the session.  *)
(* Nothing tells the table of the mppp mode.                               *)
(***************************************************************************)
RemoveSession(v, key) == [Destroy(v, v.m_sessions[key]) EXCEPT !.m_sessions[key] = Null]

OnPeerDisconnect(peer) ==
  LET key == KeyOf[peer] IN
  /\ stage = "running" /\ vnet.m_sessions[key] # Null
  /\ vnet' = RemoveSession(vnet, key)
  /\ heard' = [m \in Macs |-> IF heard[m] # Null /\ KeyOf[heard[m]] = key
                              THEN Null ELSE heard[m]]
  /\ sent' = {}
  /\ UNCHANGED <<raw, stage, mode, white, black, tapUp>>

-----------------------------------------------------------------------------
(***************************************************************************)
(* LowlayerSendPacket of the session in a cell.                            *)
(***************************************************************************)
LowlayerSendPacket(c, frame) ==
  LET s == vnet.session[c]
  IN  [peer |-> s.peer,
       packet |-> IF s.policy = NoPolicy THEN frame ELSE PolicySend(frame)]

(***************************************************************************)
(* A frame goes out through the sessions in the cells: a session that was  *)
(* deleted is read all the same.                                           *)
(***************************************************************************)
SendToPeer(cells, frame) ==
  IF cells \subseteq Live(vnet)
  THEN sent' = {LowlayerSendPacket(c, frame) : c \in cells} /\ UNCHANGED stage
  ELSE sent' = {} /\ stage' = "stale"

(***************************************************************************)
(* Mutation of Learnt: a station that is known is not learnt again.        *)
(***************************************************************************)
LearntOnce(c, src) ==
  IF vnet.m_macTable[src] = Null
  THEN [vnet EXCEPT !.m_macTable[src] = c] ELSE vnet

(***************************************************************************)
(* TapInput: the station is behind the session the frame came from.        *)
(***************************************************************************)
Learnt(c, src) == [vnet EXCEPT !.m_macTable[src] = c]

(***************************************************************************)
(* OnUplayerRecvPacket of a session: to the switch, which may send it to   *)
(* any sink but this; to the TAP and the table; to the TAP of the session; *)
(* to the interface of the stack, which may send anything.                 *)
(***************************************************************************)
SwitchUplayer(c, frame) ==
  /\ mode = "vswitch" /\ UNCHANGED vnet
  /\ \E to \in SUBSET (vnet.sinks \ {c}) : SendToPeer(to \ {Tap}, frame)

MPPPUplayer(c, frame) ==
  /\ mode = "mppp" /\ vnet' = Learnt(c, frame.src)
  /\ sent' = {} /\ UNCHANGED stage

PPPUplayer == mode = "ppp" /\ sent' = {} /\ UNCHANGED <<vnet, stage>>

VOSUplayer(frame) ==
  /\ mode = "vos" /\ UNCHANGED vnet
  /\ \E to \in SUBSET Live(vnet) : SendToPeer(to, frame)

(***************************************************************************)
(* OnPacketRcv and OnDataRcvFromPeer of a frame: raw, or the data of a PDU *)
(* that the peer's policy made.                                            *)
(***************************************************************************)
OnPacketRcv(peer, frame) ==
  LET c == vnet.m_sessions[KeyOf[peer]] IN
  /\ stage = "running" /\ c # Null
  /\ vnet.session[c].policy # NoPolicy => Delivered(PolicySend(frame)) # NoData
  /\ heard' = [heard EXCEPT ![frame.src] = vnet.session[c].peer]
  /\ \/ SwitchUplayer(c, frame) \/ MPPPUplayer(c, frame)
     \/ PPPUplayer \/ VOSUplayer(frame)
  /\ UNCHANGED <<raw, mode, white, black, tapUp>>

(***************************************************************************)
(* A PDU for the probes, or one that PolicyRecv refuses.                   *)
(***************************************************************************)
OnProbePdu(peer, pdu) ==
  LET c == vnet.m_sessions[KeyOf[peer]]
      s == vnet.session[c]
      answers == {{[peer |-> s.peer, packet |-> a]} : a \in Answers(pdu)}
  IN
  /\ stage = "running" /\ c # Null
  /\ s.policy # NoPolicy /\ Delivered(pdu) = NoData
  /\ vnet' = [vnet EXCEPT !.session[c].policy = PolicyRecv(@, pdu)]
  /\ sent' \in (IF answers = {} THEN {{}} ELSE answers)
  /\ stage' = IF NeedsChannel(pdu) /\ s.policy.channel = Null THEN "nochannel" ELSE stage
  /\ UNCHANGED <<raw, mode, white, black, tapUp, heard>>

(***************************************************************************)
(* The sessions an mppp frame from the TAP goes to: all for a group or an  *)
(* unknown station, else the one the table points to.                      *)
(***************************************************************************)
GetAllSession == {vnet.m_sessions[k] : k \in Keys} \ {Null}

MPPPTargets(dst) ==
  IF dst = Group \/ vnet.m_macTable[dst] = Null
  THEN GetAllSession ELSE {vnet.m_macTable[dst]}

(***************************************************************************)
(* OnOutput of a TAP device that is up: the local one, or that of a ppp    *)
(* session.  In the vos mode the frame goes to the stack.                  *)
(***************************************************************************)
SwitchTapOutput(frame) ==
  /\ mode = "vswitch" /\ tapUp
  /\ \E to \in SUBSET (vnet.sinks \ {Tap}) : SendToPeer(to, frame)

MPPPTapOutput(frame) ==
  mode = "mppp" /\ tapUp /\ SendToPeer(MPPPTargets(frame.dst), frame)

PPPTapOutput(frame) == mode = "ppp" /\ \E c \in Live(vnet) : SendToPeer({c}, frame)

VOSTapOutput(frame) ==
  mode = "vos" /\ tapUp /\ \E to \in SUBSET Live(vnet) : SendToPeer(to, frame)

TapOutput(frame) ==
  /\ stage = "running"
  /\ \/ SwitchTapOutput(frame) \/ MPPPTapOutput(frame)
     \/ PPPTapOutput(frame) \/ VOSTapOutput(frame)
  /\ UNCHANGED <<raw, mode, white, black, tapUp, vnet, heard>>

(***************************************************************************)
(* OnTimer of a policy: the data probe counts its request and sends it     *)
(* through its channel, then the DIPC probe sends its own.                 *)
(***************************************************************************)
OnTimer(c) ==
  LET p == vnet.session[c].policy
      pinged == [p EXCEPT !.due = TRUE, !.dataprobe = Pinged(@)]
      both == [pinged EXCEPT !.dipcprob = Pinged(@)]
  IN
  /\ stage = "running" /\ c \in Live(vnet) /\ p # NoPolicy
  /\ IF p.channel = Null
     THEN /\ vnet' = [vnet EXCEPT !.session[c].policy = pinged]
          /\ stage' = "nochannel" /\ sent' = {}
     ELSE /\ vnet' = [vnet EXCEPT !.session[c].policy = both]
          /\ sent' = {[peer |-> vnet.session[c].peer, packet |-> PingRequest(q)] :
                        q \in {both.dataprobe, both.dipcprob}}
          /\ UNCHANGED stage
  /\ UNCHANGED <<raw, mode, white, black, tapUp, heard>>

Next ==
  \/ Start
  \/ \E peer \in Peers :
       \/ OnPeerConnected(peer) \/ OnPeerDisconnect(peer)
       \/ \E frame \in Frames : OnPacketRcv(peer, frame)
       \/ \E pdu \in Incoming : OnProbePdu(peer, pdu)
  \/ \E frame \in Frames : TapOutput(frame)
  \/ \E c \in Cells : OnTimer(c)

Spec == Init /\ [][Next]_vars

-----------------------------------------------------------------------------
(***************************************************************************)
(* What each variable can hold: the lists only numbers of 16 bits, and a   *)
(* policy never a data channel (Session 54-68).                            *)
(***************************************************************************)
SessionsTypeOK ==
  /\ raw \in RawConfigs
  /\ stage \in {"boot", "running", "stopped", "nochannel", "stale"}
  /\ mode \in Modes \cup {"unknown"}
  /\ {white, black} \subseteq Seq(Uint16)
  /\ tapUp \in BOOLEAN
  /\ \A c \in Live(vnet) :
       /\ vnet.session[c].peer \in Peers
       /\ vnet.session[c].policy # NoPolicy => vnet.session[c].policy.channel = Null
  /\ vnet.m_sessions \in [Keys -> Cells \cup {Null}]
  /\ vnet.sinks \subseteq Cells \cup {Tap}
  /\ vnet.m_macTable \in [Macs -> Cells \cup {Null}]
  /\ heard \in [Macs -> Peers \cup {Null}]

(***************************************************************************)
(* The session objects, the session manager's map and the switch agree:    *)
(* an object lives exactly while the map has it, under its peer's key, and *)
(* in the vswitch mode the sinks are the TAP and those objects.  So no     *)
(* path of AddSession, of a failing Init or of a duplicate (SessionManager *)
(* 12-43, SwitchManager 65-80) leaks a session or leaves one half made.    *)
(***************************************************************************)
SessionsAgree ==
  /\ \A c \in Live(vnet) : vnet.m_sessions[KeyOf[vnet.session[c].peer]] = c
  /\ GetAllSession \subseteq Live(vnet)
  /\ \A k \in Keys : vnet.m_sessions[k] # Null =>
       KeyOf[vnet.session[vnet.m_sessions[k]].peer] = k
  /\ vnet.sinks = IF mode = "vswitch" THEN Live(vnet) \cup {Tap} ELSE {}

(***************************************************************************)
(* Whoever has a session is named, by a number of 16 bits, by an entry of  *)
(* the white list's file that comes before any entry that cannot be read,  *)
(* and is not so named by the black list's: the lists say what Veryfy and  *)
(* Init of CWhiteList and CBlackList make of the files.                    *)
(***************************************************************************)
NamedIn(file, jno) ==
  /\ file.array
  /\ \E i \in 1..Len(file.entries) :
       /\ \A j \in 1..i : file.entries[j].jno # "other"
       /\ file.entries[i].jno = "number" /\ file.entries[i].value # 0
       /\ file.entries[i].value % 65536 = jno

AdmittedOnly ==
  \A c \in Live(vnet) :
    LET jno == JnoOf[KeyOf[vnet.session[c].peer]]
    IN  NamedIn(raw.whitelist, jno) /\ ~NamedIn(raw.blacklist, jno)

(***************************************************************************)
(* A session is used after it was deleted in the mppp mode only, through   *)
(* its table, and only for a station that is not heard from a connected    *)
(* peer (MPPPTapLocal 49-53); the switch, the stack and the ppp mode never *)
(* do it, whatever connects, disconnects and fails.                        *)
(***************************************************************************)
UsesLiveSessions == stage = "stale" => mode = "mppp"

(***************************************************************************)
(* In the mppp mode a station that was last heard from a peer that is      *)
(* still connected is found behind that peer's session: what is stale or   *)
(* another's in the table (MPPPTapLocal 19-29) belongs to stations whose   *)
(* peer has gone.                                                          *)
(***************************************************************************)
LearntFromPeer ==
  mode = "mppp" => \A m \in Macs : heard[m] # Null =>
    /\ vnet.m_macTable[m] \in Live(vnet)
    /\ vnet.session[vnet.m_macTable[m]].peer = heard[m]

(***************************************************************************)
(* Whatever a session sends of a frame, the session of a peer in the same  *)
(* mode hands up as the same frame: PolicySend and PolicyRecv (AutoPolicy  *)
(* 56-131) agree, and without a policy the frame is raw.                   *)
(***************************************************************************)
SentIsUnderstood ==
  \A s \in sent :
    IF mode \in {"vswitch", "vos"}
    THEN s.packet.data # NoData => Delivered(s.packet) = s.packet.data
    ELSE s.packet \in Frames

(***************************************************************************)
(* The comment of both probes (DIPCPing 92-97, DataPing 100-105): "client  *)
(* send ping1, record the timestap T1, when ping response, it is T2, so    *)
(* RTT=T2-T1".  So once the timer of a session has expired a ping is out.  *)
(***************************************************************************)
PingGoesOut ==
  \A c \in Live(vnet) :
    vnet.session[c].policy # NoPolicy /\ vnet.session[c].policy.due
      => vnet.session[c].policy.dipcprob.lastseq > 0
=============================================================================
