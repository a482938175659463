----------------------------- MODULE VNetPolicy -----------------------------
(***************************************************************************)
(* The "auto" policy of a session (src/src/vnetpolicy/                     *)
(* CDIPCVnetAutoPolicy.cpp) and its two probes (src/src/probe/             *)
(* CDIPCVNetDIPCPing.cpp, CDIPCVnetDataPing.cpp): how a frame is put into  *)
(* a PDU and taken out again, and what each type of PDU does.              *)
(* A PDU is a record of its head, of the size it says its data has, of the *)
(* data, and of bytes, its size on the wire.  Time is left out: a probe    *)
(* has measured or it has not.                                             *)
(***************************************************************************)
EXTENDS Integers

CONSTANTS
  NoPolicy,     \* a session without a policy
  NoData        \* a PDU that carries no frame

(***************************************************************************)
(* The types of PDUs, and the sizes of their structures.                   *)
(***************************************************************************)
DIPC_VNET_DATA == 0
DIPC_VNET_KEEPALIVE_REQUEST == 1
DIPC_VNET_KEEPALIVE_RESPONSE == 2
DIPC_VNET_DATA_KEEPALIVE_REQUET == 3
DIPC_VNET_DATA_KEEPALIVE_RESPONSE == 4

HeadSize == 8
PacketSize == HeadSize + 4
KeepAliveSize == HeadSize + 8

(***************************************************************************)
(* The static buffer of PolicySend, which copies a frame behind the head   *)
(* without looking at its size: what it does to memory with a frame that   *)
(* does not fit is not modelled.                                           *)
(***************************************************************************)
BufferSize == 2048

(***************************************************************************)
(* A new probe has sent nothing.  The constructor of the DIPC probe leaves *)
(* m_rtt as it finds it.                                                   *)
(***************************************************************************)
NewProbe == [lastseq |-> 0, measured |-> FALSE]

(***************************************************************************)
(* Init of the policy: the data probe is given the data channel that the   *)
(* session has at that time, and the timer is started.                     *)
(***************************************************************************)
NewPolicy(channel) ==
  [channel |-> channel, dataprobe |-> NewProbe, dipcprob |-> NewProbe, due |-> FALSE]

(***************************************************************************)
(* Mutation of PolicySend: the length is that of the data.                 *)
(***************************************************************************)
PolicySendShort(frame) ==
  [type |-> DIPC_VNET_DATA, length |-> frame.size, xid |-> 0,
   datasize |-> frame.size, data |-> frame, bytes |-> PacketSize + frame.size]

(***************************************************************************)
(* PolicySend: the length is cut to 16 bits, and so is what is sent.       *)
(***************************************************************************)
PolicySend(frame) ==
  LET pdulenth == (frame.size + PacketSize) % 65536
  IN  [type |-> DIPC_VNET_DATA, length |-> pdulenth, xid |-> 0,
       datasize |-> frame.size, data |-> frame, bytes |-> pdulenth]

(***************************************************************************)
(* What PolicyRecv hands up to the session: the data of a PDU of type DATA *)
(* whose two sizes agree.                                                  *)
(***************************************************************************)
Delivered(pdu) ==
  IF pdu.type = DIPC_VNET_DATA /\ pdu.datasize + PacketSize = pdu.length
  THEN pdu.data ELSE NoData

-----------------------------------------------------------------------------
(***************************************************************************)
(* The tests both probes begin with: a keep-alive PDU of its own size.     *)
(***************************************************************************)
IsKeepAlive(pdu, type) ==
  /\ pdu.bytes = KeepAliveSize /\ pdu.length = KeepAliveSize
  /\ pdu.type = type

(***************************************************************************)
(* SendPingRequest of either probe: the number of the request, and the     *)
(* request, which is of the DIPC probe's type for both.                    *)
(***************************************************************************)
Pinged(probe) == [probe EXCEPT !.lastseq = @ + 1]

PingRequest(probe) ==
  [type |-> DIPC_VNET_KEEPALIVE_REQUEST, length |-> KeepAliveSize,
   xid |-> probe.lastseq, datasize |-> 0, data |-> NoData,
   bytes |-> KeepAliveSize]

(***************************************************************************)
(* HandlePingResponse of either probe: only the number of the request that *)
(* was sent last is taken.                                                 *)
(***************************************************************************)
Answered(probe, pdu, type) ==
  IF IsKeepAlive(pdu, type) /\ pdu.xid = probe.lastseq
  THEN [probe EXCEPT !.measured = TRUE] ELSE probe

(***************************************************************************)
(* HandlePingRequest sends, instead of the response, the eight bytes of    *)
(* the pointer to it: a PDU of any type and number, and of its own size.   *)
(***************************************************************************)
PointerBytes ==
  {[type |-> t, length |-> n, xid |-> 0, datasize |-> 0, data |-> NoData,
    bytes |-> HeadSize] : t \in 0..5, n \in {0, KeepAliveSize}}

Answers(pdu) ==
  IF IsKeepAlive(pdu, DIPC_VNET_KEEPALIVE_REQUEST) THEN PointerBytes ELSE {}

(***************************************************************************)
(* The data probe answers through its channel, which must be there.        *)
(***************************************************************************)
NeedsChannel(pdu) == IsKeepAlive(pdu, DIPC_VNET_DATA_KEEPALIVE_REQUET)

(***************************************************************************)
(* What PolicyRecv does to the probes.                                     *)
(***************************************************************************)
PolicyRecv(policy, pdu) ==
  [policy EXCEPT
     !.dipcprob = Answered(@, pdu, DIPC_VNET_KEEPALIVE_RESPONSE),
     !.dataprobe = Answered(@, pdu, DIPC_VNET_DATA_KEEPALIVE_RESPONSE)]
=============================================================================
