---------------------------- MODULE EtherPackets ----------------------------
(***************************************************************************)
(* Ethernet frames and the packets that stand directly in them             *)
(* (src/src/packet/): CEthernet, ARPPacket, STPPacket, LinkDataPacket,     *)
(* DSPacket, CLLDP with its LLDPTLVs, UnknownEthernet.  For each class: a  *)
(* new packet, StreamFrom on a stream that is read, the bytes StreamTo     *)
(* writes, and GetStreamLen, which GetEncodeSpace equals.                  *)
(***************************************************************************)
EXTENDS Wire

CONSTANT ETHERNET_MAX_SIZE   \* payload a packet has room for

(***************************************************************************)
(* The 16 bits of a length are enough for it behind the largest heads of   *)
(* IP and TCP.                                                             *)
(***************************************************************************)
ASSUME SizeAssumption == ETHERNET_MAX_SIZE \in Nat /\ ETHERNET_MAX_SIZE + 120 < 65536

NoVlan == \hffff

(***************************************************************************)
(* The types behind the addresses: the tags', the packets'.                *)
(***************************************************************************)
InnerTPID == \h8100
OuterTPID == \h88a8
IPType == \h0800
ARPType == \h0806
LLDPType == \h88CC
DSType == \h9944
LinkDataType == \h9945
STPType == \h9946

EtherHead == << <<"dmac", 6>>, <<"smac", 6>>, <<"ethtype", 2>> >>

NewEthernet(class, type) ==
  [class |-> class, dmac |-> Zeros(6), smac |-> Zeros(6), ethtype |-> type,
   priorityCode |-> 0, vlanID |-> NoVlan, qInQPriorityCode |-> 0,
   qinqVID |-> NoVlan, qinqTPID |-> 0, tci |-> 0]

(***************************************************************************)
(* The copy of the fields of a frame's head into another packet.           *)
(***************************************************************************)
EthernetAssign(to, p) ==
  [to EXCEPT !.dmac = p.dmac, !.smac = p.smac, !.ethtype = p.ethtype,
             !.priorityCode = p.priorityCode, !.qInQPriorityCode = p.qInQPriorityCode,
             !.vlanID = p.vlanID, !.qinqVID = p.qinqVID, !.qinqTPID = p.qinqTPID]

ReadTag(r) ==
  ReadFields(With(r, [r.p EXCEPT !.tci = 0]), << <<"tci", 2>>, <<"ethtype", 2>> >>)

(***************************************************************************)
(* The tag that was read, as the outer and as the inner one.               *)
(***************************************************************************)
Priority(tci) == tci \div 8192

Vlan(tci) == tci % 4096

AsOuter(r, tpid) ==
  With(r, [r.p EXCEPT !.qInQPriorityCode = Priority(r.p.tci), !.qinqVID = Vlan(r.p.tci),
                      !.qinqTPID = tpid, !.tci = 0])

AsInner(r) ==
  With(r, [r.p EXCEPT !.priorityCode = Priority(r.p.tci), !.vlanID = Vlan(r.p.tci), !.tci = 0])

ReadOuterTag(r) == IF r.p.ethtype = OuterTPID THEN AsOuter(ReadTag(r), OuterTPID) ELSE r

(***************************************************************************)
(* Mutation of LastTag: the second of two 8100 tags overwrites the first.  *)
(***************************************************************************)
LastTagOnly(tag) ==
  IF tag.p.ethtype # InnerTPID THEN AsInner(tag) ELSE AsInner(ReadTag(AsInner(tag)))

(***************************************************************************)
(* A tag of 8100 is the inner one, unless another follows.                 *)
(***************************************************************************)
LastTag(tag) ==
  IF tag.p.ethtype # InnerTPID THEN AsInner(tag) ELSE AsInner(ReadTag(AsOuter(tag, InnerTPID)))

ReadInnerTag(r) ==
  IF r.p.ethtype # InnerTPID THEN With(r, [r.p EXCEPT !.vlanID = NoVlan]) ELSE LastTag(ReadTag(r))

EthernetStreamFrom(r) == ReadInnerTag(ReadOuterTag(ReadFields(r, EtherHead)))

Tci(priority, vlan) == Bytes(8192 * priority + (vlan % 4096), 2)

EthernetStreamTo(p) ==
  p.dmac \o p.smac
    \o (IF p.qinqVID = NoVlan THEN <<>>
        ELSE Bytes(p.qinqTPID, 2) \o Tci(p.qInQPriorityCode, p.qinqVID))
    \o (IF p.vlanID = NoVlan THEN <<>>
        ELSE Bytes(InnerTPID, 2) \o Tci(p.priorityCode, p.vlanID))
    \o Bytes(p.ethtype, 2)

EthernetLen(p) ==
  14 + (IF p.vlanID = NoVlan THEN 0 ELSE 4) + (IF p.qinqVID = NoVlan THEN 0 ELSE 4)

EthernetJson ==
  << <<"dmac", 6, "mac">>, <<"smac", 6, "mac">>, <<"ethtype", 2, "number">>,
     <<"vlanID", 2, "number">>, <<"priorityCode", 1, "number">>,
     <<"qInQPriorityCode", 1, "number">>, <<"qinqVID", 2, "number">>,
     <<"qinqTPID", 2, "number">> >>

-----------------------------------------------------------------------------
(***************************************************************************)
(* ARP.                                                                    *)
(***************************************************************************)
ARPFields ==
  << <<"hardwareType", 2>>, <<"protocolType", 2>>, <<"hardwareAddressLength", 1>>,
     <<"protocolAddressLength", 1>>, <<"opCode", 2>>,
     <<"senderHardwareAddress", 6>>, <<"senderProtocolAddress", 4>>,
     <<"targetHardwareAddress", 6>>, <<"targetProtocolAddress", 4>> >>

NewARP == Joined(NewEthernet("ARP", ARPType), Cleared(ARPFields))

ARPStreamFrom(r) == ReadFields(EthernetStreamFrom(r), ARPFields)

ARPStreamTo(p) == EthernetStreamTo(p) \o WriteFields(p, ARPFields)

ARPLen(p) == EthernetLen(p) + Width(ARPFields)

ARPJson ==
  << <<"hardwareType", 2, "number">>, <<"protocolType", 2, "number">>,
     <<"hardwareAddressLength", 1, "number">>, <<"protocolAddressLength", 1, "number">>,
     <<"opCode", 2, "number">>, <<"senderHardwareAddress", 6, "mac">>,
     <<"senderProtocolAddress", 4, "ipv4">>, <<"targetHardwareAddress", 6, "mac">>,
     <<"targetProtocolAddress", 4, "ipv4">> >>

-----------------------------------------------------------------------------
(***************************************************************************)
(* STP and link data packets: data behind its size.                        *)
(***************************************************************************)
DataSize == << <<"datasize", 2>> >>

NoData == [datasize |-> 0, data |-> <<>>]

STPMac == <<\h01, \h80, \hC2, \h01, \h02, \h03>>

NewSTP ==
  Joined([NewEthernet("STP", STPType) EXCEPT !.dmac = STPMac], NoData)

ReadData(r) == IF r.p.datasize > 0 THEN ReadBytes(r, "data", r.p.datasize) ELSE r

STPStreamFrom(r) == ReadData(ReadFields(EthernetStreamFrom(r), DataSize))

STPStreamTo(p) ==
  EthernetStreamTo(p) \o WriteFields(p, DataSize) \o SubSeq(p.data, 1, p.datasize)

STPLen(p) == EthernetLen(p) + 2 + p.datasize

(***************************************************************************)
(* The copy of as much data as its size says; ClonePdu makes it.           *)
(***************************************************************************)
DataAssign(to, p) ==
  [to EXCEPT !.datasize = p.datasize, !.data = SubSeq(p.data, 1, p.datasize)]

STPAssign(p) == DataAssign(EthernetAssign(NewSTP, p), p)

LinkHead ==
  << <<"dstport", 4>>, <<"srcport", 4>>, <<"dstdpid", 8>>, <<"srcdpid", 8>>,
     <<"xid", 4>>, <<"flags", 2>> >>

NewLinkData ==
  Joined(NewEthernet("LinkData", LinkDataType), Joined(Cleared(LinkHead), NoData))

LinkDataAssign(p) ==
  [DataAssign(EthernetAssign(NewLinkData, p), p) EXCEPT
     !.dstport = p.dstport, !.srcport = p.srcport, !.dstdpid = p.dstdpid,
     !.srcdpid = p.srcdpid, !.xid = p.xid, !.flags = p.flags]

LinkDataStreamFrom(r) == ReadData(ReadFields(EthernetStreamFrom(r), LinkHead \o DataSize))

LinkDataStreamTo(p) ==
  EthernetStreamTo(p) \o WriteFields(p, LinkHead \o DataSize) \o SubSeq(p.data, 1, p.datasize)

LinkDataLen(p) == EthernetLen(p) + Width(LinkHead) + 2 + p.datasize

(***************************************************************************)
(* SetPayload of either.                                                   *)
(***************************************************************************)
SetPayload(p, data) ==
  IF data = <<>> THEN [p EXCEPT !.data = <<>>, !.datasize = 0]
  ELSE [p EXCEPT !.data = data, !.datasize = Len(data) % 65536]

-----------------------------------------------------------------------------
(***************************************************************************)
(* Discovery packets on a link: StreamTo sets the length.                  *)
(***************************************************************************)
DSSize == 52

DSFields ==
  << <<"length", 4>>, <<"flags", 4>>, <<"senderport", 4>>, <<"peerport", 4>>,
     <<"senderdp", 8>>, <<"peerdp", 8>>, <<"sendcost", 4>>, <<"fromclusterid", 4>>,
     <<"fromdatacenterid", 4>>, <<"toclusterid", 4>>, <<"todatacenterid", 4>> >>

NewDS ==
  Joined([NewEthernet("DS", DSType) EXCEPT
            !.dmac = <<\h01, \h80, \hC2, \h00, \h00, \h03>>,
            !.smac = <<\h02, \heb, \h9f, \h66, \hc8, \h44>>], Cleared(DSFields))

DSAssign(p) ==
  [EthernetAssign(NewDS, p) EXCEPT
     !.length = p.length, !.flags = p.flags, !.senderport = p.senderport,
     !.peerport = p.peerport, !.senderdp = p.senderdp, !.peerdp = p.peerdp,
     !.sendcost = p.sendcost, !.fromclusterid = p.fromclusterid,
     !.fromdatacenterid = p.fromdatacenterid, !.toclusterid = p.toclusterid,
     !.todatacenterid = p.todatacenterid]

DSStreamFrom(r) == ReadFields(EthernetStreamFrom(r), DSFields)

DSStreamTo(p) ==
  EthernetStreamTo(p) \o WriteFields([p EXCEPT !.length = <<0, 0, 0, DSSize>>], DSFields)

DSLen(p) == DSSize + EthernetLen(p)

DSJson ==
  << <<"length", 4, "number">>, <<"senderdp", 8, "number">>, <<"senderport", 4, "number">> >>

-----------------------------------------------------------------------------
(***************************************************************************)
(* A TLV of LLDP: seven bits of type, nine of length, the value.           *)
(***************************************************************************)
TLV(type, value) == [type |-> type, value |-> value]

(***************************************************************************)
(* SetValue: the value may not be longer than the TLV was made for.        *)
(***************************************************************************)
SetValue(tlv, length, data) ==
  IF length <= Len(tlv.value) THEN TLV(tlv.type, SubSeq(data, 1, length)) ELSE tlv

TLVLen(tlv) == 2 + Len(tlv.value)

TLVStreamTo(tlv) == Bytes(512 * (tlv.type % 128) + (Len(tlv.value) % 512), 2) \o tlv.value

(***************************************************************************)
(* The TLV read at the head of a stream, or a type that none has.  The     *)
(* length has nine bits and m_value 255 bytes: what reading a longer value *)
(* does to the memory behind is not modelled.                              *)
(***************************************************************************)
TLVOf(rest) ==
  LET head == Word(rest, 1)
  IN  IF Len(rest) < 2 \/ Len(rest) < 2 + (head % 512) THEN TLV(-1, <<>>)
      ELSE TLV(head \div 512, SubSeq(rest, 3, 2 + (head % 512)))

Mandatory == << <<"chassisId", 1>>, <<"portId", 2>>, <<"ttl", 3>> >>

NewLLDP ==
  Joined([NewEthernet("LLDP", LLDPType) EXCEPT !.dmac = <<\h01, \h80, \hc2, \h00, \h00, \h0e>>],
         [chassisId |-> TLV(0, <<>>), portId |-> TLV(0, <<>>), ttl |-> TLV(0, <<>>),
          optionalTLVList |-> <<>>, len |-> 0])

(***************************************************************************)
(* The three TLVs that must come first, each of its own type.              *)
(***************************************************************************)
ReadMandatory(r, field) ==
  LET tlv == TLVOf(r.rest)
  IN  IF ~r.good \/ tlv.type # field[2] THEN Failed(r)
      ELSE Taken(r, field[1], tlv, TLVLen(tlv))

(***************************************************************************)
(* The others, up to the end of the stream, to an end TLV, or to where two *)
(* or nine bytes are left: what is read of the last bytes, of which left   *)
(* are not read.                                                           *)
(***************************************************************************)
Ending(b, left) == SubSeq(b, Len(b) - left + 1, Len(b))

Found(list, left, good) == [list |-> list, left |-> left, good |-> good]

OptionalTLVs(b) ==
  LET read[left \in 0..Len(b)] ==
        LET rest == Ending(b, left)
            tlv == TLVOf(rest)
            next == left - TLVLen(tlv)
        IN  IF left \in {0, 2, 9} \/ (left > 2 /\ Word(rest, 1) = 0) THEN Found(<<>>, left, TRUE)
            ELSE IF tlv.type < 0 THEN Found(<<>>, left, FALSE)
            ELSE IF tlv.type = 0 THEN Found(<<>>, next, TRUE)
            ELSE Found(<<tlv>> \o read[next].list, read[next].left, read[next].good)
  IN  read[Len(b)]

ReadOptional(r) ==
  LET found == OptionalTLVs(r.rest)
  IN  [p |-> [r.p EXCEPT !.optionalTLVList = @ \o found.list],
       rest |-> Ending(r.rest, found.left), good |-> found.good]

SumOfLens(list) == SumOf([i \in DOMAIN list |-> TLVLen(list[i])])

MandatoryLen(p) == TLVLen(p.chassisId) + TLVLen(p.portId) + TLVLen(p.ttl)

ReadOthers(r) == IF r.good THEN ReadOptional(r) ELSE r

(***************************************************************************)
(* The two bytes of the end.                                               *)
(***************************************************************************)
ReadEnd(r) ==
  IF ~r.good \/ Len(r.rest) < 2 THEN Failed(r)
  ELSE Taken(r, "len", SumOfLens(r.p.optionalTLVList) + MandatoryLen(r.p), 2)

ReadThree(r) ==
  ReadMandatory(ReadMandatory(ReadMandatory(r, Mandatory[1]), Mandatory[2]), Mandatory[3])

LLDPStreamFrom(r) == ReadEnd(ReadOthers(ReadThree(EthernetStreamFrom(r))))

LLDPStreamTo(p) ==
  EthernetStreamTo(p) \o TLVStreamTo(p.chassisId) \o TLVStreamTo(p.portId)
    \o TLVStreamTo(p.ttl) \o FlattenSeq([i \in DOMAIN p.optionalTLVList |->
                                           TLVStreamTo(p.optionalTLVList[i])])
    \o <<0, 0>>

LLDPLen(p) == EthernetLen(p) + p.len + 2

(***************************************************************************)
(* SetChassisId, SetPortId and SetTtl, and addOptionalTLV; its mutation    *)
(* forgets the length.                                                     *)
(***************************************************************************)
SetMandatory(p, name, tlv) == [p EXCEPT ![name] = tlv, !.len = @ + TLVLen(tlv)]

addOptionalTLVUncounted(p, tlv) == [p EXCEPT !.optionalTLVList = Append(@, tlv)]

addOptionalTLV(p, tlv) ==
  [p EXCEPT !.optionalTLVList = Append(@, tlv), !.len = @ + TLVLen(tlv)]

(***************************************************************************)
(* A copy counts all its TLVs; assignment does not count the three.        *)
(***************************************************************************)
LLDPAssign(p) ==
  [EthernetAssign(NewLLDP, p) EXCEPT
     !.chassisId = p.chassisId, !.portId = p.portId, !.ttl = p.ttl,
     !.optionalTLVList = p.optionalTLVList, !.len = SumOfLens(p.optionalTLVList)]

LLDPCopy(p) ==
  [LLDPAssign(p) EXCEPT !.len = SumOfLens(p.optionalTLVList) + MandatoryLen(p)]

-----------------------------------------------------------------------------
(***************************************************************************)
(* Anything else: the rest of the frame, if there is room for it.          *)
(***************************************************************************)
NewUnknownEthernet == Joined(NewEthernet("UnknownEthernet", 0), [etherpayload |-> <<>>])

UnknownEthernetAssign(p) ==
  [EthernetAssign(NewUnknownEthernet, p) EXCEPT !.etherpayload = p.etherpayload]

ReadRest(r) ==
  IF Len(r.rest) > ETHERNET_MAX_SIZE THEN Failed(r)
  ELSE ReadBytes(r, "etherpayload", Len(r.rest))

UnknownEthernetStreamFrom(r) == ReadRest(EthernetStreamFrom(r))

UnknownEthernetStreamTo(p) == EthernetStreamTo(p) \o p.etherpayload

UnknownEthernetLen(p) == EthernetLen(p) + Len(p.etherpayload)

(***************************************************************************)
(* SetAppPayload of the classes that have room for a payload: nothing      *)
(* changes nothing, and what is too long is cut.                           *)
(***************************************************************************)
SetAppPayload(p, data) ==
  IF data = <<>> THEN p
  ELSE [p EXCEPT !.etherpayload =
          IF Len(data) > ETHERNET_MAX_SIZE THEN SubSeq(data, 1, ETHERNET_MAX_SIZE) ELSE data]
=============================================================================
