------------------------------- MODULE Codecs -------------------------------
(***************************************************************************)
(* The life of a packet (src/src/packet/): a program builds one of a class *)
(* and encodes it, or a host's frame arrives; CVSwitchImp::Input decodes   *)
(* the frame and encodes it again; a controller takes a packet as JSON and *)
(* sends it back; a discovery packet goes from datapath to datapath.       *)
(***************************************************************************)
EXTENDS IPPackets, Discovery

CONSTANTS
  Arrivals,    \* the frames of hosts
  Payloads,    \* what the builder puts behind the head
  Options,     \* the options of IP and TCP
  TLVs,        \* the optional TLVs
  Tagged,      \* the tags: functions on fields of CEthernet
  Services,    \* values of diffServ
  Dps, DpPorts, Costs, MaxLinks

(***************************************************************************)
(* A tag says something of the fields of CEthernet that a tag has; those   *)
(* of its priority have one byte, the others two.                          *)
(***************************************************************************)
TagFields == {"vlanID", "priorityCode", "qinqVID", "qInQPriorityCode", "qinqTPID"}

Priorities == {"priorityCode", "qInQPriorityCode"}

ASSUME TagAssumption ==
  \A tags \in Tagged : \A field \in DOMAIN tags :
    field \in TagFields /\ tags[field] \in IF field \in Priorities THEN Byte ELSE Short

(***************************************************************************)
(* Frames, payloads and options are of bytes; four bits count the words of *)
(* a header, five of which are not for options; a TLV has a type and bytes,*)
(* as many as m_value of LLDPTLV has room for.                             *)
(***************************************************************************)
ASSUME BytesAssumption ==
  /\ Arrivals \subseteq Seq(Byte) /\ Payloads \subseteq Seq(Byte)
  /\ Options \subseteq Seq(Byte) /\ \A data \in Options : Len(data) <= 40
  /\ TLVs \subseteq [type : Short, value : Seq(Byte)]
  /\ \A tlv \in TLVs : Len(tlv.value) <= 255
  /\ Services \subseteq Nat

(***************************************************************************)
(* Datapaths, ports and costs have the widths of their fields, and the     *)
(* links are not more than the 16 bits of the head can count.              *)
(***************************************************************************)
ASSUME LinkAssumption ==
  /\ Dps \subseteq [1..8 -> Byte]
  /\ DpPorts \subseteq [1..4 -> Byte] /\ Costs \subseteq [1..4 -> Byte]
  /\ MaxLinks \in Nat /\ MaxLinks <= 2047

VARIABLES stage, object, origin, frame, again, json

(***************************************************************************)
(* No packet, no frame, no value.                                          *)
(***************************************************************************)
Nothing == [class |-> "none"]

vars == <<stage, object, origin, frame, again, json>>

-----------------------------------------------------------------------------
(***************************************************************************)
(* The class DecodeEthernet makes: by the type behind one or two tags of   *)
(* 8100, and for IP by the byte where the protocol is in an untagged frame.*)
(***************************************************************************)
IPClass(protocol) ==
  CASE protocol = 6 -> "UnknownTCP" [] protocol = 17 -> "UnknownUDP"
    [] protocol = 1 -> "ICMP" [] OTHER -> "UnknownIP"

UntaggedClass(b, type) ==
  CASE type = ARPType -> "ARP" [] type = DSType -> "DS" [] type = LinkDataType -> "LinkData"
    [] type = STPType -> "STP" [] type = LLDPType -> "LLDP"
    [] type = IPType -> IPClass(b[24]) [] OTHER -> "UnknownEthernet"

TaggedClass(b, type) ==
  IF type = LLDPType THEN "UnknownEthernet" ELSE UntaggedClass(b, type)

(***************************************************************************)
(* The types and the protocol are read at fixed places of the frame, also  *)
(* of one that ends before them, where the code reads the memory behind.   *)
(* No frame of the runs is that short.                                     *)
(***************************************************************************)
ClassOf(b) ==
  IF Word(b, 13) # InnerTPID THEN UntaggedClass(b, Word(b, 13))
  ELSE IF Word(b, 17) # InnerTPID THEN TaggedClass(b, Word(b, 17))
  ELSE TaggedClass(b, Word(b, 21))

(***************************************************************************)
(* The virtual methods of a packet, by its class.                          *)
(***************************************************************************)
New(class) ==
  CASE class = "ARP" -> NewARP [] class = "STP" -> NewSTP [] class = "LinkData" -> NewLinkData
    [] class = "DS" -> NewDS [] class = "LLDP" -> NewLLDP
    [] class = "UnknownEthernet" -> NewUnknownEthernet [] class = "UnknownIP" -> NewUnknownIP
    [] class = "UnknownTCP" -> NewUnknownTCP [] class = "UnknownUDP" -> NewUnknownUDP
    [] class = "ICMP" -> NewICMP [] class = "Discovery" -> NewDiscovery

StreamFrom(r) ==
  CASE r.p.class = "ARP" -> ARPStreamFrom(r) [] r.p.class = "STP" -> STPStreamFrom(r)
    [] r.p.class = "LinkData" -> LinkDataStreamFrom(r) [] r.p.class = "DS" -> DSStreamFrom(r)
    [] r.p.class = "LLDP" -> LLDPStreamFrom(r)
    [] r.p.class = "UnknownEthernet" -> UnknownEthernetStreamFrom(r)
    [] r.p.class = "UnknownIP" -> UnknownIPStreamFrom(r)
    [] r.p.class = "UnknownTCP" -> UnknownTCPStreamFrom(r)
    [] r.p.class = "UnknownUDP" -> UnknownUDPStreamFrom(r)
    [] r.p.class = "ICMP" -> ICMPStreamFrom(r)
    [] r.p.class = "Discovery" -> DiscoveryStreamFrom(r)

(***************************************************************************)
(* The packet as StreamTo leaves it, which fills in lengths and checksums, *)
(* and the bytes it writes.                                                *)
(***************************************************************************)
Prepared(p) ==
  CASE p.class = "UnknownIP" -> UnknownIPPrepared(p) [] p.class = "UnknownTCP" -> UnknownTCPPrepared(p)
    [] p.class = "UnknownUDP" -> UnknownUDPPrepared(p) [] p.class = "ICMP" -> ICMPPrepared(p)
    [] p.class = "Discovery" -> DiscoveryPrepared(p)
    [] p.class = "DS" -> [p EXCEPT !.length = <<0, 0, 0, DSSize>>] [] OTHER -> p

StreamTo(p) ==
  CASE p.class = "ARP" -> ARPStreamTo(p) [] p.class = "STP" -> STPStreamTo(p)
    [] p.class = "LinkData" -> LinkDataStreamTo(p) [] p.class = "DS" -> DSStreamTo(p)
    [] p.class = "LLDP" -> LLDPStreamTo(p)
    [] p.class = "UnknownEthernet" -> UnknownEthernetStreamTo(p)
    [] p.class = "UnknownIP" -> UnknownIPStreamTo(p) [] p.class = "UnknownTCP" -> UnknownTCPStreamTo(p)
    [] p.class = "UnknownUDP" -> UnknownUDPStreamTo(p) [] p.class = "ICMP" -> ICMPStreamTo(p)
    [] p.class = "Discovery" -> DiscoveryStreamTo(p)

GetEncodeSpace(p) ==
  CASE p.class = "ARP" -> ARPLen(p) [] p.class = "STP" -> STPLen(p)
    [] p.class = "LinkData" -> LinkDataLen(p) [] p.class = "DS" -> DSLen(p)
    [] p.class = "LLDP" -> LLDPLen(p) [] p.class = "UnknownEthernet" -> UnknownEthernetLen(p)
    [] p.class = "UnknownIP" -> UnknownIPLen(p) [] p.class = "UnknownTCP" -> UnknownTCPLen(p)
    [] p.class = "UnknownUDP" -> UnknownUDPLen(p) [] p.class = "ICMP" -> ICMPLen(p)
    [] p.class = "Discovery" -> DiscoveryLen(p)

(***************************************************************************)
(* Assignment to a new packet, of the classes that can be assigned safely. *)
(***************************************************************************)
Copies(p) ==
  CASE p.class = "STP" -> {STPAssign(p)} [] p.class = "LinkData" -> {LinkDataAssign(p)}
    [] p.class = "DS" -> {DSAssign(p)} [] p.class = "LLDP" -> {LLDPAssign(p), LLDPCopy(p)}
    [] p.class = "UnknownEthernet" -> {UnknownEthernetAssign(p)}
    [] p.class = "Discovery" -> {AssignDiscovery(p)} [] OTHER -> {}

-----------------------------------------------------------------------------
(***************************************************************************)
(* JSON: an object of sections; type is the ethtype a controller puts at   *)
(* the top, where DecodeEthernetFromJson looks for it.                     *)
(***************************************************************************)
SectionsOf(class) ==
  CASE class = "ARP" -> [ethernet |-> EthernetJson, arp |-> ARPJson]
    [] class \in {"STP", "LinkData", "UnknownEthernet"} -> [ethernet |-> EthernetJson]
    [] class = "DS" -> [ethernet |-> EthernetJson, top |-> DSJson]
    [] class = "LLDP" -> <<>>
    [] class = "UnknownIP" -> [ethernet |-> EthernetJson, ip |-> IPJson]
    [] class = "UnknownTCP" -> [ethernet |-> EthernetJson, ip |-> IPJson, tcp |-> TCPJson]
    [] class = "UnknownUDP" -> [ethernet |-> EthernetJson, ip |-> IPJson, udp |-> UDPJson]
    [] class = "ICMP" -> [ethernet |-> EthernetJson, icmp |-> ICMPJson]
    [] class = "Discovery" -> [top |-> DiscoveryJson]

(***************************************************************************)
(* What ToJson changes before it writes: checksums.                        *)
(***************************************************************************)
Summed(p) ==
  CASE p.class = "UnknownTCP" /\ p.tcpchecksum = 0 -> [p EXCEPT !.tcpchecksum = TCPCheckSum(p)]
    [] p.class = "UnknownUDP" /\ p.udpchecksum = 0 -> [p EXCEPT !.udpchecksum = UDPCheckSum(p)]
    [] p.class = "ICMP" -> [p EXCEPT !.icmpchecksum = ICMPCheckSum(p)]
    [] OTHER -> p

SectionsToJson(p) ==
  [s \in DOMAIN SectionsOf(p.class) |-> ObjectOf(p, SectionsOf(p.class)[s])]

ToJson(p) ==
  IF p.class = "Discovery" THEN Joined(SectionsToJson(p), [paths |-> PathsOf(p)])
  ELSE SectionsToJson(p)

(***************************************************************************)
(* A class reads the section of the one it is made of, then its own.       *)
(***************************************************************************)
InSection(p, value, s) ==
  IF s \in DOMAIN SectionsOf(p.class) \cap DOMAIN value
  THEN Assigned(p, value[s], SectionsOf(p.class)[s]) ELSE p

InEthernet(p, value) == InSection(p, value, "ethernet")

InTransport(p, value) ==
  InSection(InSection(InSection(p, value, "tcp"), value, "udp"), value, "icmp")

FromJson(p, value) ==
  IF p.class = "Discovery" THEN DiscoveryFromJson(p, value)
  ELSE InTransport(InSection(InSection(InEthernet(p, value), value, "arp"), value, "ip"), value)

(***************************************************************************)
(* The class of a JSON value by the type at its top; for IP by a protocol  *)
(* in the section of the Ethernet head.                                    *)
(***************************************************************************)
JsonClass(value) ==
  CASE value.type = ARPType -> "ARP"
    [] value.type = IPType ->
         IF "protocol" \in DOMAIN value THEN IPClass(value.protocol) ELSE "UnknownIP"
    [] OTHER -> "UnknownEthernet"

-----------------------------------------------------------------------------
(***************************************************************************)
(* What the builder starts from: a packet whose type says what it is.      *)
(***************************************************************************)
Started(class) ==
  CASE class = "UnknownTCP" -> [New(class) EXCEPT !.protocol = 6, !.sourceAddress = <<10, 0, 0, 1>>]
    [] class = "UnknownIP" -> [New(class) EXCEPT !.protocol = 2, !.flags = 2]
    [] class = "UnknownEthernet" -> [New(class) EXCEPT !.ethtype = \h86dd]
    [] class = "Discovery" -> [New(class) EXCEPT !.to = <<0, 0, 0, 0, 0, 0, 0, 2>>]
    [] OTHER -> New(class)

Classes ==
  {"ARP", "STP", "LinkData", "DS", "LLDP", "UnknownEthernet", "UnknownIP", "UnknownTCP",
   "UnknownUDP", "ICMP", "Discovery"}

Init ==
  /\ again = Nothing /\ json = Nothing
  /\ \/ /\ stage = "built" /\ frame = Nothing
        /\ object \in {Started(class) : class \in Classes} /\ origin = object
     \/ /\ stage = "wire" /\ frame \in Arrivals
        /\ object = Nothing /\ origin = Nothing

IsIP(p) == p.class \in {"UnknownIP", "UnknownTCP", "UnknownUDP", "ICMP"}

(***************************************************************************)
(* One of the packet's setters.                                            *)
(***************************************************************************)
Built(p) ==
  /\ stage = "built" /\ p # object
  /\ object' = p /\ origin' = p
  /\ UNCHANGED <<stage, frame, again, json>>

BuildTags ==
  /\ stage = "built" /\ object.class # "Discovery"
  /\ \E tags \in Tagged : Built(Joined(tags, object))

BuildPayload ==
  \E data \in Payloads :
    \/ stage = "built" /\ object.class \in {"STP", "LinkData"} /\ Built(SetPayload(object, data))
    \/ /\ stage = "built" /\ (object.class = "UnknownEthernet" \/ IsIP(object))
       /\ Built(SetAppPayload(object, data))

(***************************************************************************)
(* IP options are set in whole words, which is all that a header length    *)
(* can count; the setter takes others as well.                             *)
(***************************************************************************)
BuildOption ==
  \E data \in Options :
    /\ stage = "built" /\ IsIP(object)
    /\ \/ Len(data) % 4 = 0 /\ Built(SetOption(object, data))
       \/ /\ object.class = "UnknownTCP" /\ data # <<>>
          /\ Built([SetTCPOption(object, data) EXCEPT !.tcpchecksum = 1])

BuildService ==
  /\ stage = "built" /\ IsIP(object)
  /\ \E s \in Services : \/ Built(setDscp(object, s))
                         \/ Built(setEcn(object, s))

(***************************************************************************)
(* The three TLVs are set once each: the setters would count a second one  *)
(* as well.  One of the others may be given a value that is shorter than   *)
(* it was made for, or too long for it.                                    *)
(***************************************************************************)
BuildTLV ==
  /\ stage = "built" /\ object.class = "LLDP"
  /\ \/ \E i \in DOMAIN Mandatory :
          /\ object[Mandatory[i][1]].type = 0
          /\ Built(SetMandatory(object, Mandatory[i][1], TLV(Mandatory[i][2], <<i, 0>>)))
     \/ /\ Len(object.optionalTLVList) < 2
        /\ \E tlv \in TLVs : \E length \in {2, Len(tlv.value) + 1} :
             Built(addOptionalTLV(object, SetValue(tlv, length, tlv.value)))

(***************************************************************************)
(* A datapath takes the packet in at a port, or sends it out of one.       *)
(***************************************************************************)
BuildLink ==
  /\ stage = "built" /\ object.class = "Discovery"
  /\ \E dp \in Dps, port \in DpPorts :
       \/ Built(ModifyLastDpPort(object, port, dp))
       \/ /\ Len(object.m_links) < MaxLinks
          /\ \E cost \in Costs : Built(AddNewLink(object, port, dp, cost))

Copy ==
  /\ stage = "built" /\ stage' = "copied"
  /\ object' \in Copies(object)
  /\ UNCHANGED <<origin, frame, again, json>>

(***************************************************************************)
(* A packet in IP has no payload to write before it is given one.          *)
(***************************************************************************)
HasPayload(p) == IsIP(p) => p.etherpayload # Unset

Encode ==
  /\ stage \in {"built", "copied"} /\ HasPayload(object)
  /\ LET p == Prepared(object)
     IN  /\ object' = p /\ origin' = Prepared(origin)
         /\ IF Len(StreamTo(p)) <= GetEncodeSpace(object)
            THEN stage' = "wire" /\ frame' = StreamTo(p)
            ELSE stage' = "failed" /\ UNCHANGED frame
  /\ UNCHANGED <<again, json>>

Travels(p) == p.class = "Discovery"

(***************************************************************************)
(* Input: the frame is decoded, and encoded again.                         *)
(***************************************************************************)
Input ==
  /\ stage = "wire" /\ ~Travels(origin)
  /\ \E r \in {StreamFrom(Reading(New(ClassOf(frame)), frame))} :
       \/ /\ r.good /\ stage' = "relayed"
          /\ object' \in {Prepared(r.p)} /\ again' = StreamTo(object')
       \/ ~r.good /\ stage' = "dropped" /\ UNCHANGED <<object, again>>
  /\ UNCHANGED <<origin, frame, json>>

(***************************************************************************)
(* The next datapath decodes the packet, and goes on building.             *)
(***************************************************************************)
Discover ==
  /\ stage = "wire" /\ Travels(origin)
  /\ \E r \in {DiscoveryStreamFrom(Reading(NewDiscovery, frame))} :
       \/ r.good /\ stage' = "relayed" /\ object' = r.p /\ again' = DiscoveryStreamTo(r.p)
       \/ ~r.good /\ stage' = "dropped" /\ UNCHANGED <<object, again>>
  /\ UNCHANGED <<origin, frame, json>>

GoesOn ==
  /\ stage = "relayed" /\ object.class = "Discovery"
  /\ object.m_links # <<>> => ~DpIsEnd(object, Last(object.m_links).dst.dpit)
  /\ stage' = "built" /\ origin' = object /\ frame' = Nothing /\ again' = Nothing
  /\ UNCHANGED <<object, json>>

(***************************************************************************)
(* The controller gets what ToJson writes, and sends it back as it is or   *)
(* with the type, and maybe the protocol, where they are looked for.       *)
(***************************************************************************)
Report ==
  /\ stage = "relayed" /\ stage' = "json"
  /\ object' = Summed(object) /\ origin' = Summed(object)
  /\ LET value == ToJson(Summed(object))
     IN  \/ json' = value
         \/ /\ object.class # "Discovery"
            /\ \/ json' = Joined(value, [type |-> object.ethtype])
               \/ IsIP(object) /\ json' = Joined(value, [type |-> object.ethtype,
                                                         protocol |-> object.protocol])
  /\ UNCHANGED <<frame, again>>

ReadJson ==
  /\ stage = "json"
  /\ IF object.class = "Discovery"
     THEN stage' = "read" /\ object' = FromJson(NewDiscovery, json)
     ELSE IF "type" \notin DOMAIN json THEN stage' = "refused" /\ UNCHANGED object
     ELSE stage' = "read" /\ object' = FromJson(New(JsonClass(json)), json)
  /\ UNCHANGED <<origin, frame, again, json>>

Next ==
  \/ BuildTags \/ BuildPayload \/ BuildOption \/ BuildService \/ BuildTLV \/ BuildLink
  \/ Copy \/ Encode \/ Input \/ Discover \/ GoesOn \/ Report \/ ReadJson

Spec == Init /\ [][Next]_vars

-----------------------------------------------------------------------------
(***************************************************************************)
(* What the host means by a frame, read without the classes: the type is   *)
(* behind the tags, and what follows is all there.                         *)
(***************************************************************************)
TypeAt(b) ==
  IF Word(b, 13) # InnerTPID THEN 13 ELSE IF Word(b, 17) # InnerTPID THEN 17 ELSE 21

Inside(b) == SubSeq(b, TypeAt(b) + 2, Len(b))

CarriesIP(b) == Word(b, TypeAt(b)) = IPType

HeadSize(d) == 4 * (d[1] % 16)

IsFragment(d) == Word(d, 7) % 16384 # 0

WholeIP(d) ==
  /\ Len(d) >= 20 /\ ~IsFragment(d)
  /\ Word(d, 3) \in HeadSize(d)..Len(d) /\ Word(d, 3) - HeadSize(d) <= ETHERNET_MAX_SIZE
  /\ LET inner == SubSeq(d, HeadSize(d) + 1, Word(d, 3))
     IN  CASE d[10] = 6 -> Len(inner) >= 20 /\ 4 * (inner[13] \div 16) \in 20..Len(inner)
           [] d[10] = 17 -> Len(inner) >= 8 /\ Word(inner, 5) = Len(inner)
           [] d[10] = 1 -> Len(inner) >= 8
           [] OTHER -> TRUE

(***************************************************************************)
(* The types of the TLVs up to the end, or -1 where one is cut.            *)
(***************************************************************************)
TypesOf(d) ==
  LET types[left \in 0..Len(d)] ==
        LET rest == Ending(d, left)
            size == Word(rest, 1) % 512
        IN  IF left < 2 \/ left < 2 + size THEN <<-1>>
            ELSE IF rest[1] \div 2 = 0 THEN <<0>>
            ELSE <<rest[1] \div 2>> \o types[left - 2 - size]
  IN  types[Len(d)]

WholeLLDP(d) ==
  LET types == TypesOf(d)
  IN  Len(types) > 3 /\ SubSeq(types, 1, 3) = <<1, 2, 3>> /\ Last(types) = 0

Whole(b) ==
  LET d == Inside(b)
  IN  CASE Word(b, TypeAt(b)) = ARPType -> Len(d) >= 28
        [] Word(b, TypeAt(b)) = DSType -> Len(d) >= 52
        [] Word(b, TypeAt(b)) = LinkDataType -> Len(d) >= 32 /\ Len(d) >= 32 + Word(d, 31)
        [] Word(b, TypeAt(b)) = STPType -> Len(d) >= 2 + Word(d, 1)
        [] Word(b, TypeAt(b)) = LLDPType /\ TypeAt(b) = 13 -> WholeLLDP(d)
        [] CarriesIP(b) -> WholeIP(d)
        [] OTHER -> Len(d) <= ETHERNET_MAX_SIZE

(***************************************************************************)
(* The protocol of a tagged packet, looked for where it is not.            *)
(***************************************************************************)
Misread(b) == CarriesIP(b) /\ IPClass(b[24]) # IPClass(Inside(b)[10])

-----------------------------------------------------------------------------
(***************************************************************************)
(* The frames that Input may change when it encodes them again: one with a *)
(* bit that no field keeps, with a checksum that is zero or, for ICMP, not *)
(* the right one, a discovery frame with another length, and an LLDP frame *)
(* with nine bytes to go before a TLV.                                     *)
(***************************************************************************)
RightSum(b) == LET sum == SumOfWords(b) IN (sum % 65535) = 0 /\ sum > 0

ExactIP(d) ==
  LET inner == SubSeq(d, HeadSize(d) + 1, Word(d, 3))
  IN  /\ Word(d, 11) # 0
      /\ CASE d[10] = 6 -> Word(inner, 17) # 0 /\ (Word(inner, 13) \div 512) % 8 = 0
           [] d[10] = 17 -> Word(inner, 7) # 0
           [] d[10] = 1 -> RightSum(inner)
           [] OTHER -> TRUE

NineLeft(d) ==
  \E k \in 1..Len(d) :
    LET tail == SubSeq(d, k, Len(d))
    IN  Len(tail) = 9 /\ tail[1] \div 2 > 3 /\ Len(TypesOf(d)) = Len(TypesOf(tail)) +
          Len(TypesOf(SubSeq(d, 1, k - 1))) - 1

Exact(b) ==
  LET d == Inside(b)
  IN  /\ \A at \in {13, 17} : (\A t \in {13, at} : Word(b, t) \in {InnerTPID, OuterTPID})
                               => (b[at + 2] \div 16) % 2 = 0
      /\ Word(b, TypeAt(b)) = DSType => SubSeq(d, 1, 4) = <<0, 0, 0, DSSize>>
      /\ Word(b, TypeAt(b)) = LLDPType => ~NineLeft(d)
      /\ CarriesIP(b) => ExactIP(d)

(***************************************************************************)
(* What Input, VerifyEthernetdata and the builders rely on: StreamTo fills *)
(* the block that GetEncodeSpace makes for it, exactly; it fails for a TCP *)
(* packet whose options are padded, and for an LLDP packet that lacks a    *)
(* TLV it must have or was assigned, only.                                 *)
(***************************************************************************)
FitsItsSpace ==
  /\ stage = "wire" /\ origin # Nothing => Len(frame) = GetEncodeSpace(object)
  /\ stage = "relayed" => Len(again) = GetEncodeSpace(object)
  /\ stage = "failed" =>
       \/ object.class = "UnknownTCP" /\ Len(object.tcpoptions) % 4 # 0
       \/ /\ object.class = "LLDP"
          /\ object # origin \/ \E i \in DOMAIN Mandatory : object[Mandatory[i][1]].type = 0

(***************************************************************************)
(* The switch drops no frame that is whole, but tagged IP whose protocol   *)
(* it misreads (DecodeEthernet, called by CVSwitchImp::Input).             *)
(***************************************************************************)
WholeFramesPass ==
  stage = "dropped" => ~Whole(frame) \/ Misread(frame)

(***************************************************************************)
(* The assertions of VerifyEthernetdata, in the debug build: what Input    *)
(* encodes again is the frame that came in, up to what was behind it.      *)
(***************************************************************************)
ReencodedAlike ==
  stage = "relayed" /\ object.class # "Discovery" /\ Whole(frame) /\ ~Misread(frame) /\ Exact(frame)
    => IsPrefix(again, frame)

(***************************************************************************)
(* A packet arrives as it was built, copied or not, unless its tags hide   *)
(* what it is, or a TLV of LLDP is lost.                                   *)
(***************************************************************************)
DecodedIsSent ==
  stage = "relayed" /\ origin # Nothing =>
    \/ object = origin
    \/ origin.class # object.class /\ origin.vlanID # NoVlan
    \/ origin.class = "LLDP" /\ NineLeft(Inside(frame))

(***************************************************************************)
(* What a controller is told of a packet and sends back as it was told is  *)
(* what the packet it makes of it says, in the sections both have.         *)
(***************************************************************************)
JsonKeeps ==
  stage = "read" =>
    \A s \in DOMAIN SectionsOf(origin.class) \cap DOMAIN SectionsOf(object.class) :
      ObjectOf(object, SectionsOf(object.class)[s]) = ObjectOf(origin, SectionsOf(object.class)[s])

(***************************************************************************)
(* The links of a discovery packet are a path, at every datapath it comes  *)
(* to and at the controller; and the loop at a datapath starts there.      *)
(***************************************************************************)
PathConnected ==
  Travels(object) =>
    /\ \A i \in 1..(Len(object.m_links) - 1) :
         object.m_links[i].dst.dpit = object.m_links[i + 1].src.dpit
    /\ \A dp \in Dps : LET loop == GetLoopList(object, dp)
                      IN  loop # <<>> => loop[1].src.dpit = dp /\ IsHaveTheDP(object, dp)

(***************************************************************************)
(* CVSwitchImp::Input asserts that every frame can be decoded.             *)
(***************************************************************************)
EveryFrameDecodes == stage # "dropped"
=============================================================================
