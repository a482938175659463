----------------------------- MODULE IPPackets -----------------------------
(***************************************************************************)
(* The packets in IP (src/src/packet/): IPPacket, TCPPacket, UDPPacket and *)
(* the classes that are made of them, UnknownIPPacket, UnknownTCPPacket,   *)
(* UnknownUDPPacket and ICMPPacket.  The payload a constructor leaves      *)
(* uninitialised is Unset; checksums are computed as the code does it, on  *)
(* a little-endian machine, except for that of a TCP packet with options.  *)
(***************************************************************************)
EXTENDS EtherPackets

Unset == <<-1>>

(***************************************************************************)
(* The scratch words hold two fields each while a header is read.          *)
(***************************************************************************)
IPHead ==
  << <<"versionheader", 1>>, <<"diffServ", 1>>, <<"totalLength", 2>>,
     <<"identification", 2>>, <<"sscratch", 2>>, <<"ttl", 1>>, <<"protocol", 1>>,
     <<"checksum", 2>>, <<"sourceAddress", 4>>, <<"destinationAddress", 4>> >>

NewIP(class, protocol) ==
  Joined(NewEthernet(class, IPType),
    Joined([Cleared(IPHead) EXCEPT !.protocol = protocol],
           [version |-> 4, headerLength |-> 0, flags |-> 0, fragmentOffset |-> 0,
            options |-> <<>>, etherpayload |-> Unset]))

(***************************************************************************)
(* Mutation of IPSplit: the flags keep the bit of the offset below them.   *)
(***************************************************************************)
IPSplitFlags(p) ==
  [p EXCEPT !.version = p.versionheader \div 16, !.headerLength = p.versionheader % 16,
            !.flags = p.sscratch \div 4096, !.fragmentOffset = p.sscratch % 256,
            !.versionheader = 0, !.sscratch = 0]

(***************************************************************************)
(* The two words are taken apart; of the offset, eight bits are kept.      *)
(***************************************************************************)
IPSplit(p) ==
  [p EXCEPT !.version = p.versionheader \div 16, !.headerLength = p.versionheader % 16,
            !.flags = p.sscratch \div 8192, !.fragmentOffset = p.sscratch % 256,
            !.versionheader = 0, !.sscratch = 0]

(***************************************************************************)
(* Options that are cut short have the length the header gives them all    *)
(* the same, which ICMPPacket goes on with; zeros stand for the bytes,     *)
(* which are those the memory had.                                         *)
(***************************************************************************)
CutOptions(r, size) == Failed(With(r, [r.p EXCEPT !.options = Zeros(size)]))

ReadIPOptions(r) ==
  LET size == 4 * (r.p.headerLength - 5)
      read == ReadBytes(r, "options", size)
  IN  IF r.p.headerLength > 5 THEN IF read.good THEN read ELSE CutOptions(r, size) ELSE r

ReadIPHead(r) == With(r, IPSplit(r.p))

IPStreamFrom(r) == ReadIPOptions(ReadIPHead(ReadFields(EthernetStreamFrom(r), IPHead)))

IPLen(p) == EthernetLen(p) + 20 + Len(p.options)

(***************************************************************************)
(* The header as it is written, once its lengths are known.                *)
(***************************************************************************)
IPHeader(p) ==
  WriteFields([p EXCEPT !.versionheader = 16 * (p.version % 16) + (p.headerLength % 16),
                        !.sscratch = 8192 * (p.flags % 8) + (p.fragmentOffset % 8192)], IPHead)
    \o p.options

(***************************************************************************)
(* CheckSum: the sum folded once, in the other byte order.                 *)
(***************************************************************************)
IPCheckSum(p) == Swapped(Complement(FoldedOnce(SumOfWords(IPHeader(p)))))

(***************************************************************************)
(* What StreamTo sets: the lengths, and a checksum that is zero.           *)
(***************************************************************************)
IPPrepared(p, streamlen) ==
  LET sized == [p EXCEPT !.headerLength = 5 + (Len(p.options) \div 4),
                         !.totalLength = streamlen - EthernetLen(p)]
  IN  IF sized.checksum = 0 THEN [sized EXCEPT !.checksum = IPCheckSum(sized)] ELSE sized

IPStreamTo(p) == EthernetStreamTo(p) \o IPHeader(p)

IPJson ==
  << <<"version", 1, "number">>, <<"headerLength", 1, "number">>, <<"diffServ", 1, "number">>,
     <<"totalLength", 2, "number">>, <<"identification", 2, "number">>,
     <<"flags", 1, "number">>, <<"fragmentOffset", 2, "number">>, <<"ttl", 1, "number">>,
     <<"protocol", 1, "number">>, <<"checksum", 2, "number">>,
     <<"sourceAddress", 4, "ipv4">>, <<"destinationAddress", 4, "ipv4">> >>

SetOption(p, data) == [p EXCEPT !.options = data]

(***************************************************************************)
(* getDscp, setDscp, getEcn and setEcn.                                    *)
(***************************************************************************)
Dscp(p) == p.diffServ \div 4

setDscp(p, dscp) == [p EXCEPT !.diffServ = 4 * (dscp % 64) + (@ % 4)]

Ecn(p) == p.diffServ % 4

setEcn(p, ecn) == [p EXCEPT !.diffServ = 4 * (@ \div 4) + (ecn % 4)]

(***************************************************************************)
(* Read of a payload of so many bytes, of which the code takes no more     *)
(* than it has room for.  Its mutation takes no empty one.                 *)
(***************************************************************************)
ReadPayloadSome(r, size) ==
  IF size \notin 1..ETHERNET_MAX_SIZE THEN Failed(r)
  ELSE ReadBytes(r, "etherpayload", size)

ReadPayload(r, size) ==
  IF size \notin 0..ETHERNET_MAX_SIZE THEN Failed(r)
  ELSE ReadBytes(r, "etherpayload", size)

(***************************************************************************)
(* IP with another protocol.                                               *)
(***************************************************************************)
NewUnknownIP == NewIP("UnknownIP", 0)

ReadIPPayload(r) == ReadPayload(r, r.p.totalLength - 20 - Len(r.p.options))

UnknownIPStreamFrom(r) == ReadIPPayload(IPStreamFrom(r))

UnknownIPLen(p) == IPLen(p) + Len(p.etherpayload)

UnknownIPPrepared(p) == IPPrepared(p, UnknownIPLen(p))

UnknownIPStreamTo(p) == IPStreamTo(p) \o p.etherpayload

-----------------------------------------------------------------------------
(***************************************************************************)
(* TCP.  The options are padded to the data offset; GetStreamLen counts    *)
(* the options alone.                                                      *)
(***************************************************************************)
TCPHead ==
  << <<"tcpsourcePort", 2>>, <<"tcpdestinationPort", 2>>, <<"tcpsequence", 4>>,
     <<"tcpacknowledge", 4>>, <<"tcpflags", 2>>, <<"tcpwindowSize", 2>>,
     <<"tcpchecksum", 2>>, <<"tcpurgentPointer", 2>> >>

NewUnknownTCP ==
  Joined(NewIP("UnknownTCP", 0),
         Joined(Cleared(TCPHead), [tcpdataOffset |-> 0, tcpoptions |-> <<>>]))

TCPSplit(p) == [p EXCEPT !.tcpdataOffset = p.tcpflags \div 4096, !.tcpflags = @ % 512]

ReadTCPHead(r) == With(r, TCPSplit(r.p))

ReadTCPOptions(r) ==
  IF r.p.tcpdataOffset > 5 THEN ReadBytes(r, "tcpoptions", 4 * r.p.tcpdataOffset - 20) ELSE r

TCPStreamFrom(r) == ReadTCPOptions(ReadTCPHead(ReadFields(IPStreamFrom(r), TCPHead)))

TCPLen(p) == IPLen(p) + 20 + Len(p.tcpoptions)

TCPHeader(p) ==
  WriteFields([p EXCEPT !.tcpflags = @ + 4096 * p.tcpdataOffset], TCPHead)
    \o (IF p.tcpdataOffset <= 5 THEN <<>>
        ELSE p.tcpoptions \o Zeros(4 * p.tcpdataOffset - 20 - Len(p.tcpoptions)))

(***************************************************************************)
(* TCPCheckSum of a packet without options, and UDPCheckSum, which counts  *)
(* the whole frame as the length and leaves out an odd last byte: the sums *)
(* are kept in 16 bits, and what is carried is lost.                       *)
(***************************************************************************)
PseudoSum(p, length) ==
  SumOfWords(p.sourceAddress) + SumOfWords(p.destinationAddress) + p.protocol + length

TCPCheckSum(p) ==
  Complement(PseudoSum(p, 20 + Len(p.etherpayload))
             + SumOfWords(TCPHeader(p) \o p.etherpayload))

SetTCPOption(p, data) ==
  [p EXCEPT !.tcpoptions = data, !.tcpdataOffset = (23 + Len(data)) \div 4]

ReadTCPPayload(r) ==
  ReadPayload(r, r.p.totalLength - 40 - Len(r.p.options) - Len(r.p.tcpoptions))

UnknownTCPStreamFrom(r) == ReadTCPPayload(TCPStreamFrom(r))

UnknownTCPLen(p) == TCPLen(p) + Len(p.etherpayload)

UnknownTCPPrepared(p) ==
  LET q == IPPrepared(p, UnknownTCPLen(p))
      offset == [q EXCEPT !.tcpdataOffset = IF @ = 0 THEN 5 ELSE @]
  IN  IF p.tcpchecksum = 0 THEN [offset EXCEPT !.tcpchecksum = TCPCheckSum(offset)] ELSE offset

UnknownTCPStreamTo(p) == IPStreamTo(p) \o TCPHeader(p) \o p.etherpayload

TCPJson ==
  << <<"tcpsourcePort", 2, "number">>, <<"tcpdestinationPort", 2, "number">>,
     <<"tcpsequence", 4, "number">>, <<"tcpacknowledge", 4, "number">>,
     <<"tcpdataOffset", 1, "number">>, <<"tcpflags", 2, "number">>,
     <<"tcpwindowSize", 2, "number">>, <<"tcpchecksum", 2, "number">>,
     <<"tcpurgentPointer", 2, "number">> >>

-----------------------------------------------------------------------------
(***************************************************************************)
(* UDP: the payload is as long as the UDP header says, not the IP header.  *)
(***************************************************************************)
UDPHead ==
  << <<"sourcePort", 2>>, <<"destinationPort", 2>>, <<"udplength", 2>>, <<"udpchecksum", 2>> >>

NewUnknownUDP == Joined(NewIP("UnknownUDP", 17), Cleared(UDPHead))

UDPStreamFrom(r) == ReadFields(IPStreamFrom(r), UDPHead)

UDPLen(p) == IPLen(p) + 8

ReadUDPPayload(r) == ReadPayload(r, r.p.udplength - 8)

UnknownUDPStreamFrom(r) == ReadUDPPayload(UDPStreamFrom(r))

UnknownUDPLen(p) == UDPLen(p) + Len(p.etherpayload)

UDPCheckSum(p) ==
  LET length == UnknownUDPLen(p)
      whole == SubSeq(p.etherpayload, 1, 2 * (Len(p.etherpayload) \div 2))
      written == WriteFields([p EXCEPT !.udplength = length], UDPHead) \o whole
  IN  Complement(PseudoSum(p, length) + SumOfWords(written))

UnknownUDPPrepared(p) ==
  LET q == IPPrepared(p, UnknownUDPLen(p))
      sized == [q EXCEPT !.udplength = IF @ = 0 THEN UnknownUDPLen(p) - IPLen(p) ELSE @]
  IN  IF p.udpchecksum = 0 THEN [sized EXCEPT !.udpchecksum = UDPCheckSum(sized)] ELSE sized

UnknownUDPStreamTo(p) == IPStreamTo(p) \o WriteFields(p, UDPHead) \o p.etherpayload

UDPJson ==
  << <<"sourcePort", 2, "number">>, <<"destinationPort", 2, "number">>,
     <<"udplength", 2, "number">>, <<"udpchecksum", 2, "number">> >>

-----------------------------------------------------------------------------
(***************************************************************************)
(* ICMP: what is missing of the frame is not noticed, and the checksum is  *)
(* always computed.                                                        *)
(***************************************************************************)
ICMPHead ==
  << <<"icmpType", 1>>, <<"icmpCode", 1>>, <<"icmpchecksum", 2>>,
     <<"icmpidentifier", 2>>, <<"icmpsequencnum", 2>> >>

NewICMP == Joined([NewIP("ICMP", 1) EXCEPT !.etherpayload = <<>>], Cleared(ICMPHead))

(***************************************************************************)
(* A payload that could not be read is that of the constructor: zeros.     *)
(***************************************************************************)
ICMPPayload(r, size) ==
  IF r.good /\ Len(r.rest) >= size THEN ReadBytes(r, "etherpayload", size)
  ELSE With(r, [r.p EXCEPT !.etherpayload = Zeros(size)])

ReadICMPPayload(r) ==
  LET size == r.p.totalLength - 28 - Len(r.p.options)
      read == ICMPPayload(r, size)
  IN  IF size \notin 0..ETHERNET_MAX_SIZE THEN Failed(r)
      ELSE [p |-> read.p, rest |-> read.rest, good |-> TRUE]

ICMPStreamFrom(r) == ReadICMPPayload(ReadFields(IPStreamFrom(r), ICMPHead))

ICMPLen(p) == 8 + Len(p.etherpayload) + IPLen(p)

ICMPCheckSum(p) ==
  LET sum == SumOfWords(WriteFields([p EXCEPT !.icmpchecksum = 0], ICMPHead) \o p.etherpayload)
  IN  Complement(FoldedOnce(FoldedOnce(sum)))

ICMPPrepared(p) ==
  IPPrepared([p EXCEPT !.icmpchecksum = ICMPCheckSum(p)], ICMPLen(p))

ICMPStreamTo(p) == IPStreamTo(p) \o WriteFields(p, ICMPHead) \o p.etherpayload

ICMPJson ==
  << <<"icmpType", 1, "number">>, <<"icmpCode", 1, "number">>, <<"icmpchecksum", 2, "number">>,
     <<"icmpidentifier", 2, "number">>, <<"icmpsequencnum", 2, "number">> >>
=============================================================================
