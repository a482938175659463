------------------------------ MODULE MCCodecs ------------------------------
(***************************************************************************)
(* Frames of hosts, put together byte by byte, and what a builder gives    *)
(* its packets.                                                            *)
(***************************************************************************)
EXTENDS Codecs

Eth(type, d) == <<2, 0, 0, 0, 0, 1, 2, 0, 0, 0, 0, 2>> \o Bytes(type, 2) \o d

Tag(tpid, tci, b) == SubSeq(b, 1, 12) \o Bytes(tpid, 2) \o Bytes(tci, 2) \o SubSeq(b, 13, Len(b))

IPWith(tos, id, fragment, protocol, options, total, d) ==
  Eth(\h0800, <<69 + (Len(options) \div 4), tos>>
    \o Bytes(20 + Len(options) + total, 2) \o Bytes(id, 2) \o Bytes(fragment, 2)
    \o <<64, protocol>> \o Bytes(\h1234, 2) \o <<10, 0, 0, 1, 10, 0, 0, 2>> \o options \o d)

IPOf(protocol, d) == IPWith(0, 256, \h4000, protocol, <<>>, Len(d), d)

TCPSegment(flags, sum, options, data) ==
  <<0, 80, 4, 0, 0, 0, 0, 1, 0, 0, 0, 2>>
    \o Bytes(4096 * (5 + (Len(options) \div 4)) + flags, 2) \o <<1, 0>> \o Bytes(sum, 2) \o <<0, 0>>
    \o options \o data

UDPDatagram(sum, size, data) == <<0, 53, 4, 0>> \o Bytes(8 + size, 2) \o Bytes(sum, 2) \o data

Echo(data) ==
  LET rest == <<8, 0, 0, 0, 0, 1, 0, 1>> \o data
  IN  <<8, 0>> \o Bytes(65535 - (SumOfWords(rest) % 65535), 2) \o <<0, 1, 0, 1>> \o data

Octets(n) == [i \in 1..n |-> (37 * i) % 256]

ArpRequest == Eth(\h0806, <<0, 1, 8, 0, 6, 4, 0, 1>> \o Octets(20))

Segment == IPOf(6, TCPSegment(16, 7, <<>>, Octets(3)))

Datagram == IPOf(17, UDPDatagram(9, 5, Octets(5)))

LldpHead == <<2, 2, 4, 1, 4, 2, 5, 1, 6, 2, 0, 120>>

EtherArrivals ==
  LET link(size) == Eth(\h9945, Octets(30) \o Bytes(size, 2) \o Octets(3))
      bpdu == Eth(\h9946, Bytes(8, 2) \o Octets(8))
      ds(size) == Eth(\h9944, <<0, 0, 0, size>> \o Octets(48))
      lldp(d) == Eth(\h88CC, LldpHead \o d)
  IN  {ArpRequest, SubSeq(ArpRequest, 1, 40), Tag(\h8100, \h2005, ArpRequest),
       Tag(\h8100, 7, Tag(\h8100, \h3005, ArpRequest)), Tag(\h8100, 7, Tag(\h88a8, 5, Octets(24))),
       Tag(\h88a8, \hf005, ArpRequest), Tag(\h88a8, 7, Tag(\h8100, 5, ArpRequest)),
       Tag(\h8100, 7, bpdu), bpdu, Eth(\h9946, Bytes(30, 2) \o Octets(8)),
       Tag(\h8100, 7, ds(52)), ds(52), ds(40), link(3), link(0), link(4), Tag(\h8100, 7, link(2)),
       lldp(<<8, 3, 1, 2, 3, 10, 2, 1, 2, 0, 0>>), lldp(<<10, 5, 1, 2, 3, 4, 5, 0, 0>>),
       lldp(<<8, 1, 7, 0, 0, 0, 0, 0>>), lldp(<<0, 0>>), lldp(<<8, 9, 1, 2>>), lldp(<<>>),
       Eth(\h88CC, <<2, 2, 4, 1, 6, 2, 0, 120, 4, 2, 5, 1, 0, 0>>), Tag(\h8100, 7, lldp(<<0, 0>>)),
       Eth(\h86dd, Octets(ETHERNET_MAX_SIZE)), Eth(\h86dd, Octets(ETHERNET_MAX_SIZE + 1)),
       Tag(\h8100, 7, Eth(\h86dd, Octets(20)))}

IPArrivals ==
  {Segment, Segment \o Octets(6), SubSeq(Segment, 1, 50), IPOf(6, TCPSegment(2, 7, <<2, 4, 5, 180>>, <<>>)),
   IPOf(6, TCPSegment(16, 0, <<>>, Octets(2))), IPOf(6, TCPSegment(\h210, 7, <<>>, <<>>)),
   Datagram, IPOf(17, UDPDatagram(0, 5, Octets(5))), IPOf(17, UDPDatagram(9, 0, <<>>)),
   IPOf(1, Echo(Octets(4))), IPOf(1, Echo(<<>>)), SubSeq(IPOf(1, Echo(Octets(4))), 1, 44),
   IPOf(1, <<8, 0, 9, 9, 0, 1, 0, 1>>), IPWith(192, 256, 0, 2, <<148, 4, 0, 0>>, 8, Octets(8)),
   SubSeq(IPWith(0, 256, \h4000, 1, Octets(8), 12, Echo(Octets(4))), 1, 37),
   IPWith(0, 256, 0, 89, <<>>, ETHERNET_MAX_SIZE + 1, Octets(ETHERNET_MAX_SIZE + 1)),
   IPWith(0, 256, 300, 2, <<>>, 8, Octets(8)), Tag(\h8100, 7, Segment), Tag(\h8100, 7, Datagram),
   Tag(\h8100, 7, IPOf(2, Octets(8))), Tag(\h8100, 7, Tag(\h8100, 5, Datagram)),
   Tag(\h8100, 7, IPWith(0, 17, 0, 6, <<>>, 20, TCPSegment(2, 7, <<>>, <<>>))),
   Tag(\h8100, 7, IPWith(0, 6, 0, 6, <<>>, 20, TCPSegment(2, 7, <<>>, <<>>)))}

(***************************************************************************)
(* The fragments of a datagram: the first has the head of the whole one.   *)
(***************************************************************************)
Fragments ==
  {IPWith(0, 256, \h2000, 17, <<>>, 16, UDPDatagram(9, 24, Octets(8))),
   IPWith(0, 256, 2, 17, <<>>, 16, Octets(16))}

MCArrivals == EtherArrivals \cup IPArrivals \cup Fragments

SoundArrivals == {ArpRequest, Segment, Datagram} \cup Fragments

MCPayloads == {<<>>, <<5>>, Octets(6), Octets(ETHERNET_MAX_SIZE + 1)}

MCOptions == {<<>>, <<148, 4, 0, 0>>, <<3, 3, 7>>}

MCTLVs == {TLV(4, <<1>>), TLV(5, <<1, 2, 3, 4, 5>>)}

MCTagged ==
  {[vlanID |-> 5, priorityCode |-> 3],
   [vlanID |-> 5, qinqVID |-> 7, qInQPriorityCode |-> 1, qinqTPID |-> \h8100],
   [vlanID |-> 5, qinqVID |-> 7, qinqTPID |-> \h88a8]}

MCDps == {<<0, 0, 0, 0, 0, 0, 0, n>> : n \in 1..2}

MCDpPorts == {<<0, 0, 0, n>> : n \in 1..1}

MCCosts == {<<0, 0, 0, 10>>}
=============================================================================
