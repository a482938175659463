----------------------------- MODULE Discovery -----------------------------
(***************************************************************************)
(* The packet that finds a path (src/src/packet/DiscoveryPacket.cpp): it   *)
(* collects the links it went along, each from the port a datapath sent it *)
(* out of to the port the next one took it in at.                          *)
(***************************************************************************)
EXTENDS Wire

DiscoveryHead ==
  << <<"length", 2>>, <<"linklength", 2>>, <<"xid", 4>>, <<"from", 8>>, <<"to", 8>> >>

ConnectPoint == << <<"dpit", 8>>, <<"port", 4>>, <<"pad", 4>> >>

LinkSize == 2 * Width(ConnectPoint)

NewDiscovery == Joined(Cleared(DiscoveryHead), [class |-> "Discovery", m_links |-> <<>>])

NewPoint == Cleared(ConnectPoint)

(***************************************************************************)
(* The link a datapath sends the packet out on; the cost is in its pad.    *)
(***************************************************************************)
OpenLink(port, dpid, cost) ==
  [src |-> [dpit |-> dpid, port |-> port, pad |-> cost], dst |-> NewPoint]

(***************************************************************************)
(* Mutation of AddNewLink: a new link starts anywhere.                     *)
(***************************************************************************)
AddNewLinkAnywhere(p, port, dpid, cost) ==
  [p EXCEPT !.m_links = Append(@, OpenLink(port, dpid, cost))]

(***************************************************************************)
(* A new link starts where the last one ends; another is refused.          *)
(***************************************************************************)
Continues(p, dpid) == p.m_links = <<>> \/ Last(p.m_links).dst.dpit = dpid

AddNewLink(p, port, dpid, cost) ==
  IF Continues(p, dpid) THEN [p EXCEPT !.m_links = Append(@, OpenLink(port, dpid, cost))] ELSE p

(***************************************************************************)
(* The datapath at the other end says where the last link ends.            *)
(***************************************************************************)
ModifyLastDpPort(p, port, dp) ==
  IF p.m_links = <<>> THEN p
  ELSE LET last == Len(p.m_links)
           end == [dpit |-> dp, port |-> port, pad |-> p.m_links[last].dst.pad]
       IN  [p EXCEPT !.m_links[last] = [src |-> @.src, dst |-> end]]

IsHaveTheDP(p, dpid) ==
  \E i \in DOMAIN p.m_links : dpid \in {p.m_links[i].src.dpit, p.m_links[i].dst.dpit}

DpIsEnd(p, dpid) == p.to = dpid

(***************************************************************************)
(* The links from the first that leaves the datapath.                      *)
(***************************************************************************)
GetLoopList(p, dpid) ==
  LET leaves == {i \in DOMAIN p.m_links : p.m_links[i].src.dpit = dpid}
  IN  IF leaves = {} THEN <<>>
      ELSE SubSeq(p.m_links, CHOOSE i \in leaves : \A j \in leaves : i <= j, Len(p.m_links))

AssignDiscovery(p) ==
  [NewDiscovery EXCEPT !.length = p.length, !.linklength = p.linklength, !.xid = p.xid,
                       !.from = p.from, !.to = p.to, !.m_links = p.m_links]

DiscoveryLen(p) == Width(DiscoveryHead) + LinkSize * Len(p.m_links)

LinkOf(b) ==
  LET src == ReadFields(Reading(NewPoint, b), ConnectPoint)
  IN  [src |-> src.p, dst |-> ReadFields(Reading(NewPoint, src.rest), ConnectPoint).p]

(***************************************************************************)
(* As many links as the head says, if it speaks of whole ones and they are *)
(* all there.                                                              *)
(***************************************************************************)
DiscoveryStreamFrom(r0) ==
  LET r == ReadFields(r0, DiscoveryHead)
      links == r.p.linklength \div LinkSize
      read == [i \in 1..links |-> LinkOf(SubSeq(r.rest, LinkSize * (i - 1) + 1, LinkSize * i))]
  IN  IF ~r.good \/ r.p.linklength % LinkSize # 0 \/ Len(r.rest) < r.p.linklength THEN Failed(r)
      ELSE Taken(r, "m_links", r.p.m_links \o read, r.p.linklength)

DiscoveryPrepared(p) ==
  [p EXCEPT !.length = DiscoveryLen(p), !.linklength = LinkSize * Len(p.m_links)]

DiscoveryStreamTo(p) ==
  WriteFields(p, DiscoveryHead)
    \o FlattenSeq([i \in DOMAIN p.m_links |->
                     WriteFields(p.m_links[i].src, ConnectPoint)
                       \o WriteFields(p.m_links[i].dst, ConnectPoint)])

-----------------------------------------------------------------------------
(***************************************************************************)
(* JSON: the costs are left out, and not initialised where it is read.     *)
(***************************************************************************)
PointJson == << <<"dpit", 8, "number">>, <<"port", 4, "number">> >>

DiscoveryJson ==
  << <<"xid", 4, "number">>, <<"from", 8, "number">>, <<"to", 8, "number">>,
     <<"linklength", 2, "number">> >>

PathsOf(p) ==
  [i \in DOMAIN p.m_links |->
     [src |-> ObjectOf(p.m_links[i].src, PointJson), dst |-> ObjectOf(p.m_links[i].dst, PointJson)]]

UnsetPoint == [NewPoint EXCEPT !.pad = <<-1>>]

LinksFromJson(paths) ==
  [i \in DOMAIN paths |-> [src |-> Assigned(UnsetPoint, paths[i].src, PointJson),
                           dst |-> Assigned(UnsetPoint, paths[i].dst, PointJson)]]

(***************************************************************************)
(* The links are added to those the packet has; the length of the links is *)
(* counted, and then read.                                                 *)
(***************************************************************************)
DiscoveryFromJson(p, json) ==
  LET links == p.m_links \o LinksFromJson(json.paths)
  IN  Assigned([p EXCEPT !.m_links = links, !.linklength = LinkSize * Len(links)],
               json.top, DiscoveryJson)
=============================================================================
