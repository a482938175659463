----------------------------- MODULE MCSessions -----------------------------
(***************************************************************************)
(* Instances of Sessions: a1 and a2 are two addresses of one peer, b1 is   *)
(* another; c1 is on neither list.  The white list's file has an entry cut *)
(* to 16 bits and entries behind one that cannot be read.                  *)
(***************************************************************************)
EXTENDS Sessions, TLC

CONSTANTS a1, a2, b1, c1

Symmetry == Permutations(Cells) \cup Permutations(Macs)

MCPeers == {a1, a2, b1, c1}

MCKeyOf == [p \in MCPeers |-> CASE p \in {a1, a2} -> "a" [] p = b1 -> "b" [] OTHER -> "c"]

MCJnoOf == [k \in {"a", "b", "c"} |-> CASE k = "a" -> 10 [] k = "b" -> 20 [] OTHER -> 30]

Number(n) == [jno |-> "number", value |-> n]
Other == [jno |-> "other", value |-> 0]
Absent == [jno |-> "absent", value |-> 0]
File(entries) == [array |-> TRUE, entries |-> entries]
NoFile == [array |-> FALSE, entries |-> <<>>]

Good == [colon |-> TRUE, ip |-> TRUE, port |-> 8089]

Given == [x \in Sections \X Params |-> "given"]

Config(m, whitelist, blacklist) ==
  [mode |-> m, serverip |-> Good, datachannel |-> Good, address |-> Given,
   peerjno |-> <<10, 0, 10, 20>>, whitelist |-> whitelist, blacklist |-> blacklist]

Usual(m) ==
  Config(m, File(<<Number(10), Absent, Number(65536 + 20), Number(30)>>), File(<<Number(30)>>))

MCRawConfigs ==
  {Usual(m) : m \in Modes}
    \cup {Config("mppp", File(<<Number(10), Other, Number(20)>>), NoFile),
          Config("ppp", File(<<Number(20)>>), File(<<Other, Number(20)>>)),
          Config("vos", NoFile, NoFile), Usual("lan")}
    \cup {[Usual("vswitch") EXCEPT !.serverip.port = 0],
          [Usual("mppp") EXCEPT !.datachannel.ip = FALSE],
          [Usual("vswitch") EXCEPT !.address[<<"vswitch", "netaddr">>] = "invalid"]}

ProbeConfigs == {Usual("vswitch")}

MCIncoming ==
  {[PingRequest([lastseq |-> 1, measured |-> FALSE]) EXCEPT !.type = t, !.xid = x] :
      t \in DIPC_VNET_KEEPALIVE_REQUEST..DIPC_VNET_DATA_KEEPALIVE_RESPONSE, x \in 0..1}
    \cup {[type |-> 5, length |-> 0, xid |-> 0, datasize |-> 0, data |-> NoData, bytes |-> 60]}
=============================================================================
