----------------------------- MODULE VNetConfig -----------------------------
(***************************************************************************)
(* What the process reads at start: the configuration                      *)
(* (src/src/main/CDIPCVNetConfig.cpp), the lists of peers                  *)
(* (src/src/utils/CWhiteList.cpp, CBlackList.cpp) and the names of modes   *)
(* and policies.  Pure operators; an address is only valid or not, and     *)
(* names, passwords and the log are left out.                              *)
(***************************************************************************)
EXTENDS Integers, Sequences, SequencesExt

CONSTANT JNO_MAX     \* peers the configuration has room for

Modes == {"ppp", "mppp", "vswitch", "vos"}

StringToVNet(name) == IF name \in Modes THEN name ELSE "unknown"

Policies == {"clone", "loadbalance", "aggregation", "adpater", "auto", "none"}

StringToVNetPolicy(name) == IF name \in Policies THEN name ELSE "unknown"

-----------------------------------------------------------------------------
(***************************************************************************)
(* serverip and the data channel's ip must be an address and a port;       *)
(* otherwise the process exits.                                            *)
(***************************************************************************)
EndpointValid(e) == e.colon /\ e.ip /\ e.port \in 1..65535

(***************************************************************************)
(* The addresses, masks and gateways of ppp, mppp, vswitch and of the two  *)
(* sides of vos: one that is not an address gives way to its default.      *)
(***************************************************************************)
Sections == {"ppp", "mppp", "vswitch", "vostap", "ostap"}

Params == {"netaddr", "netmask", "gateway"}

WithDefaults(address) ==
  [x \in Sections \X Params |->
     IF address[x] = "invalid" THEN "default" ELSE address[x]]

(***************************************************************************)
(* The job numbers of peerjno, as atoi reads them: zero is none, one that  *)
(* is kept already is not kept again, and there is room for JNO_MAX.       *)
(***************************************************************************)
KeepJno(kept, jno) ==
  IF jno = 0 \/ Len(kept) = JNO_MAX \/ Contains(kept, jno)
  THEN kept ELSE Append(kept, jno)

PeerJno(entries) == FoldLeft(KeepJno, <<>>, entries)

ExitsOn(raw) ==
  ~EndpointValid(raw.serverip) \/ ~EndpointValid(raw.datachannel)

readconfig(raw) ==
  [raw EXCEPT !.address = WithDefaults(raw.address),
              !.peerjno = PeerJno(raw.peerjno)]

-----------------------------------------------------------------------------
(***************************************************************************)
(* AddList: a number that is in the list is not added again.               *)
(***************************************************************************)
AddList(list, unit) == IF Contains(list, unit) THEN list ELSE Append(list, unit)

(***************************************************************************)
(* Mutations of ReadEntry: the number is not cut; an entry of another type *)
(* is passed over.                                                         *)
(***************************************************************************)
ReadEntryWhole(read, entry) ==
  IF read.failed \/ entry.jno = "absent" THEN read
  ELSE IF entry.jno = "other" THEN [read EXCEPT !.failed = TRUE]
  ELSE IF entry.value = 0 THEN read
  ELSE [read EXCEPT !.list = AddList(@, entry.value)]

ReadEntryOn(read, entry) ==
  IF entry.jno # "number" \/ entry.value = 0 THEN read
  ELSE [read EXCEPT !.list = AddList(@, entry.value % 65536)]

(***************************************************************************)
(* An entry is an object whose "jno" is a number, absent, or of another    *)
(* type: the last ends the reading, and what was read so far stays.  The   *)
(* number is cut to 16 bits.                                               *)
(***************************************************************************)
ReadEntry(read, entry) ==
  IF read.failed \/ entry.jno = "absent" THEN read
  ELSE IF entry.jno = "other" THEN [read EXCEPT !.failed = TRUE]
  ELSE IF entry.value = 0 THEN read
  ELSE [read EXCEPT !.list = AddList(@, entry.value % 65536)]

(***************************************************************************)
(* The numbers a list can hold; what can be in its file, and what has been *)
(* read of it.                                                             *)
(***************************************************************************)
Uint16 == {n \in Nat : n < 65536}

Entries == [jno: {"number", "absent", "other"}, value: Int]

Files == [array: BOOLEAN, entries: Seq(Entries)]

Readings == [list: Seq(Uint16), failed: BOOLEAN]

(***************************************************************************)
(* Init of a list: what is read of its first n entries, for each n.  A     *)
(* file that is missing, cannot be parsed or holds no array leaves the     *)
(* list empty.                                                             *)
(***************************************************************************)
ReadUpTo(entries) ==
  LET read[n \in 0..Len(entries)] ==
        IF n = 0 THEN [list |-> <<>>, failed |-> FALSE]
        ELSE ReadEntry(read[n - 1], entries[n])
  IN  read

ListInit(file) ==
  IF file.array THEN ReadUpTo(file.entries)[Len(file.entries)].list ELSE <<>>

WhiteInit(config) == ListInit(config.whitelist)

BlackInit(config) == ListInit(config.blacklist)

(***************************************************************************)
(* Veryfy of the white list, which must name the peer, and of the black    *)
(* list, which must not.                                                   *)
(***************************************************************************)
WhiteVeryfy(list, jno) == IF list # <<>> /\ Contains(list, jno)
                          THEN "VNET_WL_FIND_OK" ELSE "VNET_WL_FIND_FAILURE"

BlackVeryfy(list, jno) ==
  IF list = <<>> THEN "VNET_IGNORE"
  ELSE IF Contains(list, jno) THEN "VNET_BL_FIND_OK" ELSE "VNET_BL_FIND_FAILURE"
=============================================================================
