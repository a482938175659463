-------------------------------- MODULE Wire --------------------------------
(***************************************************************************)
(* How packets are put into bytes and into JSON                            *)
(* (src/src/packet/IPacketParser.cpp, and the byte stream of the base      *)
(* library, which is outside the repository).  A packet is a record of its *)
(* fields; a layout lists, in the order of the stream, the fields and      *)
(* their widths.  A field of one or two bytes is a number, a wider one the *)
(* sequence of its bytes, most significant first.                          *)
(***************************************************************************)
EXTENDS Integers, Sequences, SequencesExt

Byte == {n \in Nat : n < 256}

Short == {n \in Nat : n < 65536}

Bytes(value, width) ==
  IF width = 1 THEN <<value % 256>>
  ELSE IF width = 2 THEN <<(value \div 256) % 256, value % 256>> ELSE value

Word(b, at) == 256 * b[at] + b[at + 1]

ValueAt(b, width) ==
  IF width = 1 THEN b[1] ELSE IF width = 2 THEN Word(b, 1) ELSE SubSeq(b, 1, width)

Names(layout) == {layout[i][1] : i \in DOMAIN layout}

Field(layout, name) == CHOOSE field \in ToSet(layout) : field[1] = name

SumOf(numbers) == FoldLeft(LAMBDA sum, n : sum + n, 0, numbers)

Width(layout) == SumOf([i \in DOMAIN layout |-> layout[i][2]])

Zeros(n) == [i \in 1..n |-> 0]

(***************************************************************************)
(* f, with the rest of g where f says nothing: f @@ g of TLC, written so   *)
(* that the provers can expand it.                                         *)
(***************************************************************************)
Joined(f, g) ==
  [x \in DOMAIN f \cup DOMAIN g |-> IF x \in DOMAIN f THEN f[x] ELSE g[x]]

(***************************************************************************)
(* The fields of a new packet.                                             *)
(***************************************************************************)
Cleared(layout) ==
  [name \in Names(layout) |->
     LET width == Field(layout, name)[2] IN IF width <= 2 THEN 0 ELSE Zeros(width)]

-----------------------------------------------------------------------------
(***************************************************************************)
(* A stream that is read: the packet so far, the bytes that are left, and  *)
(* whether all was there.  What is not there leaves its field alone.       *)
(***************************************************************************)
Reading(packet, bytes) == [p |-> packet, rest |-> bytes, good |-> TRUE]

With(r, packet) == [p |-> packet, rest |-> r.rest, good |-> r.good]

Failed(r) == [p |-> r.p, rest |-> r.rest, good |-> FALSE]

(***************************************************************************)
(* A field takes its value from the head of the stream.                    *)
(***************************************************************************)
Taken(r, name, value, size) ==
  [p |-> [r.p EXCEPT ![name] = value],
   rest |-> SubSeq(r.rest, size + 1, Len(r.rest)), good |-> r.good]

ReadField(r, field) ==
  IF ~r.good \/ Len(r.rest) < field[2] THEN Failed(r)
  ELSE Taken(r, field[1], ValueAt(r.rest, field[2]), field[2])

ReadFields(r, layout) == FoldLeft(ReadField, r, layout)

(***************************************************************************)
(* Read of so many bytes into a field.                                     *)
(***************************************************************************)
ReadBytes(r, name, size) ==
  IF ~r.good \/ Len(r.rest) < size THEN Failed(r)
  ELSE Taken(r, name, SubSeq(r.rest, 1, size), size)

WriteFields(packet, layout) ==
  FlattenSeq([i \in DOMAIN layout |-> Bytes(packet[layout[i][1]], layout[i][2])])

(***************************************************************************)
(* The sum of the 16-bit words of bytes, the last of which may be missing. *)
(***************************************************************************)
SumOfWords(b) ==
  SumOf([k \in 1..((Len(b) + 1) \div 2) |->
           IF 2 * k - 1 = Len(b) THEN 256 * b[2 * k - 1] ELSE Word(b, 2 * k - 1)])

Complement(sum) == 65535 - (sum % 65536)

FoldedOnce(sum) == (sum \div 65536) + (sum % 65536)

Swapped(word) == 256 * (word % 256) + (word \div 256)

-----------------------------------------------------------------------------
(***************************************************************************)
(* JSON: every value is written as a string; Null is the absent value, and *)
(* one of another type is not read.                                        *)
(***************************************************************************)
String(value) == [type |-> "string", value |-> value]

NullValue == [type |-> "null", value |-> 0]

(***************************************************************************)
(* ValueToJson of each width, IPv4ToJson and MacAddressToJson: the text of *)
(* a value, which reading turns back.                                      *)
(***************************************************************************)
ValueToJson(value) == String(value)

MacAddressToJson(mac) == String(mac)

IPv4ToJson(address) == String(address)

(***************************************************************************)
(* Mutation of ValueFromJson: numbers of two bytes are cut to one.         *)
(***************************************************************************)
ValueFromJsonByte(json, old, width) ==
  IF json.type # "string" THEN old
  ELSE IF width <= 2 THEN json.value % 256 ELSE json.value

(***************************************************************************)
(* ValueFromJson of numbers: read as 32 bits and cut to the field's width. *)
(***************************************************************************)
ValueFromJson(json, old, width) ==
  IF json.type # "string" THEN old
  ELSE IF width <= 2 THEN json.value % (IF width = 1 THEN 256 ELSE 65536)
  ELSE json.value

MacAddressFromJson(json, old) == IF json.type = "string" THEN json.value ELSE old

IPv4FromJson(json, old) == IF json.type = "string" THEN json.value ELSE old

(***************************************************************************)
(* How a field is written and read is told by its kind.                    *)
(***************************************************************************)
FieldToJson(value, kind) ==
  CASE kind = "mac" -> MacAddressToJson(value)
    [] kind = "ipv4" -> IPv4ToJson(value)
    [] OTHER -> ValueToJson(value)

FieldFromJson(json, old, field) ==
  CASE field[3] = "mac" -> MacAddressFromJson(json, old)
    [] field[3] = "ipv4" -> IPv4FromJson(json, old)
    [] OTHER -> ValueFromJson(json, old, field[2])

(***************************************************************************)
(* An object of JSON for the fields <<name, width, kind>> of a packet, and *)
(* the packet with the fields that such an object has.                     *)
(***************************************************************************)
ObjectOf(packet, fields) ==
  [name \in Names(fields) |-> FieldToJson(packet[name], Field(fields, name)[3])]

Assigned(packet, json, fields) ==
  [name \in DOMAIN packet |->
     IF name \in Names(fields) \cap DOMAIN json
     THEN FieldFromJson(json[name], packet[name], Field(fields, name)) ELSE packet[name]]
=============================================================================
