--------------------------- MODULE PacketsProofs ----------------------------
(***************************************************************************)
(* Proofs about EtherPackets and IPPackets, class by class, for all values *)
(* of the fields: a packet has the fields of its class with values of      *)
(* their types, whatever bytes it was read from and whatever was set, and  *)
(* StreamTo writes the bytes that GetEncodeSpace counts.                   *)
(***************************************************************************)
EXTENDS IPPackets, DiscoveryProofs

(***************************************************************************)
(* The values of a field of this many bytes, as a set.                     *)
(***************************************************************************)
Values(width) == IF width = 1 THEN Byte ELSE IF width = 2 THEN Short ELSE [1..width -> Byte]

(***************************************************************************)
(* They are the values that fit the field.                                 *)
(***************************************************************************)
LEMMA ValuesFit == \A v, w : v \in Values(w) <=> Fits(v, w)
<1> SUFFICES ASSUME NEW v, NEW w PROVE v \in Values(w) <=> Fits(v, w)
  OBVIOUS
<1>1. CASE w = 1
  BY <1>1 DEF Values, Fits
<1>2. CASE w = 2
  BY <1>2 DEF Values, Fits
<1>3. CASE w # 1 /\ w # 2
  BY <1>3 DEF Values, Fits
<1>4. QED
  BY <1>1, <1>2, <1>3

(***************************************************************************)
(* p is a packet whose fields are those of T, each with one of the values  *)
(* that T gives it.                                                        *)
(***************************************************************************)
Of(p, T) == Function(p, DOMAIN T) /\ \A x \in DOMAIN T : p[x] \in T[x]

(***************************************************************************)
(* Such a packet stays one when a field gets another of its values.        *)
(***************************************************************************)
LEMMA OfPut ==
  ASSUME NEW p, NEW T, Of(p, T), NEW x \in DOMAIN T, NEW v \in T[x]
  PROVE  Of(Put(p, x, v), T)
BY Updated DEF Of

(***************************************************************************)
(* The fields of such a packet.                                            *)
(***************************************************************************)
LEMMA OfDomain ==
  ASSUME NEW p, NEW T, Of(p, T)
  PROVE  DOMAIN p = DOMAIN T
BY FunctionDomain DEF Of

(***************************************************************************)
(* T gives the fields of S the values that S gives them, and may have more *)
(* fields.                                                                 *)
(***************************************************************************)
Extends(T, S) == DOMAIN S \subseteq DOMAIN T /\ \A x \in DOMAIN S : T[x] = S[x]

(***************************************************************************)
(* What extends an extension extends what that extends.                    *)
(***************************************************************************)
LEMMA ExtendsSteps ==
  ASSUME NEW T, NEW S, NEW U, Extends(T, S), Extends(S, U)
  PROVE  Extends(T, U)
BY DEF Extends

(***************************************************************************)
(* Joined(f, g) is f where f is defined, and g elsewhere.                  *)
(***************************************************************************)
LEMMA JoinedIs ==
  ASSUME NEW f, NEW g
  PROVE  /\ DOMAIN Joined(f, g) = DOMAIN f \cup DOMAIN g
         /\ Function(Joined(f, g), DOMAIN f \cup DOMAIN g)
         /\ \A x \in DOMAIN f : Joined(f, g)[x] = f[x]
         /\ \A x \in DOMAIN g \ DOMAIN f : Joined(f, g)[x] = g[x]
<1> DEFINE h == Joined(f, g)
           D == DOMAIN f \cup DOMAIN g
<1>1. h = [x \in D |-> IF x \in DOMAIN f THEN f[x] ELSE g[x]]
  BY Zenon DEF Joined
<1> HIDE DEF h
<1>2. /\ DOMAIN h = D /\ Function(h, D)
      /\ \A x \in DOMAIN f : h[x] = f[x]
      /\ \A x \in DOMAIN g \ DOMAIN f : h[x] = g[x]
  BY <1>1, Zenon DEF Function
<1>3. QED
  BY <1>2, Zenon DEF h

(***************************************************************************)
(* It extends f, and g too where they share no field.                      *)
(***************************************************************************)
LEMMA JoinedExtends ==
  ASSUME NEW S, NEW U
  PROVE  /\ Extends(Joined(S, U), S)
         /\ DOMAIN S \cap DOMAIN U = {} => Extends(Joined(S, U), U)
<1> DEFINE T == Joined(S, U)
<1>1. /\ DOMAIN T = DOMAIN S \cup DOMAIN U
      /\ (\A x \in DOMAIN S : T[x] = S[x]) /\ (\A x \in DOMAIN U \ DOMAIN S : T[x] = U[x])
  BY JoinedIs
<1> HIDE DEF T
<1>2. Extends(T, S)
  BY <1>1 DEF Extends
<1>3. DOMAIN S \cap DOMAIN U = {} => Extends(T, U)
  BY <1>1 DEF Extends
<1>4. QED
  BY <1>2, <1>3 DEF T

(***************************************************************************)
(* Two packets joined have the fields of both.                             *)
(***************************************************************************)
LEMMA OfJoined ==
  ASSUME NEW p, NEW q, NEW S, NEW U, Of(p, S), Of(q, U)
  PROVE  Of(Joined(p, q), Joined(S, U))
<1>1. DOMAIN p = DOMAIN S /\ DOMAIN q = DOMAIN U
  BY OfDomain
<1> DEFINE h == Joined(p, q)
           T == Joined(S, U)
<1>2. /\ DOMAIN h = DOMAIN p \cup DOMAIN q /\ Function(h, DOMAIN p \cup DOMAIN q)
      /\ (\A x \in DOMAIN p : h[x] = p[x]) /\ (\A x \in DOMAIN q \ DOMAIN p : h[x] = q[x])
  BY JoinedIs
<1>3. /\ DOMAIN T = DOMAIN S \cup DOMAIN U
      /\ (\A x \in DOMAIN S : T[x] = S[x]) /\ (\A x \in DOMAIN U \ DOMAIN S : T[x] = U[x])
  BY JoinedIs
<1>4. (\A x \in DOMAIN S : p[x] \in S[x]) /\ (\A x \in DOMAIN U : q[x] \in U[x])
  BY DEF Of
<1> HIDE DEF h, T
<1>5. Function(h, DOMAIN T)
  BY <1>1, <1>2, <1>3
<1>6. ASSUME NEW x \in DOMAIN T PROVE h[x] \in T[x]
  BY <1>1, <1>2, <1>3, <1>4
<1>7. Of(h, T)
  BY <1>5, <1>6 DEF Of
<1>8. QED
  BY <1>7 DEF h, T

(***************************************************************************)
(* The values of the fields of a layout.                                   *)
(***************************************************************************)
LayoutTypes(L) == [name \in Names(L) |-> Values(Field(L, name)[2])]

(***************************************************************************)
(* They are those of the width that the layout gives each field.           *)
(***************************************************************************)
LEMMA TypesOfLayout ==
  ASSUME NEW D, NEW L, NEW n, LayoutOf(L, n, D)
  PROVE  /\ DOMAIN LayoutTypes(L) = Names(L)
         /\ \A i \in 1..n : L[i][1] \in Names(L) /\ LayoutTypes(L)[L[i][1]] = Values(L[i][2])
<1>1. DOMAIN LayoutTypes(L) = Names(L)
  BY DEF LayoutTypes
<1>2. ASSUME NEW i \in 1..n PROVE L[i][1] \in Names(L) /\ LayoutTypes(L)[L[i][1]] = Values(L[i][2])
  <2>1. L[i][1] \in Names(L)
    BY NamesOf
  <2>2. Field(L, L[i][1]) = L[i]
    BY FieldOfName
  <2>3. LayoutTypes(L)[L[i][1]] = Values(Field(L, L[i][1])[2])
    BY <2>1, Zenon DEF LayoutTypes
  <2>4. QED
    BY <2>1, <2>2, <2>3
<1>3. QED
  BY <1>1, <1>2

(***************************************************************************)
(* A cleared packet has the fields of its layout, with values of them.     *)
(***************************************************************************)
LEMMA ClearedOf ==
  ASSUME NEW D, NEW L, NEW n, LayoutOf(L, n, D)
  PROVE  Of(Cleared(L), LayoutTypes(L))
<1> DEFINE p == Cleared(L)
<1>1. Function(p, Names(L)) /\ Filled(p, L, n)
  BY ClearedFits
<1> HIDE DEF p
<1>2. DOMAIN LayoutTypes(L) = Names(L)
  BY TypesOfLayout
<1>3. ASSUME NEW x \in Names(L) PROVE p[x] \in LayoutTypes(L)[x]
  <2>1. PICK i \in 1..n : x = L[i][1]
    BY NamesOf
  <2>2. p[L[i][1]] \in Values(L[i][2])
    BY <1>1, ValuesFit DEF Filled
  <2>3. QED
    BY <2>1, <2>2, TypesOfLayout
<1>4. Of(p, LayoutTypes(L))
  BY <1>1, <1>2, <1>3 DEF Of
<1>5. QED
  BY <1>4 DEF p

(***************************************************************************)
(* A packet with the fields of a layout has it filled, and can be written  *)
(* by it.                                                                  *)
(***************************************************************************)
LEMMA LayoutFilled ==
  ASSUME NEW D, NEW L, NEW n, LayoutOf(L, n, D), NEW p, NEW T, Of(p, T), Extends(T, LayoutTypes(L))
  PROVE  Filled(p, L, n) /\ Writable(p, L, n)
<1>1. ASSUME NEW i \in 1..n PROVE Fits(p[L[i][1]], L[i][2])
  <2>1. /\ L[i][1] \in Names(L) /\ LayoutTypes(L)[L[i][1]] = Values(L[i][2])
        /\ DOMAIN LayoutTypes(L) = Names(L)
    BY TypesOfLayout
  <2>2. L[i][1] \in DOMAIN T /\ T[L[i][1]] = Values(L[i][2])
    BY <2>1 DEF Extends
  <2>3. QED
    BY <2>2, ValuesFit DEF Of
<1>2. Filled(p, L, n)
  BY <1>1 DEF Filled
<1>3. QED
  BY <1>2, FilledWritable

-----------------------------------------------------------------------------

(***************************************************************************)
(* r is a stream from which a packet with the fields T is read.            *)
(***************************************************************************)
Reads(r, T) ==
  /\ r = [p |-> r.p, rest |-> r.rest, good |-> r.good]
  /\ Of(r.p, T) /\ r.rest \in Seq(Byte) /\ r.good \in BOOLEAN

(***************************************************************************)
(* It is a stream of Wire.                                                 *)
(***************************************************************************)
LEMMA ReadsStream ==
  ASSUME NEW r, NEW T, Reads(r, T)
  PROVE  Stream(r, DOMAIN T) /\ Of(r.p, T)
BY DEF Reads, Stream, Of

(***************************************************************************)
(* A stream of Wire is one where its packet has the values of T.           *)
(***************************************************************************)
LEMMA StreamReads ==
  ASSUME NEW r, NEW T, Stream(r, DOMAIN T), \A x \in DOMAIN T : r.p[x] \in T[x]
  PROVE  Reads(r, T)
BY DEF Reads, Stream, Of

(***************************************************************************)
(* Reading a layout leaves it one, changes no other field, and never makes *)
(* a failed stream good.                                                   *)
(***************************************************************************)
LEMMA FieldsReadOf ==
  ASSUME NEW T, NEW r, Reads(r, T), NEW D, NEW L,
           NEW n, LayoutOf(L, n, D), Extends(T, LayoutTypes(L))
  PROVE  /\ Reads(ReadFields(r, L), T)
         /\ \A x \in DOMAIN T \ Names(L) : ReadFields(r, L).p[x] = r.p[x]
         /\ ReadFields(r, L).good => r.good
<1> DEFINE s == ReadFields(r, L)
           E == DOMAIN T
<1>1. Stream(r, E) /\ Of(r.p, T)
  BY ReadsStream
<1>2. Names(L) = {L[i][1] : i \in 1..n} /\ Names(L) \subseteq E
  BY NamesOf, TypesOfLayout DEF Extends
<1>3. LayoutOf(L, n, E)
  BY <1>2 DEF LayoutOf
<1>4. SoFar(r, s, L, n, E)
  BY <1>1, <1>3, ReadFieldsSound
<1> HIDE DEF s
<1>5. /\ Stream(s, E) /\ (s.good => r.good)
      /\ \A i \in 1..n : s.p[L[i][1]] = r.p[L[i][1]] \/ Fits(s.p[L[i][1]], L[i][2])
  BY <1>4 DEF SoFar
<1>6. ASSUME NEW x \in E \ Names(L) PROVE s.p[x] = r.p[x]
  BY <1>2, <1>4, <1>6 DEF SoFar
<1>7. ASSUME NEW x \in E PROVE s.p[x] \in T[x]
  <2>1. CASE x \notin Names(L)
    BY <1>1, <1>6, <2>1 DEF Of
  <2>2. CASE x \in Names(L)
    <3>1. PICK i \in 1..n : x = L[i][1]
      BY <1>2, <2>2
    <3>2. T[x] = Values(L[i][2])
      BY <2>2, <3>1, TypesOfLayout DEF Extends
    <3>3. QED
      BY <1>1, <1>5, <3>1, <3>2, ValuesFit DEF Of
  <2>3. QED
    BY <2>1, <2>2
<1>8. Reads(s, T)
  BY <1>5, <1>7, StreamReads
<1>9. QED
  BY <1>5, <1>6, <1>8 DEF s

(***************************************************************************)
(* So does reading a run of bytes, of which as many are read as were asked *)
(* for.                                                                    *)
(***************************************************************************)
LEMMA BytesReadOf ==
  ASSUME NEW T, NEW r, Reads(r, T), NEW name \in DOMAIN T, NEW size \in Nat,
         \A b \in Seq(Byte) : Len(b) = size => b \in T[name]
  PROVE  /\ Reads(ReadBytes(r, name, size), T)
         /\ \A x \in DOMAIN T \ {name} : ReadBytes(r, name, size).p[x] = r.p[x]
         /\ ReadBytes(r, name, size).good =>
              /\ r.good /\ ReadBytes(r, name, size).p[name] \in Seq(Byte)
              /\ Len(ReadBytes(r, name, size).p[name]) = size
<1> DEFINE s == ReadBytes(r, name, size)
           E == DOMAIN T
<1>1. Stream(r, E) /\ Of(r.p, T)
  BY ReadsStream
<1>2. /\ Stream(s, E) /\ \A x \in E \ {name} : s.p[x] = r.p[x]
      /\ s.good => r.good /\ s.p[name] \in Seq(Byte) /\ Len(s.p[name]) = size
      /\ ~s.good => s.p = r.p
  BY <1>1, ReadBytesSound
<1> HIDE DEF s
<1>3. s.p[name] \in T[name]
  <2>1. CASE s.good
    BY <1>2, <2>1
  <2>2. CASE ~s.good
    BY <1>1, <1>2, <2>2 DEF Of
  <2>3. QED
    BY <2>1, <2>2
<1>4. \A x \in E : s.p[x] \in T[x]
  BY <1>1, <1>2, <1>3 DEF Of
<1>5. Reads(s, T)
  BY <1>2, <1>4, StreamReads
<1>6. QED
  BY <1>2, <1>5 DEF s

(***************************************************************************)
(* Another packet with the same fields may take the place of the one being *)
(* read.                                                                   *)
(***************************************************************************)
LEMMA WithOf ==
  ASSUME NEW T, NEW r, Reads(r, T), NEW p, Of(p, T)
  PROVE  Reads(With(r, p), T) /\ With(r, p).p = p /\ With(r, p).good = r.good /\
           With(r, p).rest = r.rest
BY DEF Reads, With

(***************************************************************************)
(* A stream that fails stays a stream, with the packet it has.             *)
(***************************************************************************)
LEMMA FailedOf ==
  ASSUME NEW T, NEW r, Reads(r, T)
  PROVE  Reads(Failed(r), T) /\ ~Failed(r).good /\ Failed(r).p = r.p
BY DEF Reads, Failed

(***************************************************************************)
(* A stream starts good, with the packet that is to be read.               *)
(***************************************************************************)
LEMMA ReadingOf ==
  ASSUME NEW T, NEW p, Of(p, T), NEW b \in Seq(Byte)
  PROVE  Reads(Reading(p, b), T) /\ Reading(p, b).p = p /\ Reading(p, b).good
BY DEF Reads, Reading

(***************************************************************************)
(* The fields of a layout are written in as many bytes as the layout is    *)
(* wide.                                                                   *)
(***************************************************************************)
LEMMA FieldsWritten ==
  ASSUME NEW D, NEW L, NEW n, LayoutOf(L, n, D), NEW p, NEW T, Of(p, T), Extends(T, LayoutTypes(L))
  PROVE  WriteFields(p, L) \in Seq(Byte) /\ Len(WriteFields(p, L)) = Width(L)
BY LayoutFilled, WriteFieldsFit

-----------------------------------------------------------------------------
(***************************************************************************)
(* The values of the widths that occur.                                    *)
(***************************************************************************)
LEMMA ValuesOf ==
  /\ Values(1) = Byte /\ Values(2) = Short /\ Values(4) = [1..4 -> Byte]
  /\ Values(6) = [1..6 -> Byte] /\ Values(8) = [1..8 -> Byte]
BY DEF Values

(***************************************************************************)
(* T has the n fields of a layout, each with the values of its width.      *)
(***************************************************************************)
Laid(L, n, T) ==
  LayoutOf(L, n, DOMAIN T) /\ \A i \in 1..n : T[L[i][1]] = Values(L[i][2])

(***************************************************************************)
(* T then extends the fields of the layout.                                *)
(***************************************************************************)
LEMMA LaidExtends ==
  ASSUME NEW L, NEW n, NEW T, Laid(L, n, T)
  PROVE  LayoutOf(L, n, DOMAIN T) /\ Extends(T, LayoutTypes(L))
<1>1. LayoutOf(L, n, DOMAIN T) /\ \A i \in 1..n : T[L[i][1]] = Values(L[i][2])
  BY DEF Laid
<1>2. /\ DOMAIN LayoutTypes(L) = Names(L) /\ Names(L) = {L[i][1] : i \in 1..n}
      /\ \A i \in 1..n : LayoutTypes(L)[L[i][1]] = Values(L[i][2])
  BY <1>1, TypesOfLayout, NamesOf
<1>3. \A i \in 1..n : L[i][1] \in DOMAIN T
  BY <1>1 DEF LayoutOf
<1>4. QED
  BY <1>1, <1>2, <1>3 DEF Extends

(***************************************************************************)
(* What extends the fields of a layout has it laid.                        *)
(***************************************************************************)
LEMMA ExtendsLaid ==
  ASSUME NEW D, NEW L, NEW n, LayoutOf(L, n, D), NEW T, Extends(T, LayoutTypes(L))
  PROVE  Laid(L, n, T)
<1>1. /\ DOMAIN LayoutTypes(L) = Names(L)
      /\ \A i \in 1..n : L[i][1] \in Names(L) /\ LayoutTypes(L)[L[i][1]] = Values(L[i][2])
  BY TypesOfLayout
<1>2. \A i \in 1..n : L[i][1] \in DOMAIN T /\ T[L[i][1]] = Values(L[i][2])
  BY <1>1 DEF Extends
<1>3. LayoutOf(L, n, DOMAIN T)
  BY <1>2 DEF LayoutOf
<1>4. QED
  BY <1>2, <1>3 DEF Laid

(***************************************************************************)
(* s is r after some reading that touched no fields but X and never made a *)
(* failed stream good.                                                     *)
(***************************************************************************)
Moves(r, s, X, T) ==
  Reads(s, T) /\ (s.good => r.good) /\ \A x \in DOMAIN T \ X : s.p[x] = r.p[x]

(***************************************************************************)
(* One reading behind another.                                             *)
(***************************************************************************)
LEMMA MovesOn ==
  ASSUME NEW T, NEW r, NEW s, NEW t, NEW X, NEW Y, Moves(r, s, X, T), Moves(s, t, Y, T)
  PROVE  Moves(r, t, X \cup Y, T)
BY DEF Moves

(***************************************************************************)
(* Reading nothing.                                                        *)
(***************************************************************************)
LEMMA MovesNone ==
  ASSUME NEW T, NEW r, Reads(r, T), NEW X
  PROVE  Moves(r, r, X, T)
BY DEF Moves

(***************************************************************************)
(* A reading that touches X touches no more than what holds X.             *)
(***************************************************************************)
LEMMA MovesFewer ==
  ASSUME NEW T, NEW r, NEW s, NEW X, NEW Y, Moves(r, s, X, T), X \subseteq Y
  PROVE  Moves(r, s, Y, T) /\ Reads(s, T)
BY DEF Moves

(***************************************************************************)
(* Failing is such a reading.                                              *)
(***************************************************************************)
LEMMA FailedMoves ==
  ASSUME NEW T, NEW r, Reads(r, T), NEW X
  PROVE  Moves(r, Failed(r), X, T) /\ ~Failed(r).good
BY FailedOf DEF Moves

(***************************************************************************)
(* So is reading a layout.                                                 *)
(***************************************************************************)
LEMMA LaidRead ==
  ASSUME NEW T, NEW r, Reads(r, T), NEW L, NEW n, Laid(L, n, T), NEW X, Names(L) \subseteq X
  PROVE  Moves(r, ReadFields(r, L), X, T)
<1>1. LayoutOf(L, n, DOMAIN T) /\ Extends(T, LayoutTypes(L))
  BY LaidExtends
<1>2. /\ Reads(ReadFields(r, L), T)
      /\ \A x \in DOMAIN T \ Names(L) : ReadFields(r, L).p[x] = r.p[x]
      /\ ReadFields(r, L).good => r.good
  BY <1>1, FieldsReadOf
<1>3. QED
  BY <1>2 DEF Moves

(***************************************************************************)
(* A layout of T is written in as many bytes as it is wide.                *)
(***************************************************************************)
LEMMA LaidWritten ==
  ASSUME NEW p, NEW T, Of(p, T), NEW L, NEW n, Laid(L, n, T)
  PROVE  WriteFields(p, L) \in Seq(Byte) /\ Len(WriteFields(p, L)) = Width(L)
BY LaidExtends, FieldsWritten

(***************************************************************************)
(* Changing the packet in the fields X is such a reading.                  *)
(***************************************************************************)
LEMMA WithMoves ==
  ASSUME NEW T, NEW r, Reads(r, T), NEW p, Of(p, T), NEW X, \A x \in DOMAIN T \ X : p[x] = r.p[x]
  PROVE  Moves(r, With(r, p), X, T) /\ With(r, p).p = p /\ Reads(With(r, p), T)
BY WithOf DEF Moves

(***************************************************************************)
(* So is reading a run of bytes.                                           *)
(***************************************************************************)
LEMMA BytesMove ==
  ASSUME NEW T, NEW r, Reads(r, T), NEW name \in DOMAIN T, NEW size \in Nat,
         \A b \in Seq(Byte) : Len(b) = size => b \in T[name]
  PROVE  /\ Moves(r, ReadBytes(r, name, size), {name}, T)
         /\ ReadBytes(r, name, size).good =>
              /\ ReadBytes(r, name, size).p[name] \in Seq(Byte)
              /\ Len(ReadBytes(r, name, size).p[name]) = size
BY BytesReadOf DEF Moves

-----------------------------------------------------------------------------
(* Names of layouts *)

(***************************************************************************)
(* T has a field x, and v is one of its values.                            *)
(***************************************************************************)
Room(T, x, v) == x \in DOMAIN T /\ v \in T[x]

(***************************************************************************)
(* Setting a field that has room for the value.                            *)
(***************************************************************************)
LEMMA PutOf ==
  ASSUME NEW p, NEW T, Of(p, T), NEW x, NEW v, Room(T, x, v)
  PROVE  /\ Of(Put(p, x, v), T) /\ Put(p, x, v)[x] = v
         /\ \A y \in DOMAIN T \ {x} : Put(p, x, v)[y] = p[y]
<1>1. x \in DOMAIN T /\ v \in T[x] /\ Function(p, DOMAIN T)
  BY DEF Room, Of
<1>2. QED
  BY <1>1, OfPut, Updated

(***************************************************************************)
(* The same, of the packet in a stream.                                    *)
(***************************************************************************)
LEMMA PutFirst ==
  ASSUME NEW r, NEW T, Of(r.p, T), NEW x, NEW v, Room(T, x, v)
  PROVE  /\ Of(Put(r.p, x, v), T) /\ Put(r.p, x, v)[x] = v
         /\ \A y \in DOMAIN T \ {x} : Put(r.p, x, v)[y] = r.p[y]
<1> DEFINE p == r.p
<1>1. Of(p, T)
  OBVIOUS
<1> HIDE DEF p
<1>2. /\ Of(Put(p, x, v), T) /\ Put(p, x, v)[x] = v
      /\ \A y \in DOMAIN T \ {x} : Put(p, x, v)[y] = p[y]
  BY <1>1, PutOf
<1>3. QED
  BY <1>2 DEF p

(***************************************************************************)
(* A MAC address.                                                          *)
(***************************************************************************)
Mac == [1..6 -> Byte]

(***************************************************************************)
(* The fields of EthernetPacket, with the class of the packet              *)
(* (EthernetPacket.h).                                                     *)
(***************************************************************************)
EtherTypes(class) ==
  [class |-> {class}, dmac |-> Mac, smac |-> Mac, ethtype |-> Short,
   priorityCode |-> Byte, vlanID |-> Short, qInQPriorityCode |-> Byte,
   qinqVID |-> Short, qinqTPID |-> Short, tci |-> Short]

(***************************************************************************)
(* Their names, the class left out.                                        *)
(***************************************************************************)
EtherFields ==
  {"dmac", "smac", "ethtype", "priorityCode", "vlanID", "qInQPriorityCode", "qinqVID",
    "qinqTPID", "tci"}

(***************************************************************************)
(* T has the fields of EthernetPacket.                                     *)
(***************************************************************************)
EtherIn(T) ==
  /\ EtherFields \subseteq DOMAIN T /\ T["dmac"] = Mac /\ T["smac"] = Mac /\ T["ethtype"] = Short
  /\ T["priorityCode"] = Byte /\ T["vlanID"] = Short /\ T["qInQPriorityCode"] = Byte
  /\ T["qinqVID"] = Short /\ T["qinqTPID"] = Short /\ T["tci"] = Short

(***************************************************************************)
(* What extends EtherTypes has them.                                       *)
(***************************************************************************)
LEMMA EtherTypesIn ==
  ASSUME NEW class, NEW T, Extends(T, EtherTypes(class))
  PROVE  EtherIn(T) /\ "class" \in DOMAIN T /\ T["class"] = {class}
<1>1. DOMAIN EtherTypes(class) = EtherFields \cup {"class"}
  BY DEF EtherTypes, EtherFields
<1>2. /\ EtherTypes(class)["class"] = {class} /\ EtherTypes(class)["dmac"] = Mac
      /\ EtherTypes(class)["smac"] = Mac /\ EtherTypes(class)["ethtype"] = Short
      /\ EtherTypes(class)["priorityCode"] = Byte /\ EtherTypes(class)["vlanID"] = Short
      /\ EtherTypes(class)["qInQPriorityCode"] = Byte /\ EtherTypes(class)["qinqVID"] = Short
      /\ EtherTypes(class)["qinqTPID"] = Short /\ EtherTypes(class)["tci"] = Short
  BY DEF EtherTypes
<1>3. QED
  BY <1>1, <1>2 DEF Extends, EtherIn, EtherFields

(***************************************************************************)
(* One tag and the type behind it.                                         *)
(***************************************************************************)
TagLayout == << <<"tci", 2>>, <<"ethtype", 2>> >>

(***************************************************************************)
(* The layouts of the Ethernet header are laid in T.                       *)
(***************************************************************************)
LEMMA EtherLaid ==
  ASSUME NEW T, EtherIn(T)
  PROVE  /\ Laid(EtherHead, 3, T) /\ Names(EtherHead) \subseteq EtherFields
         /\ Laid(TagLayout, 2, T) /\ Names(TagLayout) \subseteq EtherFields
<1>1. DOMAIN EtherHead = 1..3 /\ 1..3 = {1, 2, 3} /\ DOMAIN TagLayout = 1..2 /\ 1..2 = {1, 2}
  BY DEF EtherHead, TagLayout
<1>2. /\ EtherHead[1][1] = "dmac" /\ EtherHead[1][2] = 6
      /\ EtherHead[2][1] = "smac" /\ EtherHead[2][2] = 6
      /\ EtherHead[3][1] = "ethtype" /\ EtherHead[3][2] = 2
  BY DEF EtherHead
<1>3. /\ TagLayout[1][1] = "tci" /\ TagLayout[1][2] = 2
      /\ TagLayout[2][1] = "ethtype" /\ TagLayout[2][2] = 2
  BY DEF TagLayout
<1>4. Laid(EtherHead, 3, T)
  <2>1. LayoutOf(EtherHead, 3, DOMAIN T)
    BY <1>1, <1>2 DEF LayoutOf, EtherIn, EtherFields
  <2>2. \A i \in 1..3 : T[EtherHead[i][1]] = Values(EtherHead[i][2])
    <3>1. T["dmac"] = Values(6) /\ T["smac"] = Values(6) /\ T["ethtype"] = Values(2)
      BY ValuesOf, Zenon DEF EtherIn, Mac
    <3>2. QED
      BY <1>1, <1>2, <3>1
  <2>3. QED
    BY <2>1, <2>2 DEF Laid
<1>5. Laid(TagLayout, 2, T)
  <2>1. LayoutOf(TagLayout, 2, DOMAIN T)
    BY <1>1, <1>3 DEF LayoutOf, EtherIn, EtherFields
  <2>2. \A i \in 1..2 : T[TagLayout[i][1]] = Values(TagLayout[i][2])
    BY <1>1, <1>3, ValuesOf DEF EtherIn
  <2>3. QED
    BY <2>1, <2>2 DEF Laid
<1>6. Names(EtherHead) \subseteq EtherFields /\ Names(TagLayout) \subseteq EtherFields
  BY <1>1, <1>2, <1>3 DEF Names, EtherFields
<1>7. QED
  BY <1>4, <1>5, <1>6

(***************************************************************************)
(* What the constants and the two halves of a TCI are.                     *)
(***************************************************************************)
LEMMA TagValues ==
  /\ NoVlan \in Short /\ OuterTPID \in Short /\ InnerTPID \in Short /\ 0 \in Short /\ 0 \in Byte
  /\ \A tci \in Short : Priority(tci) \in Byte /\ Vlan(tci) \in Short
<1>1. NoVlan \in Short /\ OuterTPID \in Short /\ InnerTPID \in Short /\ 0 \in Short /\ 0 \in Byte
  BY SMT DEF NoVlan, OuterTPID, InnerTPID, Short, Byte
<1>2. ASSUME NEW tci \in Short PROVE Priority(tci) \in Byte /\ Vlan(tci) \in Short
  <2>1. tci \in Int /\ 0 <= tci /\ tci < 65536
    BY SMT DEF Short
  <2>2. tci \div 8192 \in Int /\ 0 <= tci \div 8192 /\ tci \div 8192 < 8
    BY <2>1, SMT
  <2>3. tci % 4096 \in Int /\ 0 <= tci % 4096 /\ tci % 4096 < 4096
    BY <2>1, SMT
  <2>4. QED
    BY <2>2, <2>3, SMT DEF Priority, Vlan, Short, Byte
<1>3. QED
  BY <1>1, <1>2

(***************************************************************************)
(* The fields of the header have room for the values that are put there.   *)
(***************************************************************************)
LEMMA EtherRoom ==
  ASSUME NEW T, EtherIn(T)
  PROVE  /\ \A v \in Mac : Room(T, "dmac", v) /\ Room(T, "smac", v)
         /\ \A v \in Byte : Room(T, "priorityCode", v) /\ Room(T, "qInQPriorityCode", v)
         /\ \A v \in Short : /\ Room(T, "ethtype", v) /\ Room(T, "vlanID", v)
                             /\ Room(T, "qinqVID", v)
                             /\ Room(T, "qinqTPID", v) /\ Room(T, "tci", v)
BY DEF Room, EtherIn, EtherFields

(***************************************************************************)
(* Reading a tag touches no fields but those of EthernetPacket.            *)
(***************************************************************************)
LEMMA TagsMove ==
  ASSUME NEW T, EtherIn(T), NEW r, Reads(r, T)
  PROVE  /\ Moves(r, ReadTag(r), EtherFields, T) /\ Moves(r, AsInner(r), EtherFields, T)
         /\ \A tpid \in Short : Moves(r, AsOuter(r, tpid), EtherFields, T)
<1>1. Of(r.p, T)
  BY DEF Reads
<1>2. EtherFields \subseteq DOMAIN T
  BY DEF EtherIn
<1>3. Moves(r, ReadTag(r), EtherFields, T)
  <2> DEFINE q == Put(r.p, "tci", 0)
             s == With(r, q)
  <2>1. ReadTag(r) = ReadFields(s, TagLayout)
    BY Zenon DEF ReadTag, TagLayout, Put
  <2>2. Of(q, T) /\ \A y \in DOMAIN T \ {"tci"} : q[y] = r.p[y]
    BY <1>1, TagValues, EtherRoom, PutFirst
  <2> HIDE DEF q
  <2>3. Moves(r, s, EtherFields, T) /\ Reads(s, T)
    <3>1. \A y \in DOMAIN T \ EtherFields : q[y] = r.p[y]
      BY <2>2 DEF EtherFields
    <3>2. QED
      BY <2>2, <3>1, WithMoves
  <2> HIDE DEF s
  <2>4. Moves(s, ReadFields(s, TagLayout), EtherFields, T)
    BY <2>3, EtherLaid, LaidRead
  <2>5. EtherFields \cup EtherFields = EtherFields
    OBVIOUS
  <2>6. QED
    BY <2>1, <2>3, <2>4, <2>5, MovesOn
<1>4. r.p.tci \in Short
  BY <1>1 DEF Of, EtherIn, EtherFields
<1>5. Moves(r, AsInner(r), EtherFields, T)
  <2> DEFINE a == Priority(r.p.tci)
             b == Vlan(r.p.tci)
             q == Put(r.p, "priorityCode", a)
             s == Put(q, "vlanID", b)
             t == Put(s, "tci", 0)
  <2>1. a \in Byte /\ b \in Short
    BY <1>4, TagValues
  <2> HIDE DEF a, b
  <2>2. Of(q, T) /\ \A y \in DOMAIN T \ {"priorityCode"} : q[y] = r.p[y]
    BY <1>1, <2>1, EtherRoom, PutFirst
  <2> HIDE DEF q
  <2>3. Of(s, T) /\ \A y \in DOMAIN T \ {"vlanID"} : s[y] = q[y]
    BY <2>1, <2>2, EtherRoom, PutOf
  <2> HIDE DEF s
  <2>4. Of(t, T) /\ \A y \in DOMAIN T \ {"tci"} : t[y] = s[y]
    BY <2>3, TagValues, EtherRoom, PutOf
  <2>5. AsInner(r) = With(r, t)
    BY Zenon DEF AsInner, Put, a, b, q, s
  <2> HIDE DEF t
  <2>6. \A y \in DOMAIN T \ EtherFields : t[y] = r.p[y]
    BY <2>2, <2>3, <2>4 DEF EtherFields
  <2>7. QED
    BY <2>4, <2>5, <2>6, WithMoves
<1>6. ASSUME NEW tpid \in Short PROVE Moves(r, AsOuter(r, tpid), EtherFields, T)
  <2> DEFINE a == Priority(r.p.tci)
             b == Vlan(r.p.tci)
             q == Put(r.p, "qInQPriorityCode", a)
             s == Put(q, "qinqVID", b)
             t == Put(s, "qinqTPID", tpid)
             u == Put(t, "tci", 0)
  <2>1. a \in Byte /\ b \in Short
    BY <1>4, TagValues
  <2> HIDE DEF a, b
  <2>2. Of(q, T) /\ \A y \in DOMAIN T \ {"qInQPriorityCode"} : q[y] = r.p[y]
    BY <1>1, <2>1, EtherRoom, PutFirst
  <2> HIDE DEF q
  <2>3. Of(s, T) /\ \A y \in DOMAIN T \ {"qinqVID"} : s[y] = q[y]
    BY <2>1, <2>2, EtherRoom, PutOf
  <2> HIDE DEF s
  <2>4. Of(t, T) /\ \A y \in DOMAIN T \ {"qinqTPID"} : t[y] = s[y]
    BY <1>6, <2>3, EtherRoom, PutOf
  <2> HIDE DEF t
  <2>5. Of(u, T) /\ \A y \in DOMAIN T \ {"tci"} : u[y] = t[y]
    BY <2>4, TagValues, EtherRoom, PutOf
  <2>6. AsOuter(r, tpid) = With(r, u)
    BY Zenon DEF AsOuter, Put, a, b, q, s, t
  <2> HIDE DEF u
  <2>7. \A y \in DOMAIN T \ EtherFields : u[y] = r.p[y]
    BY <2>2, <2>3, <2>4, <2>5 DEF EtherFields
  <2>8. QED
    BY <2>5, <2>6, <2>7, WithMoves
<1>7. QED
  BY <1>3, <1>5, <1>6

(***************************************************************************)
(* Reading the Ethernet header, with no tag, with one or with two, touches *)
(* no others (EthernetPacket::StreamFrom).                                 *)
(***************************************************************************)
LEMMA EtherMoves ==
  ASSUME NEW T, EtherIn(T), NEW r, Reads(r, T)
  PROVE  Moves(r, EthernetStreamFrom(r), EtherFields, T)
<1> DEFINE Goes(q, s) == Moves(q, s, EtherFields, T)
<1>0. ASSUME NEW q, NEW s, NEW t, Goes(q, s), Goes(s, t) PROVE Goes(q, t)
  <2>1. EtherFields \cup EtherFields = EtherFields
    OBVIOUS
  <2>2. QED
    BY <1>0, <2>1, MovesOn
<1>00. ASSUME NEW q, NEW s, Goes(q, s) PROVE Reads(s, T)
  BY <1>00 DEF Moves
<1>1. ASSUME NEW q, Reads(q, T) PROVE Goes(q, ReadOuterTag(q))
  <2> DEFINE u == ReadTag(q)
  <2>1. ReadOuterTag(q) = q \/ ReadOuterTag(q) = AsOuter(u, OuterTPID)
    BY Zenon DEF ReadOuterTag
  <2>2. Goes(q, u)
    BY <1>1, TagsMove
  <2>3. Reads(u, T)
    BY <1>00, <2>2
  <2> HIDE DEF u
  <2>4. Goes(u, AsOuter(u, OuterTPID))
    BY <2>3, TagsMove, TagValues
  <2>5. Goes(q, AsOuter(u, OuterTPID))
    BY <1>0, <2>2, <2>4
  <2>6. Goes(q, q)
    BY <1>1, MovesNone
  <2> HIDE DEF Goes
  <2>7. QED
    BY <2>1, <2>5, <2>6
<1>2. ASSUME NEW q, Reads(q, T) PROVE Goes(q, LastTag(q))
  <2> DEFINE u == AsOuter(q, InnerTPID)
             v == ReadTag(u)
  <2>1. LastTag(q) = AsInner(q) \/ LastTag(q) = AsInner(v)
    BY Zenon DEF LastTag
  <2>2. Goes(q, u) /\ Reads(u, T)
    BY <1>00, <1>2, TagsMove, TagValues
  <2> HIDE DEF u
  <2>3. Goes(u, v) /\ Reads(v, T)
    BY <1>00, <2>2, TagsMove
  <2> HIDE DEF v
  <2>4. Goes(v, AsInner(v))
    BY <2>3, TagsMove
  <2>5. Goes(q, AsInner(q))
    BY <1>2, TagsMove
  <2> HIDE DEF Goes
  <2>6. Goes(q, v)
    BY <1>0, <2>2, <2>3
  <2>7. Goes(q, AsInner(v))
    BY <1>0, <2>4, <2>6
  <2>8. QED
    BY <2>1, <2>5, <2>7
<1>3. ASSUME NEW q, Reads(q, T) PROVE Goes(q, ReadInnerTag(q))
  <2> DEFINE e == Put(q.p, "vlanID", NoVlan)
             u == ReadTag(q)
  <2>1. ReadInnerTag(q) = With(q, e) \/ ReadInnerTag(q) = LastTag(u)
    BY Zenon DEF ReadInnerTag, Put
  <2>2. Of(q.p, T)
    BY <1>3 DEF Reads
  <2>3. Of(e, T) /\ \A y \in DOMAIN T \ {"vlanID"} : e[y] = q.p[y]
    <3>1. Room(T, "vlanID", NoVlan)
      BY TagValues, EtherRoom
    <3>2. QED
      BY <2>2, <3>1, PutFirst
  <2> HIDE DEF e
  <2>4. \A y \in DOMAIN T \ EtherFields : e[y] = q.p[y]
    BY <2>3 DEF EtherFields
  <2>5. Goes(q, With(q, e))
    BY <1>3, <2>3, <2>4, WithMoves
  <2>6. Goes(q, u) /\ Reads(u, T)
    BY <1>00, <1>3, TagsMove
  <2> HIDE DEF u
  <2>7. Goes(u, LastTag(u))
    BY <1>2, <2>6
  <2> HIDE DEF Goes
  <2>8. Goes(q, LastTag(u))
    BY <1>0, <2>6, <2>7
  <2>9. QED
    BY <2>1, <2>5, <2>8
<1> DEFINE a == ReadFields(r, EtherHead)
           b == ReadOuterTag(a)
<1>4. Goes(r, a) /\ Reads(a, T)
  BY <1>00, EtherLaid, LaidRead
<1>5. EthernetStreamFrom(r) = ReadInnerTag(b)
  BY Zenon DEF EthernetStreamFrom
<1> HIDE DEF a
<1>6. Goes(a, b) /\ Reads(b, T)
  BY <1>00, <1>1, <1>4
<1> HIDE DEF b
<1>7. Goes(b, ReadInnerTag(b))
  BY <1>3, <1>6
<1> HIDE DEF Goes
<1>8. Goes(r, ReadInnerTag(b))
  BY <1>0, <1>4, <1>6, <1>7
<1>9. QED
  BY <1>5, <1>8 DEF Goes

-----------------------------------------------------------------------------
(***************************************************************************)
(* The layout of ARP: its 28 bytes, its names and their values.            *)
(***************************************************************************)
LEMMA ARPFieldsIs ==
  /\ LayoutOf(ARPFields, 9, Names(ARPFields)) /\ Width(ARPFields) = 28
  /\ Names(ARPFields) =
       {"hardwareType", "protocolType", "hardwareAddressLength",
                   "protocolAddressLength", "opCode", "senderHardwareAddress",
                   "senderProtocolAddress", "targetHardwareAddress", "targetProtocolAddress"}
  /\ /\ LayoutTypes(ARPFields)["hardwareType"] = Short
     /\ LayoutTypes(ARPFields)["protocolType"] = Short
     /\ LayoutTypes(ARPFields)["hardwareAddressLength"] = Byte
     /\ LayoutTypes(ARPFields)["protocolAddressLength"] = Byte
     /\ LayoutTypes(ARPFields)["opCode"] = Short
     /\ LayoutTypes(ARPFields)["senderHardwareAddress"] = [1..6 -> Byte]
     /\ LayoutTypes(ARPFields)["senderProtocolAddress"] = [1..4 -> Byte]
     /\ LayoutTypes(ARPFields)["targetHardwareAddress"] = [1..6 -> Byte]
     /\ LayoutTypes(ARPFields)["targetProtocolAddress"] = [1..4 -> Byte]
<1> DEFINE L == ARPFields
<1>1. DOMAIN L = 1..9 /\ 1..9 = {1, 2, 3, 4, 5, 6, 7, 8, 9}
  BY DEF ARPFields
<1>2. /\ L[1][1] = "hardwareType" /\ L[1][2] = 2
      /\ L[2][1] = "protocolType" /\ L[2][2] = 2
      /\ L[3][1] = "hardwareAddressLength" /\ L[3][2] = 1
      /\ L[4][1] = "protocolAddressLength" /\ L[4][2] = 1
      /\ L[5][1] = "opCode" /\ L[5][2] = 2
      /\ L[6][1] = "senderHardwareAddress" /\ L[6][2] = 6
      /\ L[7][1] = "senderProtocolAddress" /\ L[7][2] = 4
      /\ L[8][1] = "targetHardwareAddress" /\ L[8][2] = 6
      /\ L[9][1] = "targetProtocolAddress" /\ L[9][2] = 4
  BY DEF ARPFields
<1> HIDE DEF L
<1>3. Names(L) =
       {"hardwareType", "protocolType", "hardwareAddressLength",
                   "protocolAddressLength", "opCode", "senderHardwareAddress",
                   "senderProtocolAddress", "targetHardwareAddress", "targetProtocolAddress"}
  BY <1>1, <1>2 DEF Names
<1>4. LayoutOf(L, 9, Names(L))
  BY <1>1, <1>2, <1>3 DEF LayoutOf
<1>5. /\ LayoutTypes(L)["hardwareType"] = Short
      /\ LayoutTypes(L)["protocolType"] = Short
      /\ LayoutTypes(L)["hardwareAddressLength"] = Byte
      /\ LayoutTypes(L)["protocolAddressLength"] = Byte
      /\ LayoutTypes(L)["opCode"] = Short
      /\ LayoutTypes(L)["senderHardwareAddress"] = [1..6 -> Byte]
      /\ LayoutTypes(L)["senderProtocolAddress"] = [1..4 -> Byte]
      /\ LayoutTypes(L)["targetHardwareAddress"] = [1..6 -> Byte]
      /\ LayoutTypes(L)["targetProtocolAddress"] = [1..4 -> Byte]
  BY <1>1, <1>2, <1>4, TypesOfLayout, ValuesOf
<1>6. Width(L) = 28
  <2>1. PICK h : WidthSteps(h, L, 9)
    BY <1>1, WidthBySteps
  <2>2. QED
    BY <1>1, <1>2, <2>1 DEF WidthSteps
<1>7. QED
  BY <1>3, <1>4, <1>5, <1>6 DEF L

(***************************************************************************)
(* The layout of LinkData before the size of its data.                     *)
(***************************************************************************)
LEMMA LinkHeadIs ==
  /\ LayoutOf(LinkHead, 6, Names(LinkHead)) /\ Width(LinkHead) = 30
  /\ Names(LinkHead) =
       {"dstport", "srcport", "dstdpid", "srcdpid", "xid", "flags"}
  /\ /\ LayoutTypes(LinkHead)["dstport"] = [1..4 -> Byte]
     /\ LayoutTypes(LinkHead)["srcport"] = [1..4 -> Byte]
     /\ LayoutTypes(LinkHead)["dstdpid"] = [1..8 -> Byte]
     /\ LayoutTypes(LinkHead)["srcdpid"] = [1..8 -> Byte]
     /\ LayoutTypes(LinkHead)["xid"] = [1..4 -> Byte]
     /\ LayoutTypes(LinkHead)["flags"] = Short
<1> DEFINE L == LinkHead
<1>1. DOMAIN L = 1..6 /\ 1..6 = {1, 2, 3, 4, 5, 6}
  BY DEF LinkHead
<1>2. /\ L[1][1] = "dstport" /\ L[1][2] = 4
      /\ L[2][1] = "srcport" /\ L[2][2] = 4
      /\ L[3][1] = "dstdpid" /\ L[3][2] = 8
      /\ L[4][1] = "srcdpid" /\ L[4][2] = 8
      /\ L[5][1] = "xid" /\ L[5][2] = 4
      /\ L[6][1] = "flags" /\ L[6][2] = 2
  BY DEF LinkHead
<1> HIDE DEF L
<1>3. Names(L) =
       {"dstport", "srcport", "dstdpid", "srcdpid", "xid", "flags"}
  BY <1>1, <1>2 DEF Names
<1>4. LayoutOf(L, 6, Names(L))
  BY <1>1, <1>2, <1>3 DEF LayoutOf
<1>5. /\ LayoutTypes(L)["dstport"] = [1..4 -> Byte]
      /\ LayoutTypes(L)["srcport"] = [1..4 -> Byte]
      /\ LayoutTypes(L)["dstdpid"] = [1..8 -> Byte]
      /\ LayoutTypes(L)["srcdpid"] = [1..8 -> Byte]
      /\ LayoutTypes(L)["xid"] = [1..4 -> Byte]
      /\ LayoutTypes(L)["flags"] = Short
  BY <1>1, <1>2, <1>4, TypesOfLayout, ValuesOf
<1>6. Width(L) = 30
  <2>1. PICK h : WidthSteps(h, L, 6)
    BY <1>1, WidthBySteps
  <2>2. QED
    BY <1>1, <1>2, <2>1 DEF WidthSteps
<1>7. QED
  BY <1>3, <1>4, <1>5, <1>6 DEF L

(***************************************************************************)
(* The layout of DS: 52 bytes.                                             *)
(***************************************************************************)
LEMMA DSFieldsIs ==
  /\ LayoutOf(DSFields, 11, Names(DSFields)) /\ Width(DSFields) = 52
  /\ Names(DSFields) =
       {"length", "flags", "senderport", "peerport", "senderdp", "peerdp",
                   "sendcost", "fromclusterid", "fromdatacenterid", "toclusterid",
                   "todatacenterid"}
  /\ /\ LayoutTypes(DSFields)["length"] = [1..4 -> Byte]
     /\ LayoutTypes(DSFields)["flags"] = [1..4 -> Byte]
     /\ LayoutTypes(DSFields)["senderport"] = [1..4 -> Byte]
     /\ LayoutTypes(DSFields)["peerport"] = [1..4 -> Byte]
     /\ LayoutTypes(DSFields)["senderdp"] = [1..8 -> Byte]
     /\ LayoutTypes(DSFields)["peerdp"] = [1..8 -> Byte]
     /\ LayoutTypes(DSFields)["sendcost"] = [1..4 -> Byte]
     /\ LayoutTypes(DSFields)["fromclusterid"] = [1..4 -> Byte]
     /\ LayoutTypes(DSFields)["fromdatacenterid"] = [1..4 -> Byte]
     /\ LayoutTypes(DSFields)["toclusterid"] = [1..4 -> Byte]
     /\ LayoutTypes(DSFields)["todatacenterid"] = [1..4 -> Byte]
<1> DEFINE L == DSFields
<1>1. DOMAIN L = 1..11 /\ 1..11 = {1, 2, 3, 4, 5, 6, 7, 8, 9, 10, 11}
  BY DEF DSFields
<1>2. /\ L[1][1] = "length" /\ L[1][2] = 4
      /\ L[2][1] = "flags" /\ L[2][2] = 4
      /\ L[3][1] = "senderport" /\ L[3][2] = 4
      /\ L[4][1] = "peerport" /\ L[4][2] = 4
      /\ L[5][1] = "senderdp" /\ L[5][2] = 8
      /\ L[6][1] = "peerdp" /\ L[6][2] = 8
      /\ L[7][1] = "sendcost" /\ L[7][2] = 4
      /\ L[8][1] = "fromclusterid" /\ L[8][2] = 4
      /\ L[9][1] = "fromdatacenterid" /\ L[9][2] = 4
      /\ L[10][1] = "toclusterid" /\ L[10][2] = 4
      /\ L[11][1] = "todatacenterid" /\ L[11][2] = 4
  BY DEF DSFields
<1> HIDE DEF L
<1>3. Names(L) =
       {"length", "flags", "senderport", "peerport", "senderdp", "peerdp",
                   "sendcost", "fromclusterid", "fromdatacenterid", "toclusterid",
                   "todatacenterid"}
  BY <1>1, <1>2 DEF Names
<1>4. LayoutOf(L, 11, Names(L))
  BY <1>1, <1>2, <1>3 DEF LayoutOf
<1>5. /\ LayoutTypes(L)["length"] = [1..4 -> Byte]
      /\ LayoutTypes(L)["flags"] = [1..4 -> Byte]
      /\ LayoutTypes(L)["senderport"] = [1..4 -> Byte]
      /\ LayoutTypes(L)["peerport"] = [1..4 -> Byte]
      /\ LayoutTypes(L)["senderdp"] = [1..8 -> Byte]
      /\ LayoutTypes(L)["peerdp"] = [1..8 -> Byte]
      /\ LayoutTypes(L)["sendcost"] = [1..4 -> Byte]
      /\ LayoutTypes(L)["fromclusterid"] = [1..4 -> Byte]
      /\ LayoutTypes(L)["fromdatacenterid"] = [1..4 -> Byte]
      /\ LayoutTypes(L)["toclusterid"] = [1..4 -> Byte]
      /\ LayoutTypes(L)["todatacenterid"] = [1..4 -> Byte]
  BY <1>1, <1>2, <1>4, TypesOfLayout, ValuesOf
<1>6. Width(L) = 52
  <2>1. PICK h : WidthSteps(h, L, 11)
    BY <1>1, WidthBySteps
  <2>2. QED
    BY <1>1, <1>2, <2>1 DEF WidthSteps
<1>7. QED
  BY <1>3, <1>4, <1>5, <1>6 DEF L

(***************************************************************************)
(* The layout of the IPv4 header without options: 20 bytes.                *)
(***************************************************************************)
LEMMA IPHeadIs ==
  /\ LayoutOf(IPHead, 10, Names(IPHead)) /\ Width(IPHead) = 20
  /\ Names(IPHead) =
       {"versionheader", "diffServ", "totalLength", "identification", "sscratch",
                   "ttl", "protocol", "checksum", "sourceAddress", "destinationAddress"}
  /\ /\ LayoutTypes(IPHead)["versionheader"] = Byte
     /\ LayoutTypes(IPHead)["diffServ"] = Byte
     /\ LayoutTypes(IPHead)["totalLength"] = Short
     /\ LayoutTypes(IPHead)["identification"] = Short
     /\ LayoutTypes(IPHead)["sscratch"] = Short
     /\ LayoutTypes(IPHead)["ttl"] = Byte
     /\ LayoutTypes(IPHead)["protocol"] = Byte
     /\ LayoutTypes(IPHead)["checksum"] = Short
     /\ LayoutTypes(IPHead)["sourceAddress"] = [1..4 -> Byte]
     /\ LayoutTypes(IPHead)["destinationAddress"] = [1..4 -> Byte]
<1> DEFINE L == IPHead
<1>1. DOMAIN L = 1..10 /\ 1..10 = {1, 2, 3, 4, 5, 6, 7, 8, 9, 10}
  BY DEF IPHead
<1>2. /\ L[1][1] = "versionheader" /\ L[1][2] = 1
      /\ L[2][1] = "diffServ" /\ L[2][2] = 1
      /\ L[3][1] = "totalLength" /\ L[3][2] = 2
      /\ L[4][1] = "identification" /\ L[4][2] = 2
      /\ L[5][1] = "sscratch" /\ L[5][2] = 2
      /\ L[6][1] = "ttl" /\ L[6][2] = 1
      /\ L[7][1] = "protocol" /\ L[7][2] = 1
      /\ L[8][1] = "checksum" /\ L[8][2] = 2
      /\ L[9][1] = "sourceAddress" /\ L[9][2] = 4
      /\ L[10][1] = "destinationAddress" /\ L[10][2] = 4
  BY DEF IPHead
<1> HIDE DEF L
<1>3. Names(L) =
       {"versionheader", "diffServ", "totalLength", "identification", "sscratch",
                   "ttl", "protocol", "checksum", "sourceAddress", "destinationAddress"}
  BY <1>1, <1>2 DEF Names
<1>4. LayoutOf(L, 10, Names(L))
  BY <1>1, <1>2, <1>3 DEF LayoutOf
<1>5. /\ LayoutTypes(L)["versionheader"] = Byte
      /\ LayoutTypes(L)["diffServ"] = Byte
      /\ LayoutTypes(L)["totalLength"] = Short
      /\ LayoutTypes(L)["identification"] = Short
      /\ LayoutTypes(L)["sscratch"] = Short
      /\ LayoutTypes(L)["ttl"] = Byte
      /\ LayoutTypes(L)["protocol"] = Byte
      /\ LayoutTypes(L)["checksum"] = Short
      /\ LayoutTypes(L)["sourceAddress"] = [1..4 -> Byte]
      /\ LayoutTypes(L)["destinationAddress"] = [1..4 -> Byte]
  BY <1>1, <1>2, <1>4, TypesOfLayout, ValuesOf
<1>6. Width(L) = 20
  <2>1. PICK h : WidthSteps(h, L, 10)
    BY <1>1, WidthBySteps
  <2>2. QED
    BY <1>1, <1>2, <2>1 DEF WidthSteps
<1>7. QED
  BY <1>3, <1>4, <1>5, <1>6 DEF L

(***************************************************************************)
(* The layout of the TCP header without options: 20 bytes.                 *)
(***************************************************************************)
LEMMA TCPHeadIs ==
  /\ LayoutOf(TCPHead, 8, Names(TCPHead)) /\ Width(TCPHead) = 20
  /\ Names(TCPHead) =
       {"tcpsourcePort", "tcpdestinationPort", "tcpsequence", "tcpacknowledge",
                   "tcpflags", "tcpwindowSize", "tcpchecksum", "tcpurgentPointer"}
  /\ /\ LayoutTypes(TCPHead)["tcpsourcePort"] = Short
     /\ LayoutTypes(TCPHead)["tcpdestinationPort"] = Short
     /\ LayoutTypes(TCPHead)["tcpsequence"] = [1..4 -> Byte]
     /\ LayoutTypes(TCPHead)["tcpacknowledge"] = [1..4 -> Byte]
     /\ LayoutTypes(TCPHead)["tcpflags"] = Short
     /\ LayoutTypes(TCPHead)["tcpwindowSize"] = Short
     /\ LayoutTypes(TCPHead)["tcpchecksum"] = Short
     /\ LayoutTypes(TCPHead)["tcpurgentPointer"] = Short
<1> DEFINE L == TCPHead
<1>1. DOMAIN L = 1..8 /\ 1..8 = {1, 2, 3, 4, 5, 6, 7, 8}
  BY DEF TCPHead
<1>2. /\ L[1][1] = "tcpsourcePort" /\ L[1][2] = 2
      /\ L[2][1] = "tcpdestinationPort" /\ L[2][2] = 2
      /\ L[3][1] = "tcpsequence" /\ L[3][2] = 4
      /\ L[4][1] = "tcpacknowledge" /\ L[4][2] = 4
      /\ L[5][1] = "tcpflags" /\ L[5][2] = 2
      /\ L[6][1] = "tcpwindowSize" /\ L[6][2] = 2
      /\ L[7][1] = "tcpchecksum" /\ L[7][2] = 2
      /\ L[8][1] = "tcpurgentPointer" /\ L[8][2] = 2
  BY DEF TCPHead
<1> HIDE DEF L
<1>3. Names(L) =
       {"tcpsourcePort", "tcpdestinationPort", "tcpsequence", "tcpacknowledge",
                   "tcpflags", "tcpwindowSize", "tcpchecksum", "tcpurgentPointer"}
  BY <1>1, <1>2 DEF Names
<1>4. LayoutOf(L, 8, Names(L))
  BY <1>1, <1>2, <1>3 DEF LayoutOf
<1>5. /\ LayoutTypes(L)["tcpsourcePort"] = Short
      /\ LayoutTypes(L)["tcpdestinationPort"] = Short
      /\ LayoutTypes(L)["tcpsequence"] = [1..4 -> Byte]
      /\ LayoutTypes(L)["tcpacknowledge"] = [1..4 -> Byte]
      /\ LayoutTypes(L)["tcpflags"] = Short
      /\ LayoutTypes(L)["tcpwindowSize"] = Short
      /\ LayoutTypes(L)["tcpchecksum"] = Short
      /\ LayoutTypes(L)["tcpurgentPointer"] = Short
  BY <1>1, <1>2, <1>4, TypesOfLayout, ValuesOf
<1>6. Width(L) = 20
  <2>1. PICK h : WidthSteps(h, L, 8)
    BY <1>1, WidthBySteps
  <2>2. QED
    BY <1>1, <1>2, <2>1 DEF WidthSteps
<1>7. QED
  BY <1>3, <1>4, <1>5, <1>6 DEF L

(***************************************************************************)
(* The layout of the UDP header: 8 bytes.                                  *)
(***************************************************************************)
LEMMA UDPHeadIs ==
  /\ LayoutOf(UDPHead, 4, Names(UDPHead)) /\ Width(UDPHead) = 8
  /\ Names(UDPHead) =
       {"sourcePort", "destinationPort", "udplength", "udpchecksum"}
  /\ /\ LayoutTypes(UDPHead)["sourcePort"] = Short
     /\ LayoutTypes(UDPHead)["destinationPort"] = Short
     /\ LayoutTypes(UDPHead)["udplength"] = Short
     /\ LayoutTypes(UDPHead)["udpchecksum"] = Short
<1> DEFINE L == UDPHead
<1>1. DOMAIN L = 1..4 /\ 1..4 = {1, 2, 3, 4}
  BY DEF UDPHead
<1>2. /\ L[1][1] = "sourcePort" /\ L[1][2] = 2
      /\ L[2][1] = "destinationPort" /\ L[2][2] = 2
      /\ L[3][1] = "udplength" /\ L[3][2] = 2
      /\ L[4][1] = "udpchecksum" /\ L[4][2] = 2
  BY DEF UDPHead
<1> HIDE DEF L
<1>3. Names(L) =
       {"sourcePort", "destinationPort", "udplength", "udpchecksum"}
  BY <1>1, <1>2 DEF Names
<1>4. LayoutOf(L, 4, Names(L))
  BY <1>1, <1>2, <1>3 DEF LayoutOf
<1>5. /\ LayoutTypes(L)["sourcePort"] = Short
      /\ LayoutTypes(L)["destinationPort"] = Short
      /\ LayoutTypes(L)["udplength"] = Short
      /\ LayoutTypes(L)["udpchecksum"] = Short
  BY <1>1, <1>2, <1>4, TypesOfLayout, ValuesOf
<1>6. Width(L) = 8
  <2>1. PICK h : WidthSteps(h, L, 4)
    BY <1>1, WidthBySteps
  <2>2. QED
    BY <1>1, <1>2, <2>1 DEF WidthSteps
<1>7. QED
  BY <1>3, <1>4, <1>5, <1>6 DEF L

(***************************************************************************)
(* The layout of the ICMP header: 8 bytes.                                 *)
(***************************************************************************)
LEMMA ICMPHeadIs ==
  /\ LayoutOf(ICMPHead, 5, Names(ICMPHead)) /\ Width(ICMPHead) = 8
  /\ Names(ICMPHead) =
       {"icmpType", "icmpCode", "icmpchecksum", "icmpidentifier", "icmpsequencnum"}
  /\ /\ LayoutTypes(ICMPHead)["icmpType"] = Byte
     /\ LayoutTypes(ICMPHead)["icmpCode"] = Byte
     /\ LayoutTypes(ICMPHead)["icmpchecksum"] = Short
     /\ LayoutTypes(ICMPHead)["icmpidentifier"] = Short
     /\ LayoutTypes(ICMPHead)["icmpsequencnum"] = Short
<1> DEFINE L == ICMPHead
<1>1. DOMAIN L = 1..5 /\ 1..5 = {1, 2, 3, 4, 5}
  BY DEF ICMPHead
<1>2. /\ L[1][1] = "icmpType" /\ L[1][2] = 1
      /\ L[2][1] = "icmpCode" /\ L[2][2] = 1
      /\ L[3][1] = "icmpchecksum" /\ L[3][2] = 2
      /\ L[4][1] = "icmpidentifier" /\ L[4][2] = 2
      /\ L[5][1] = "icmpsequencnum" /\ L[5][2] = 2
  BY DEF ICMPHead
<1> HIDE DEF L
<1>3. Names(L) =
       {"icmpType", "icmpCode", "icmpchecksum", "icmpidentifier", "icmpsequencnum"}
  BY <1>1, <1>2 DEF Names
<1>4. LayoutOf(L, 5, Names(L))
  BY <1>1, <1>2, <1>3 DEF LayoutOf
<1>5. /\ LayoutTypes(L)["icmpType"] = Byte
      /\ LayoutTypes(L)["icmpCode"] = Byte
      /\ LayoutTypes(L)["icmpchecksum"] = Short
      /\ LayoutTypes(L)["icmpidentifier"] = Short
      /\ LayoutTypes(L)["icmpsequencnum"] = Short
  BY <1>1, <1>2, <1>4, TypesOfLayout, ValuesOf
<1>6. Width(L) = 8
  <2>1. PICK h : WidthSteps(h, L, 5)
    BY <1>1, WidthBySteps
  <2>2. QED
    BY <1>1, <1>2, <2>1 DEF WidthSteps
<1>7. QED
  BY <1>3, <1>4, <1>5, <1>6 DEF L

(***************************************************************************)
(* The two bytes that count the data of STP and LinkData.                  *)
(***************************************************************************)
LEMMA DataSizeIs ==
  /\ LayoutOf(DataSize, 1, Names(DataSize)) /\ Width(DataSize) = 2
  /\ Names(DataSize) =
       {"datasize"}
  /\ /\ LayoutTypes(DataSize)["datasize"] = Short
<1> DEFINE L == DataSize
<1>1. DOMAIN L = 1..1 /\ 1..1 = {1}
  BY DEF DataSize
<1>2. /\ L[1][1] = "datasize" /\ L[1][2] = 2
  BY DEF DataSize
<1> HIDE DEF L
<1>3. Names(L) =
       {"datasize"}
  BY <1>1, <1>2 DEF Names
<1>4. LayoutOf(L, 1, Names(L))
  BY <1>1, <1>2, <1>3 DEF LayoutOf
<1>5. /\ LayoutTypes(L)["datasize"] = Short
  BY <1>1, <1>2, <1>4, TypesOfLayout, ValuesOf
<1>6. Width(L) = 2
  <2>1. PICK h : WidthSteps(h, L, 1)
    BY <1>1, WidthBySteps
  <2>2. QED
    BY <1>1, <1>2, <2>1 DEF WidthSteps
<1>7. QED
  BY <1>3, <1>4, <1>5, <1>6 DEF L

(***************************************************************************)
(* The layout of LinkData with them.                                       *)
(***************************************************************************)
LEMMA LinkLayoutIs ==
  /\ LayoutOf(LinkHead \o DataSize, 7, Names(LinkHead \o DataSize)) /\
       Width(LinkHead \o DataSize) = 32
  /\ Names(LinkHead \o DataSize) =
       {"dstport", "srcport", "dstdpid", "srcdpid", "xid", "flags", "datasize"}
  /\ /\ LayoutTypes(LinkHead \o DataSize)["dstport"] = [1..4 -> Byte]
     /\ LayoutTypes(LinkHead \o DataSize)["srcport"] = [1..4 -> Byte]
     /\ LayoutTypes(LinkHead \o DataSize)["dstdpid"] = [1..8 -> Byte]
     /\ LayoutTypes(LinkHead \o DataSize)["srcdpid"] = [1..8 -> Byte]
     /\ LayoutTypes(LinkHead \o DataSize)["xid"] = [1..4 -> Byte]
     /\ LayoutTypes(LinkHead \o DataSize)["flags"] = Short
     /\ LayoutTypes(LinkHead \o DataSize)["datasize"] = Short
<1> DEFINE L == LinkHead \o DataSize
<1>1. DOMAIN L = 1..7 /\ 1..7 = {1, 2, 3, 4, 5, 6, 7}
  BY DEF LinkHead, DataSize
<1>2. /\ L[1][1] = "dstport" /\ L[1][2] = 4
      /\ L[2][1] = "srcport" /\ L[2][2] = 4
      /\ L[3][1] = "dstdpid" /\ L[3][2] = 8
      /\ L[4][1] = "srcdpid" /\ L[4][2] = 8
      /\ L[5][1] = "xid" /\ L[5][2] = 4
      /\ L[6][1] = "flags" /\ L[6][2] = 2
      /\ L[7][1] = "datasize" /\ L[7][2] = 2
  BY DEF LinkHead, DataSize
<1> HIDE DEF L
<1>3. Names(L) =
       {"dstport", "srcport", "dstdpid", "srcdpid", "xid", "flags", "datasize"}
  BY <1>1, <1>2 DEF Names
<1>4. LayoutOf(L, 7, Names(L))
  BY <1>1, <1>2, <1>3 DEF LayoutOf
<1>5. /\ LayoutTypes(L)["dstport"] = [1..4 -> Byte]
      /\ LayoutTypes(L)["srcport"] = [1..4 -> Byte]
      /\ LayoutTypes(L)["dstdpid"] = [1..8 -> Byte]
      /\ LayoutTypes(L)["srcdpid"] = [1..8 -> Byte]
      /\ LayoutTypes(L)["xid"] = [1..4 -> Byte]
      /\ LayoutTypes(L)["flags"] = Short
      /\ LayoutTypes(L)["datasize"] = Short
  BY <1>1, <1>2, <1>4, TypesOfLayout, ValuesOf
<1>6. Width(L) = 32
  <2>1. PICK h : WidthSteps(h, L, 7)
    BY <1>1, WidthBySteps
  <2>2. QED
    BY <1>1, <1>2, <2>1 DEF WidthSteps
<1>7. QED
  BY <1>3, <1>4, <1>5, <1>6 DEF L

(***************************************************************************)
(* The fields of EthernetPacket that JSON has.                             *)
(***************************************************************************)
LEMMA EthernetJsonIs ==
  /\ LayoutOf(EthernetJson, 8, Names(EthernetJson))
  /\ Names(EthernetJson) =
       {"dmac", "smac", "ethtype", "vlanID", "priorityCode", "qInQPriorityCode",
                   "qinqVID", "qinqTPID"}
  /\ /\ LayoutTypes(EthernetJson)["dmac"] = [1..6 -> Byte]
     /\ LayoutTypes(EthernetJson)["smac"] = [1..6 -> Byte]
     /\ LayoutTypes(EthernetJson)["ethtype"] = Short
     /\ LayoutTypes(EthernetJson)["vlanID"] = Short
     /\ LayoutTypes(EthernetJson)["priorityCode"] = Byte
     /\ LayoutTypes(EthernetJson)["qInQPriorityCode"] = Byte
     /\ LayoutTypes(EthernetJson)["qinqVID"] = Short
     /\ LayoutTypes(EthernetJson)["qinqTPID"] = Short
<1> DEFINE L == EthernetJson
<1>1. DOMAIN L = 1..8 /\ 1..8 = {1, 2, 3, 4, 5, 6, 7, 8}
  BY DEF EthernetJson
<1>2. /\ L[1][1] = "dmac" /\ L[1][2] = 6
      /\ L[2][1] = "smac" /\ L[2][2] = 6
      /\ L[3][1] = "ethtype" /\ L[3][2] = 2
      /\ L[4][1] = "vlanID" /\ L[4][2] = 2
      /\ L[5][1] = "priorityCode" /\ L[5][2] = 1
      /\ L[6][1] = "qInQPriorityCode" /\ L[6][2] = 1
      /\ L[7][1] = "qinqVID" /\ L[7][2] = 2
      /\ L[8][1] = "qinqTPID" /\ L[8][2] = 2
  BY DEF EthernetJson
<1> HIDE DEF L
<1>3. Names(L) =
       {"dmac", "smac", "ethtype", "vlanID", "priorityCode", "qInQPriorityCode",
                   "qinqVID", "qinqTPID"}
  BY <1>1, <1>2 DEF Names
<1>4. LayoutOf(L, 8, Names(L))
  BY <1>1, <1>2, <1>3 DEF LayoutOf
<1>5. /\ LayoutTypes(L)["dmac"] = [1..6 -> Byte]
      /\ LayoutTypes(L)["smac"] = [1..6 -> Byte]
      /\ LayoutTypes(L)["ethtype"] = Short
      /\ LayoutTypes(L)["vlanID"] = Short
      /\ LayoutTypes(L)["priorityCode"] = Byte
      /\ LayoutTypes(L)["qInQPriorityCode"] = Byte
      /\ LayoutTypes(L)["qinqVID"] = Short
      /\ LayoutTypes(L)["qinqTPID"] = Short
  BY <1>1, <1>2, <1>4, TypesOfLayout, ValuesOf
<1>6. QED
  BY <1>3, <1>4, <1>5 DEF L

(***************************************************************************)
(* Those of ARP.                                                           *)
(***************************************************************************)
LEMMA ARPJsonIs ==
  /\ LayoutOf(ARPJson, 9, Names(ARPJson))
  /\ Names(ARPJson) =
       {"hardwareType", "protocolType", "hardwareAddressLength",
                   "protocolAddressLength", "opCode", "senderHardwareAddress",
                   "senderProtocolAddress", "targetHardwareAddress", "targetProtocolAddress"}
  /\ /\ LayoutTypes(ARPJson)["hardwareType"] = Short
     /\ LayoutTypes(ARPJson)["protocolType"] = Short
     /\ LayoutTypes(ARPJson)["hardwareAddressLength"] = Byte
     /\ LayoutTypes(ARPJson)["protocolAddressLength"] = Byte
     /\ LayoutTypes(ARPJson)["opCode"] = Short
     /\ LayoutTypes(ARPJson)["senderHardwareAddress"] = [1..6 -> Byte]
     /\ LayoutTypes(ARPJson)["senderProtocolAddress"] = [1..4 -> Byte]
     /\ LayoutTypes(ARPJson)["targetHardwareAddress"] = [1..6 -> Byte]
     /\ LayoutTypes(ARPJson)["targetProtocolAddress"] = [1..4 -> Byte]
<1> DEFINE L == ARPJson
<1>1. DOMAIN L = 1..9 /\ 1..9 = {1, 2, 3, 4, 5, 6, 7, 8, 9}
  BY DEF ARPJson
<1>2. /\ L[1][1] = "hardwareType" /\ L[1][2] = 2
      /\ L[2][1] = "protocolType" /\ L[2][2] = 2
      /\ L[3][1] = "hardwareAddressLength" /\ L[3][2] = 1
      /\ L[4][1] = "protocolAddressLength" /\ L[4][2] = 1
      /\ L[5][1] = "opCode" /\ L[5][2] = 2
      /\ L[6][1] = "senderHardwareAddress" /\ L[6][2] = 6
      /\ L[7][1] = "senderProtocolAddress" /\ L[7][2] = 4
      /\ L[8][1] = "targetHardwareAddress" /\ L[8][2] = 6
      /\ L[9][1] = "targetProtocolAddress" /\ L[9][2] = 4
  BY DEF ARPJson
<1> HIDE DEF L
<1>3. Names(L) =
       {"hardwareType", "protocolType", "hardwareAddressLength",
                   "protocolAddressLength", "opCode", "senderHardwareAddress",
                   "senderProtocolAddress", "targetHardwareAddress", "targetProtocolAddress"}
  BY <1>1, <1>2 DEF Names
<1>4. LayoutOf(L, 9, Names(L))
  BY <1>1, <1>2, <1>3 DEF LayoutOf
<1>5. /\ LayoutTypes(L)["hardwareType"] = Short
      /\ LayoutTypes(L)["protocolType"] = Short
      /\ LayoutTypes(L)["hardwareAddressLength"] = Byte
      /\ LayoutTypes(L)["protocolAddressLength"] = Byte
      /\ LayoutTypes(L)["opCode"] = Short
      /\ LayoutTypes(L)["senderHardwareAddress"] = [1..6 -> Byte]
      /\ LayoutTypes(L)["senderProtocolAddress"] = [1..4 -> Byte]
      /\ LayoutTypes(L)["targetHardwareAddress"] = [1..6 -> Byte]
      /\ LayoutTypes(L)["targetProtocolAddress"] = [1..4 -> Byte]
  BY <1>1, <1>2, <1>4, TypesOfLayout, ValuesOf
<1>6. QED
  BY <1>3, <1>4, <1>5 DEF L

(***************************************************************************)
(* Those of IPPacket.                                                      *)
(***************************************************************************)
LEMMA IPJsonIs ==
  /\ LayoutOf(IPJson, 12, Names(IPJson))
  /\ Names(IPJson) =
       {"version", "headerLength", "diffServ", "totalLength", "identification",
                   "flags", "fragmentOffset", "ttl", "protocol", "checksum", "sourceAddress",
                   "destinationAddress"}
  /\ /\ LayoutTypes(IPJson)["version"] = Byte
     /\ LayoutTypes(IPJson)["headerLength"] = Byte
     /\ LayoutTypes(IPJson)["diffServ"] = Byte
     /\ LayoutTypes(IPJson)["totalLength"] = Short
     /\ LayoutTypes(IPJson)["identification"] = Short
     /\ LayoutTypes(IPJson)["flags"] = Byte
     /\ LayoutTypes(IPJson)["fragmentOffset"] = Short
     /\ LayoutTypes(IPJson)["ttl"] = Byte
     /\ LayoutTypes(IPJson)["protocol"] = Byte
     /\ LayoutTypes(IPJson)["checksum"] = Short
     /\ LayoutTypes(IPJson)["sourceAddress"] = [1..4 -> Byte]
     /\ LayoutTypes(IPJson)["destinationAddress"] = [1..4 -> Byte]
<1> DEFINE L == IPJson
<1>1. DOMAIN L = 1..12 /\ 1..12 = {1, 2, 3, 4, 5, 6, 7, 8, 9, 10, 11, 12}
  BY DEF IPJson
<1>2. /\ L[1][1] = "version" /\ L[1][2] = 1
      /\ L[2][1] = "headerLength" /\ L[2][2] = 1
      /\ L[3][1] = "diffServ" /\ L[3][2] = 1
      /\ L[4][1] = "totalLength" /\ L[4][2] = 2
      /\ L[5][1] = "identification" /\ L[5][2] = 2
      /\ L[6][1] = "flags" /\ L[6][2] = 1
      /\ L[7][1] = "fragmentOffset" /\ L[7][2] = 2
      /\ L[8][1] = "ttl" /\ L[8][2] = 1
      /\ L[9][1] = "protocol" /\ L[9][2] = 1
      /\ L[10][1] = "checksum" /\ L[10][2] = 2
      /\ L[11][1] = "sourceAddress" /\ L[11][2] = 4
      /\ L[12][1] = "destinationAddress" /\ L[12][2] = 4
  BY DEF IPJson
<1> HIDE DEF L
<1>3. Names(L) =
       {"version", "headerLength", "diffServ", "totalLength", "identification",
                   "flags", "fragmentOffset", "ttl", "protocol", "checksum", "sourceAddress",
                   "destinationAddress"}
  BY <1>1, <1>2 DEF Names
<1>4. LayoutOf(L, 12, Names(L))
  BY <1>1, <1>2, <1>3 DEF LayoutOf
<1>5. /\ LayoutTypes(L)["version"] = Byte
      /\ LayoutTypes(L)["headerLength"] = Byte
      /\ LayoutTypes(L)["diffServ"] = Byte
      /\ LayoutTypes(L)["totalLength"] = Short
      /\ LayoutTypes(L)["identification"] = Short
      /\ LayoutTypes(L)["flags"] = Byte
      /\ LayoutTypes(L)["fragmentOffset"] = Short
      /\ LayoutTypes(L)["ttl"] = Byte
      /\ LayoutTypes(L)["protocol"] = Byte
      /\ LayoutTypes(L)["checksum"] = Short
      /\ LayoutTypes(L)["sourceAddress"] = [1..4 -> Byte]
      /\ LayoutTypes(L)["destinationAddress"] = [1..4 -> Byte]
  BY <1>1, <1>2, <1>4, TypesOfLayout, ValuesOf
<1>6. QED
  BY <1>3, <1>4, <1>5 DEF L

(***************************************************************************)
(* Those of TCP.                                                           *)
(***************************************************************************)
LEMMA TCPJsonIs ==
  /\ LayoutOf(TCPJson, 9, Names(TCPJson))
  /\ Names(TCPJson) =
       {"tcpsourcePort", "tcpdestinationPort", "tcpsequence", "tcpacknowledge",
                   "tcpdataOffset", "tcpflags", "tcpwindowSize", "tcpchecksum",
                   "tcpurgentPointer"}
  /\ /\ LayoutTypes(TCPJson)["tcpsourcePort"] = Short
     /\ LayoutTypes(TCPJson)["tcpdestinationPort"] = Short
     /\ LayoutTypes(TCPJson)["tcpsequence"] = [1..4 -> Byte]
     /\ LayoutTypes(TCPJson)["tcpacknowledge"] = [1..4 -> Byte]
     /\ LayoutTypes(TCPJson)["tcpdataOffset"] = Byte
     /\ LayoutTypes(TCPJson)["tcpflags"] = Short
     /\ LayoutTypes(TCPJson)["tcpwindowSize"] = Short
     /\ LayoutTypes(TCPJson)["tcpchecksum"] = Short
     /\ LayoutTypes(TCPJson)["tcpurgentPointer"] = Short
<1> DEFINE L == TCPJson
<1>1. DOMAIN L = 1..9 /\ 1..9 = {1, 2, 3, 4, 5, 6, 7, 8, 9}
  BY DEF TCPJson
<1>2. /\ L[1][1] = "tcpsourcePort" /\ L[1][2] = 2
      /\ L[2][1] = "tcpdestinationPort" /\ L[2][2] = 2
      /\ L[3][1] = "tcpsequence" /\ L[3][2] = 4
      /\ L[4][1] = "tcpacknowledge" /\ L[4][2] = 4
      /\ L[5][1] = "tcpdataOffset" /\ L[5][2] = 1
      /\ L[6][1] = "tcpflags" /\ L[6][2] = 2
      /\ L[7][1] = "tcpwindowSize" /\ L[7][2] = 2
      /\ L[8][1] = "tcpchecksum" /\ L[8][2] = 2
      /\ L[9][1] = "tcpurgentPointer" /\ L[9][2] = 2
  BY DEF TCPJson
<1> HIDE DEF L
<1>3. Names(L) =
       {"tcpsourcePort", "tcpdestinationPort", "tcpsequence", "tcpacknowledge",
                   "tcpdataOffset", "tcpflags", "tcpwindowSize", "tcpchecksum",
                   "tcpurgentPointer"}
  BY <1>1, <1>2 DEF Names
<1>4. LayoutOf(L, 9, Names(L))
  BY <1>1, <1>2, <1>3 DEF LayoutOf
<1>5. /\ LayoutTypes(L)["tcpsourcePort"] = Short
      /\ LayoutTypes(L)["tcpdestinationPort"] = Short
      /\ LayoutTypes(L)["tcpsequence"] = [1..4 -> Byte]
      /\ LayoutTypes(L)["tcpacknowledge"] = [1..4 -> Byte]
      /\ LayoutTypes(L)["tcpdataOffset"] = Byte
      /\ LayoutTypes(L)["tcpflags"] = Short
      /\ LayoutTypes(L)["tcpwindowSize"] = Short
      /\ LayoutTypes(L)["tcpchecksum"] = Short
      /\ LayoutTypes(L)["tcpurgentPointer"] = Short
  BY <1>1, <1>2, <1>4, TypesOfLayout, ValuesOf
<1>6. QED
  BY <1>3, <1>4, <1>5 DEF L

(***************************************************************************)
(* Those of UDP.                                                           *)
(***************************************************************************)
LEMMA UDPJsonIs ==
  /\ LayoutOf(UDPJson, 4, Names(UDPJson))
  /\ Names(UDPJson) =
       {"sourcePort", "destinationPort", "udplength", "udpchecksum"}
  /\ /\ LayoutTypes(UDPJson)["sourcePort"] = Short
     /\ LayoutTypes(UDPJson)["destinationPort"] = Short
     /\ LayoutTypes(UDPJson)["udplength"] = Short
     /\ LayoutTypes(UDPJson)["udpchecksum"] = Short
<1> DEFINE L == UDPJson
<1>1. DOMAIN L = 1..4 /\ 1..4 = {1, 2, 3, 4}
  BY DEF UDPJson
<1>2. /\ L[1][1] = "sourcePort" /\ L[1][2] = 2
      /\ L[2][1] = "destinationPort" /\ L[2][2] = 2
      /\ L[3][1] = "udplength" /\ L[3][2] = 2
      /\ L[4][1] = "udpchecksum" /\ L[4][2] = 2
  BY DEF UDPJson
<1> HIDE DEF L
<1>3. Names(L) =
       {"sourcePort", "destinationPort", "udplength", "udpchecksum"}
  BY <1>1, <1>2 DEF Names
<1>4. LayoutOf(L, 4, Names(L))
  BY <1>1, <1>2, <1>3 DEF LayoutOf
<1>5. /\ LayoutTypes(L)["sourcePort"] = Short
      /\ LayoutTypes(L)["destinationPort"] = Short
      /\ LayoutTypes(L)["udplength"] = Short
      /\ LayoutTypes(L)["udpchecksum"] = Short
  BY <1>1, <1>2, <1>4, TypesOfLayout, ValuesOf
<1>6. QED
  BY <1>3, <1>4, <1>5 DEF L

(***************************************************************************)
(* Those of ICMP.                                                          *)
(***************************************************************************)
LEMMA ICMPJsonIs ==
  /\ LayoutOf(ICMPJson, 5, Names(ICMPJson))
  /\ Names(ICMPJson) =
       {"icmpType", "icmpCode", "icmpchecksum", "icmpidentifier", "icmpsequencnum"}
  /\ /\ LayoutTypes(ICMPJson)["icmpType"] = Byte
     /\ LayoutTypes(ICMPJson)["icmpCode"] = Byte
     /\ LayoutTypes(ICMPJson)["icmpchecksum"] = Short
     /\ LayoutTypes(ICMPJson)["icmpidentifier"] = Short
     /\ LayoutTypes(ICMPJson)["icmpsequencnum"] = Short
<1> DEFINE L == ICMPJson
<1>1. DOMAIN L = 1..5 /\ 1..5 = {1, 2, 3, 4, 5}
  BY DEF ICMPJson
<1>2. /\ L[1][1] = "icmpType" /\ L[1][2] = 1
      /\ L[2][1] = "icmpCode" /\ L[2][2] = 1
      /\ L[3][1] = "icmpchecksum" /\ L[3][2] = 2
      /\ L[4][1] = "icmpidentifier" /\ L[4][2] = 2
      /\ L[5][1] = "icmpsequencnum" /\ L[5][2] = 2
  BY DEF ICMPJson
<1> HIDE DEF L
<1>3. Names(L) =
       {"icmpType", "icmpCode", "icmpchecksum", "icmpidentifier", "icmpsequencnum"}
  BY <1>1, <1>2 DEF Names
<1>4. LayoutOf(L, 5, Names(L))
  BY <1>1, <1>2, <1>3 DEF LayoutOf
<1>5. /\ LayoutTypes(L)["icmpType"] = Byte
      /\ LayoutTypes(L)["icmpCode"] = Byte
      /\ LayoutTypes(L)["icmpchecksum"] = Short
      /\ LayoutTypes(L)["icmpidentifier"] = Short
      /\ LayoutTypes(L)["icmpsequencnum"] = Short
  BY <1>1, <1>2, <1>4, TypesOfLayout, ValuesOf
<1>6. QED
  BY <1>3, <1>4, <1>5 DEF L

-----------------------------------------------------------------------------
(***************************************************************************)
(* The types that the classes have in the Ethernet header are numbers of   *)
(* 16 bits.                                                                *)
(***************************************************************************)
LEMMA TypeNumbers ==
  /\ IPType \in Short /\ ARPType \in Short /\ LLDPType \in Short /\ DSType \in Short
  /\ LinkDataType \in Short /\ STPType \in Short
BY SMT DEF IPType, ARPType, LLDPType, DSType, LinkDataType, STPType, Short

(***************************************************************************)
(* A MAC address of zeros.                                                 *)
(***************************************************************************)
LEMMA ZerosFit == Zeros(6) \in Mac
BY EmptyFits, FitsWide DEF Mac

(***************************************************************************)
(* A new Ethernet packet has the fields of EthernetPacket.                 *)
(***************************************************************************)
LEMMA NewEthernetOf ==
  ASSUME NEW class, NEW type \in Short
  PROVE  Of(NewEthernet(class, type), EtherTypes(class))
<1> DEFINE p == NewEthernet(class, type)
           T == EtherTypes(class)
           z == Zeros(6)
<1>1. z \in Mac /\ 0 \in Short /\ 0 \in Byte /\ NoVlan \in Short
  BY ZerosFit, TagValues
<1>2. DOMAIN T = EtherFields \cup {"class"}
  BY DEF EtherTypes, EtherFields
<1> HIDE DEF z
<1>3. Function(p, EtherFields \cup {"class"})
  BY DEF NewEthernet, EtherFields, Function, z
<1>4. /\ p["class"] = class /\ p["dmac"] = z /\ p["smac"] = z /\ p["ethtype"] = type
      /\ p["priorityCode"] = 0 /\ p["vlanID"] = NoVlan /\ p["qInQPriorityCode"] = 0
      /\ p["qinqVID"] = NoVlan /\ p["qinqTPID"] = 0 /\ p["tci"] = 0
  BY DEF NewEthernet, z
<1>5. Extends(T, T)
  BY DEF Extends
<1>6. EtherIn(T) /\ T["class"] = {class}
  BY <1>5, EtherTypesIn
<1> HIDE DEF p, T
<1>7. \A x \in EtherFields : p[x] \in T[x]
  BY <1>1, <1>4, <1>6 DEF EtherFields, EtherIn
<1>8. Of(p, T)
  BY <1>2, <1>3, <1>4, <1>6, <1>7 DEF Of
<1>9. QED
  BY <1>8 DEF p, T

(***************************************************************************)
(* Any int is written in the two bytes of a short.                         *)
(***************************************************************************)
LEMMA IntWords == \A v \in Int : Bytes(v, 2) \in Seq(Byte) /\ Len(Bytes(v, 2)) = 2
<1>1. ASSUME NEW v \in Int PROVE Bytes(v, 2) \in Seq(Byte) /\ Len(Bytes(v, 2)) = 2
  <2>1. Loose(v, 2)
    BY DEF Loose
  <2>2. QED
    BY <2>1, BytesFit
<1>2. QED
  BY <1>1

(***************************************************************************)
(* Bytes and shorts are ints.                                              *)
(***************************************************************************)
LEMMA ShortBytes ==
  /\ \A v \in Byte : v \in Int
  /\ \A v \in Short : v \in Int /\ Bytes(v, 2) \in Seq(Byte) /\ Len(Bytes(v, 2)) = 2
<1>1. \A v : (v \in Byte => v \in Int) /\ (v \in Short => v \in Int)
  BY DEF Byte, Short
<1>2. QED
  BY <1>1, IntWords

(***************************************************************************)
(* A tag, as EthernetPacket::StreamTo writes it.                           *)
(***************************************************************************)
TagBytes(tpid, priority, vlan) == Bytes(tpid, 2) \o Tci(priority, vlan)

(***************************************************************************)
(* It takes four bytes.                                                    *)
(***************************************************************************)
LEMMA TagWritten ==
  ASSUME NEW tpid \in Short, NEW priority \in Byte, NEW vlan \in Short
  PROVE  TagBytes(tpid, priority, vlan) \in Seq(Byte) /\ Len(TagBytes(tpid, priority, vlan)) = 4
<1>1. priority \in Int /\ vlan \in Int
  BY ShortBytes
<1>2. 8192 * priority + (vlan % 4096) \in Int
  BY <1>1, SMT
<1>3. Tci(priority, vlan) \in Seq(Byte) /\ Len(Tci(priority, vlan)) = 2
  BY <1>2, IntWords DEF Tci
<1>4. Bytes(tpid, 2) \in Seq(Byte) /\ Len(Bytes(tpid, 2)) = 2
  BY ShortBytes
<1> DEFINE a == Bytes(tpid, 2)
           b == Tci(priority, vlan)
<1> HIDE DEF a, b
<1>5. a \o b \in Seq(Byte) /\ Len(a \o b) = 2 + 2
  BY <1>3, <1>4, BytesAndBytes DEF a, b
<1>6. QED
  BY <1>5 DEF TagBytes, a, b

(***************************************************************************)
(* Those bytes, or nothing.                                                *)
(***************************************************************************)
TagOrNone(none, bytes) == IF none THEN <<>> ELSE bytes

(***************************************************************************)
(* How many bytes that is.                                                 *)
(***************************************************************************)
LEMMA NoneOrTag ==
  ASSUME NEW none \in BOOLEAN, NEW bytes \in Seq(Byte), Len(bytes) = 4
  PROVE  /\ TagOrNone(none, bytes) \in Seq(Byte)
         /\ none => Len(TagOrNone(none, bytes)) = 0
         /\ ~none => Len(TagOrNone(none, bytes)) = 4
<1>1. <<>> \in Seq(Byte) /\ Len(<<>>) = 0
  OBVIOUS
<1>2. CASE none
  <2>1. TagOrNone(none, bytes) = <<>>
    BY <1>2 DEF TagOrNone
  <2>2. QED
    BY <1>1, <1>2, <2>1
<1>3. CASE ~none
  <2>1. TagOrNone(none, bytes) = bytes
    BY <1>3 DEF TagOrNone
  <2>2. QED
    BY <1>3, <2>1
<1>4. QED
  BY <1>2, <1>3

(***************************************************************************)
(* The Ethernet header is written in the bytes that                        *)
(* EthernetPacket::GetEncodeSpace counts: 14, 18 or 22.                    *)
(***************************************************************************)
LEMMA EtherWritten ==
  ASSUME NEW T, EtherIn(T), NEW p, Of(p, T)
  PROVE  /\ EthernetStreamTo(p) \in Seq(Byte) /\ Len(EthernetStreamTo(p)) = EthernetLen(p)
         /\ EthernetLen(p) \in Nat /\ EthernetLen(p) <= 22
<1> DEFINE a == p.dmac
           b == p.smac
           outer == TagBytes(p.qinqTPID, p.qInQPriorityCode, p.qinqVID)
           inner == TagBytes(InnerTPID, p.priorityCode, p.vlanID)
           c == TagOrNone(p.qinqVID = NoVlan, outer)
           d == TagOrNone(p.vlanID = NoVlan, inner)
           e == Bytes(p.ethtype, 2)
<1>1. /\ p.dmac \in Mac /\ p.smac \in Mac /\ p.ethtype \in Short /\ p.priorityCode \in Byte
      /\ p.vlanID \in Short /\ p.qInQPriorityCode \in Byte /\ p.qinqVID \in Short /\
           p.qinqTPID \in Short
  BY DEF Of, EtherIn, EtherFields
<1>2. a \in Seq(Byte) /\ Len(a) = 6 /\ b \in Seq(Byte) /\ Len(b) = 6
  BY <1>1, ByteSequence DEF Mac
<1>3. e \in Seq(Byte) /\ Len(e) = 2
  BY <1>1, ShortBytes
<1>4. outer \in Seq(Byte) /\ Len(outer) = 4
  BY <1>1, TagWritten
<1>5. inner \in Seq(Byte) /\ Len(inner) = 4
  BY <1>1, TagWritten, TagValues
<1>6. EthernetStreamTo(p) = a \o b \o c \o d \o e
  BY Zenon DEF EthernetStreamTo, TagOrNone, TagBytes
<1> HIDE DEF a, b, e, outer, inner
<1>7. c \in Seq(Byte) /\ (p.qinqVID = NoVlan => Len(c) = 0) /\ (p.qinqVID # NoVlan => Len(c) = 4)
  BY <1>4, NoneOrTag
<1>8. d \in Seq(Byte) /\ (p.vlanID = NoVlan => Len(d) = 0) /\ (p.vlanID # NoVlan => Len(d) = 4)
  BY <1>5, NoneOrTag
<1> HIDE DEF c, d
<1>9. EthernetLen(p) = 14 + Len(d) + Len(c)
  BY <1>7, <1>8, Zenon DEF EthernetLen
<1>10. (Len(c) = 0 \/ Len(c) = 4) /\ (Len(d) = 0 \/ Len(d) = 4)
  BY <1>7, <1>8, Zenon
<1>11. a \o b \in Seq(Byte) /\ Len(a \o b) = 6 + 6
  BY <1>2, BytesAndBytes
<1>12. a \o b \o c \in Seq(Byte) /\ Len(a \o b \o c) = 6 + 6 + Len(c)
  BY <1>7, <1>11, BytesAndBytes
<1>13. a \o b \o c \o d \in Seq(Byte) /\ Len(a \o b \o c \o d) = 6 + 6 + Len(c) + Len(d)
  BY <1>8, <1>12, BytesAndBytes
<1>14. a \o b \o c \o d \o e \in Seq(Byte) /\
      Len(a \o b \o c \o d \o e) = 6 + 6 + Len(c) + Len(d) + 2
  BY <1>3, <1>13, BytesAndBytes
<1> DEFINE m == Len(c)
           n == Len(d)
           k == EthernetLen(p)
<1>15. k = 14 + n + m /\ (m = 0 \/ m = 4) /\ (n = 0 \/ n = 4)
  BY <1>9, <1>10, Zenon
<1> HIDE DEF m, n, k
<1>16. k \in Nat /\ k <= 22 /\ 6 + 6 + m + n + 2 = k
  BY <1>15
<1>17. QED
  BY <1>6, <1>14, <1>16 DEF m, n, k

(***************************************************************************)
(* Each field of q is the one of to, or, if it is one of X, the one of p.  *)
(***************************************************************************)
Chosen(q, to, p, X, D) ==
  Function(q, D) /\ \A x \in D : q[x] = to[x] \/ (x \in X /\ q[x] = p[x])

(***************************************************************************)
(* One more field of X taken from p.                                       *)
(***************************************************************************)
LEMMA ChosenPut ==
  ASSUME NEW D, NEW q, NEW to, NEW p, NEW X, Chosen(q, to, p, X, D), NEW x \in X \cap D
  PROVE  Chosen(Put(q, x, p[x]), to, p, X, D)
<1>1. Function(q, D)
  BY DEF Chosen
<1>2. /\ Function(Put(q, x, p[x]), D) /\ Put(q, x, p[x])[x] = p[x]
      /\ \A y \in D \ {x} : Put(q, x, p[x])[y] = q[y]
  BY <1>1, Updated
<1>3. QED
  BY <1>2 DEF Chosen

(***************************************************************************)
(* Such a packet has values of T where the two it is made of have.         *)
(***************************************************************************)
LEMMA ChosenOf ==
  ASSUME NEW T, NEW q, NEW to, NEW p, NEW X, Chosen(q, to, p, X, DOMAIN T), Of(to, T), Of(p, T)
  PROVE  Of(q, T)
BY DEF Chosen, Of

(***************************************************************************)
(* EthernetPacket::operator= takes fields of the header from the other     *)
(* packet and leaves the rest.                                             *)
(***************************************************************************)
LEMMA EthernetAssignChooses ==
  ASSUME NEW D, EtherFields \subseteq D, NEW to, NEW p, Function(to, D)
  PROVE  Chosen(EthernetAssign(to, p), to, p, EtherFields, D)
<1> DEFINE a == Put(to, "dmac", p["dmac"])
           b == Put(a, "smac", p["smac"])
           c == Put(b, "ethtype", p["ethtype"])
           d == Put(c, "priorityCode", p["priorityCode"])
           e == Put(d, "qInQPriorityCode", p["qInQPriorityCode"])
           f == Put(e, "vlanID", p["vlanID"])
           g == Put(f, "qinqVID", p["qinqVID"])
           h == Put(g, "qinqTPID", p["qinqTPID"])
<1>1. EthernetAssign(to, p) = h
  BY Zenon DEF EthernetAssign, Put
<1> DEFINE A == EtherFields \cap D
<1>2. /\ "dmac" \in A /\ "smac" \in A /\ "ethtype" \in A /\ "priorityCode" \in A /\ "vlanID" \in A
      /\ "qInQPriorityCode" \in A /\ "qinqVID" \in A /\ "qinqTPID" \in A
  BY DEF EtherFields
<1>3. Chosen(to, to, p, EtherFields, D)
  BY DEF Chosen
<1>4. Chosen(a, to, p, EtherFields, D)
  BY <1>2, <1>3, ChosenPut
<1> HIDE DEF a
<1>5. Chosen(b, to, p, EtherFields, D)
  BY <1>2, <1>4, ChosenPut
<1> HIDE DEF b
<1>6. Chosen(c, to, p, EtherFields, D)
  BY <1>2, <1>5, ChosenPut
<1> HIDE DEF c
<1>7. Chosen(d, to, p, EtherFields, D)
  BY <1>2, <1>6, ChosenPut
<1> HIDE DEF d
<1>8. Chosen(e, to, p, EtherFields, D)
  BY <1>2, <1>7, ChosenPut
<1> HIDE DEF e
<1>9. Chosen(f, to, p, EtherFields, D)
  BY <1>2, <1>8, ChosenPut
<1> HIDE DEF f
<1>10. Chosen(g, to, p, EtherFields, D)
  BY <1>2, <1>9, ChosenPut
<1> HIDE DEF g
<1>11. Chosen(h, to, p, EtherFields, D)
  BY <1>2, <1>10, ChosenPut
<1>12. QED
  BY <1>1, <1>11

(***************************************************************************)
(* So it leaves a packet with the fields T.                                *)
(***************************************************************************)
LEMMA EthernetAssignOf ==
  ASSUME NEW T, EtherIn(T), NEW to, Of(to, T), NEW p, Of(p, T)
  PROVE  Of(EthernetAssign(to, p), T)
<1>1. EtherFields \subseteq DOMAIN T /\ Function(to, DOMAIN T)
  BY DEF EtherIn, Of
<1>2. QED
  BY <1>1, EthernetAssignChooses, ChosenOf

-----------------------------------------------------------------------------
(***************************************************************************)
(* The fields of a class derived from EthernetPacket: its own are U.       *)
(***************************************************************************)
OnEther(class, U) == Joined(EtherTypes(class), U)

(***************************************************************************)
(* They extend both where U names none of the header's.                    *)
(***************************************************************************)
LEMMA OnEtherHas ==
  ASSUME NEW class, NEW U, DOMAIN U \cap (EtherFields \cup {"class"}) = {}
  PROVE  /\ EtherIn(OnEther(class, U)) /\ Extends(OnEther(class, U), U)
         /\ "class" \in DOMAIN OnEther(class, U) /\ OnEther(class, U)["class"] = {class}
<1>1. DOMAIN EtherTypes(class) = EtherFields \cup {"class"}
  BY DEF EtherTypes, EtherFields
<1>2. Extends(OnEther(class, U), EtherTypes(class)) /\ Extends(OnEther(class, U), U)
  BY <1>1, JoinedExtends DEF OnEther
<1>3. QED
  BY <1>2, EtherTypesIn

(***************************************************************************)
(* A new header with new fields of U has them.                             *)
(***************************************************************************)
LEMMA OnEtherOf ==
  ASSUME NEW class, NEW type \in Short, NEW q, NEW U, Of(q, U)
  PROVE  /\ Of(Joined(NewEthernet(class, type), q), OnEther(class, U))
         /\ \A mac \in Mac :
              Of(Joined([NewEthernet(class, type) EXCEPT !.dmac = mac], q), OnEther(class, U))
<1> DEFINE e == NewEthernet(class, type)
           E == EtherTypes(class)
<1>1. Of(e, E)
  BY NewEthernetOf
<1>2. Extends(E, E)
  BY DEF Extends
<1>3. EtherIn(E)
  BY <1>2, EtherTypesIn
<1> HIDE DEF e, E
<1>4. Of(Joined(e, q), Joined(E, U))
  BY <1>1, OfJoined
<1>5. ASSUME NEW mac \in Mac PROVE Of(Joined([e EXCEPT !.dmac = mac], q), Joined(E, U))
  <2>1. Of(Put(e, "dmac", mac), E)
    BY <1>1, <1>3, EtherRoom, PutOf
  <2>2. [e EXCEPT !.dmac = mac] = Put(e, "dmac", mac)
    BY Zenon DEF Put
  <2>3. QED
    BY <2>1, <2>2, OfJoined
<1>6. QED
  BY <1>4, <1>5 DEF e, E, OnEther

(***************************************************************************)
(* A header with a layout behind it: reading it touches no other field,    *)
(* and it is written in the bytes of both.                                 *)
(***************************************************************************)
LEMMA EtherAndFields ==
  ASSUME NEW T, EtherIn(T), NEW L, NEW n, Laid(L, n, T)
  PROVE  /\ \A r : Reads(r, T) => /\ Reads(ReadFields(EthernetStreamFrom(r), L), T)
                                  /\ Moves(r, ReadFields(EthernetStreamFrom(r), L),
                                       EtherFields \cup Names(L), T)
         /\ \A p : Of(p, T) =>
              /\ EthernetStreamTo(p) \o WriteFields(p, L) \in Seq(Byte)
              /\ Len(EthernetStreamTo(p) \o WriteFields(p, L)) = EthernetLen(p) + Width(L)
              /\ EthernetLen(p) \in Nat
<1>1. ASSUME NEW r, Reads(r, T)
      PROVE  Moves(r, ReadFields(EthernetStreamFrom(r), L), EtherFields \cup Names(L), T)
  <2> DEFINE s == EthernetStreamFrom(r)
  <2>1. Moves(r, s, EtherFields, T)
    BY <1>1, EtherMoves
  <2> HIDE DEF s
  <2>2. Reads(s, T)
    BY <2>1 DEF Moves
  <2>3. Names(L) \subseteq Names(L)
    OBVIOUS
  <2>4. Moves(s, ReadFields(s, L), Names(L), T)
    BY <2>2, <2>3, LaidRead
  <2>5. Moves(r, ReadFields(s, L), EtherFields \cup Names(L), T)
    BY <2>1, <2>4, MovesOn
  <2>6. QED
    BY <2>5 DEF s
<1>2. ASSUME NEW p, Of(p, T)
      PROVE  /\ EthernetStreamTo(p) \o WriteFields(p, L) \in Seq(Byte)
             /\ Len(EthernetStreamTo(p) \o WriteFields(p, L)) = EthernetLen(p) + Width(L)
             /\ EthernetLen(p) \in Nat
  <2>1. /\ EthernetStreamTo(p) \in Seq(Byte) /\ Len(EthernetStreamTo(p)) = EthernetLen(p)
        /\ EthernetLen(p) \in Nat
    BY <1>2, EtherWritten
  <2>2. WriteFields(p, L) \in Seq(Byte) /\ Len(WriteFields(p, L)) = Width(L)
    BY <1>2, LaidWritten
  <2> DEFINE a == EthernetStreamTo(p)
             b == WriteFields(p, L)
  <2> HIDE DEF a, b
  <2>3. a \o b \in Seq(Byte) /\ Len(a \o b) = Len(a) + Len(b)
    BY <2>1, <2>2, BytesAndBytes DEF a, b
  <2>4. QED
    BY <2>1, <2>2, <2>3 DEF a, b
<1>3. \A r : Reads(r, T) => Reads(ReadFields(EthernetStreamFrom(r), L), T)
  BY <1>1 DEF Moves
<1>4. QED
  BY <1>1, <1>2, <1>3, Zenon

-----------------------------------------------------------------------------

(***************************************************************************)
(* The fields of ARP (ARP.h).                                              *)
(***************************************************************************)
ARPTypes == OnEther("ARP", LayoutTypes(ARPFields))

(***************************************************************************)
(* What they are.                                                          *)
(***************************************************************************)
LEMMA ARPTypesHave ==
  /\ EtherIn(ARPTypes) /\ ARPTypes["class"] = {"ARP"} /\ "class" \in DOMAIN ARPTypes
  /\ Laid(ARPFields, 9, ARPTypes)
<1>1. /\ LayoutOf(ARPFields, 9, Names(ARPFields))
      /\ DOMAIN LayoutTypes(ARPFields) \cap (EtherFields \cup {"class"}) = {}
  BY ARPFieldsIs, TypesOfLayout DEF EtherFields
<1>2. QED
  BY <1>1, OnEtherHas, ExtendsLaid DEF ARPTypes

(***************************************************************************)
(* A new ARP packet has them.                                              *)
(***************************************************************************)
LEMMA NewARPOf == Of(NewARP, ARPTypes)
<1>1. Of(Cleared(ARPFields), LayoutTypes(ARPFields))
  BY ARPFieldsIs, ClearedOf
<1>2. QED
  BY <1>1, OnEtherOf, TypeNumbers DEF NewARP, ARPTypes

(***************************************************************************)
(* What is read from any bytes has them.                                   *)
(***************************************************************************)
LEMMA ARPReads ==
  ASSUME NEW r, Reads(r, ARPTypes)
  PROVE  Reads(ARPStreamFrom(r), ARPTypes)
BY ARPTypesHave, EtherAndFields DEF ARPStreamFrom

(***************************************************************************)
(* So many bytes.                                                          *)
(***************************************************************************)
Exactly(bytes, size) == bytes \in Seq(Byte) /\ Len(bytes) = size

(***************************************************************************)
(* ARP writes the bytes its GetEncodeSpace counts.                         *)
(***************************************************************************)
LEMMA ARPWritten ==
  ASSUME NEW p, Of(p, ARPTypes)
  PROVE  Exactly(ARPStreamTo(p), ARPLen(p))
<1>1. /\ EthernetStreamTo(p) \o WriteFields(p, ARPFields) \in Seq(Byte)
      /\ Len(EthernetStreamTo(p) \o WriteFields(p, ARPFields)) = EthernetLen(p) + Width(ARPFields)
  BY ARPTypesHave, EtherAndFields
<1>2. QED
  BY <1>1, Zenon DEF ARPStreamTo, ARPLen, Exactly

-----------------------------------------------------------------------------

(***************************************************************************)
(* The fields of a payload whose size is written before it.                *)
(***************************************************************************)
DataTypes == [datasize |-> Short, data |-> Seq(Byte)]

(***************************************************************************)
(* The size counts no more than the payload has.                           *)
(***************************************************************************)
DataHeld(p) == p.datasize <= Len(p.data)

(***************************************************************************)
(* An empty payload.                                                       *)
(***************************************************************************)
LEMMA NoDataOf == Of(NoData, DataTypes) /\ DataHeld(NoData)
<1>1. <<>> \in Seq(Byte) /\ 0 \in Short /\ 0 <= Len(<<>>)
  BY TagValues
<1>2. DOMAIN DataTypes = {"datasize", "data"} /\ DataTypes["datasize"] = Short /\
               DataTypes["data"] = Seq(Byte)
  BY DEF DataTypes
<1>3. Function(NoData, {"datasize", "data"}) /\ NoData["datasize"] = 0 /\ NoData["data"] = <<>>
  BY DEF NoData, Function
<1>4. Of(NoData, DataTypes)
  BY <1>1, <1>2, <1>3 DEF Of
<1>5. QED
  BY <1>1, <1>3, <1>4 DEF DataHeld

(***************************************************************************)
(* T has these fields.                                                     *)
(***************************************************************************)
DataIn(T) ==
  /\ {"datasize", "data"} \subseteq DOMAIN T /\ T["datasize"] = Short /\ T["data"] = Seq(Byte)

(***************************************************************************)
(* A payload that was read is as long as the size says.                    *)
(***************************************************************************)
LEMMA ReadDataOf ==
  ASSUME NEW T, DataIn(T), NEW r, Reads(r, T)
  PROVE  /\ Moves(r, ReadData(r), {"data"}, T) /\ Reads(ReadData(r), T)
         /\ ReadData(r).good => DataHeld(ReadData(r).p)
<1>1. /\ "datasize" \in DOMAIN T /\ "data" \in DOMAIN T /\ T["datasize"] = Short /\
           T["data"] = Seq(Byte)
      /\ "datasize" # "data"
  BY DEF DataIn
<1>2. r.p.datasize \in Short
  BY <1>1 DEF Reads, Of
<1>3. r.p.datasize \in Nat
  BY <1>2 DEF Short
<1>4. CASE r.p.datasize > 0
  <2> DEFINE k == r.p.datasize
             s == ReadBytes(r, "data", k)
  <2>1. ReadData(r) = s
    BY <1>4, Zenon DEF ReadData
  <2>2. k \in Nat /\ \A b \in Seq(Byte) : Len(b) = k => b \in T["data"]
    BY <1>1, <1>3
  <2> HIDE DEF k
  <2>3. Moves(r, s, {"data"}, T) /\ (s.good => s.p["data"] \in Seq(Byte) /\ Len(s.p["data"]) = k)
    BY <1>1, <2>2, BytesMove
  <2> HIDE DEF s
  <2>4. s.p["datasize"] = r.p["datasize"] /\ Reads(s, T)
    BY <1>1, <2>3 DEF Moves
  <2>5. s.good => DataHeld(s.p)
    BY <1>3, <2>3, <2>4 DEF DataHeld, k
  <2>6. QED
    BY <2>1, <2>3, <2>4, <2>5
<1>5. CASE ~(r.p.datasize > 0)
  <2>1. ReadData(r) = r
    BY <1>5, Zenon DEF ReadData
  <2>2. r.p.datasize = 0
    BY <1>3, <1>5
  <2>3. DataHeld(r.p)
    <3> DEFINE d == r.p.data
    <3>1. d \in Seq(Byte)
      BY <1>1 DEF Reads, Of
    <3>2. Len(d) \in Nat
      BY <3>1
    <3>3. QED
      BY <2>2, <3>2 DEF DataHeld
  <2>4. QED
    BY <2>1, <2>3, MovesNone
<1>6. QED
  BY <1>4, <1>5

(***************************************************************************)
(* It is written in as many bytes as the size says.                        *)
(***************************************************************************)
LEMMA DataWritten ==
  ASSUME NEW T, DataIn(T), NEW p, Of(p, T), DataHeld(p), NEW h, NEW n \in Nat, Exactly(h, n)
  PROVE  Exactly(h \o SubSeq(p.data, 1, p.datasize), n + p.datasize)
<1>1. p.datasize \in Short /\ p.data \in Seq(Byte)
  BY DEF DataIn, Of
<1>2. p.datasize \in Nat /\ p.datasize <= Len(p.data)
  BY <1>1 DEF Short, DataHeld
<1> DEFINE a == p.data
           k == p.datasize
           b == SubSeq(a, 1, k)
<1>3. a \in Seq(Byte) /\ k \in Nat /\ k <= Len(a)
  BY <1>1, <1>2
<1> HIDE DEF a, k
<1>4. b \in Seq(Byte) /\ Len(b) = k
  BY <1>3, RestOf
<1> HIDE DEF b
<1>5. h \o b \in Seq(Byte) /\ Len(h \o b) = n + k
  BY <1>4, BytesAndBytes DEF Exactly
<1>6. QED
  BY <1>5 DEF Exactly, a, b, k

(***************************************************************************)
(* A copy of the payload is one.                                           *)
(***************************************************************************)
LEMMA DataAssignOf ==
  ASSUME NEW T, DataIn(T), NEW to, Of(to, T), NEW p, Of(p, T), DataHeld(p)
  PROVE  Of(DataAssign(to, p), T) /\ DataHeld(DataAssign(to, p))
<1> DEFINE k == p.datasize
           d == SubSeq(p.data, 1, k)
           q == Put(to, "datasize", k)
           s == Put(q, "data", d)
<1>1. p.datasize \in Short /\ p.data \in Seq(Byte)
  BY DEF DataIn, Of
<1>2. k \in Nat /\ k <= Len(p.data)
  BY <1>1 DEF Short, DataHeld
<1>3. d \in Seq(Byte) /\ Len(d) = k
  BY <1>1, <1>2, RestOf
<1>4. DataAssign(to, p) = s
  BY Zenon DEF DataAssign, Put
<1> HIDE DEF d
<1>5. Room(T, "datasize", k) /\ Room(T, "data", d) /\ "datasize" \in DOMAIN T
  BY <1>1, <1>3 DEF Room, DataIn
<1> HIDE DEF k
<1>6. Of(q, T) /\ q["datasize"] = k
  BY <1>5, PutOf
<1> HIDE DEF q
<1>7. Of(s, T) /\ s["data"] = d /\ s["datasize"] = q["datasize"]
  BY <1>5, <1>6, PutOf
<1> HIDE DEF s
<1>8. DataHeld(s)
  BY <1>2, <1>3, <1>6, <1>7 DEF DataHeld
<1>9. QED
  BY <1>4, <1>7, <1>8

(***************************************************************************)
(* A payload and its size are set.                                         *)
(***************************************************************************)
DataPut(p, d, k) == Put(Put(p, "data", d), "datasize", k)

(***************************************************************************)
(* The size counts no more than the payload, if it did when set.           *)
(***************************************************************************)
LEMMA DataPutOf ==
  ASSUME NEW T, DataIn(T), NEW p, Of(p, T), NEW d \in Seq(Byte), NEW k \in Short, k <= Len(d)
  PROVE  Of(DataPut(p, d, k), T) /\ DataHeld(DataPut(p, d, k))
<1> DEFINE e == Put(p, "data", d)
           q == Put(e, "datasize", k)
<1>1. Room(T, "datasize", k) /\ Room(T, "data", d) /\ "data" \in DOMAIN T
  BY DEF Room, DataIn
<1>2. Of(e, T) /\ e["data"] = d
  BY <1>1, PutOf
<1> HIDE DEF e
<1>3. Of(q, T) /\ q["datasize"] = k /\ q["data"] = e["data"]
  BY <1>1, <1>2, PutOf
<1> HIDE DEF q
<1>4. DataHeld(q)
  BY <1>2, <1>3 DEF DataHeld
<1>5. QED
  BY <1>3, <1>4 DEF DataPut, e, q

(***************************************************************************)
(* The form it has in the model.                                           *)
(***************************************************************************)
LEMMA DataPutIs ==
  ASSUME NEW p, NEW d, NEW k
  PROVE  [p EXCEPT !.data = d, !.datasize = k] = DataPut(p, d, k)
BY Zenon DEF DataPut, Put

(***************************************************************************)
(* A payload of any length is set, cut to the size that fits 16 bits.      *)
(***************************************************************************)
LEMMA SetPayloadOf ==
  ASSUME NEW T, DataIn(T), NEW p, Of(p, T), NEW data \in Seq(Byte)
  PROVE  Of(SetPayload(p, data), T) /\ DataHeld(SetPayload(p, data))
<1>1. CASE data = <<>>
  <2>1. SetPayload(p, data) = DataPut(p, <<>>, 0)
    <3>1. SetPayload(p, data) = [p EXCEPT !.data = <<>>, !.datasize = 0]
      BY <1>1, SMT DEF SetPayload
    <3>2. QED
      BY <3>1, DataPutIs, Zenon
  <2>2. <<>> \in Seq(Byte) /\ 0 \in Short /\ 0 <= Len(<<>>)
    BY TagValues
  <2>3. QED
    BY <2>1, <2>2, DataPutOf
<1>2. CASE data # <<>>
  <2> DEFINE k == Len(data) % 65536
  <2>1. SetPayload(p, data) = DataPut(p, data, k)
    <3>1. SetPayload(p, data) = [p EXCEPT !.data = data, !.datasize = Len(data) % 65536]
      BY <1>2, SMT DEF SetPayload
    <3> DEFINE m == Len(data) % 65536
    <3> HIDE DEF m
    <3>2. [p EXCEPT !.data = data, !.datasize = m] = DataPut(p, data, m)
      BY DataPutIs
    <3>3. QED
      BY <3>1, <3>2, SMT DEF m
  <2>2. k \in Short /\ k <= Len(data)
    <3> DEFINE n == Len(data)
    <3>1. n \in Nat
      OBVIOUS
    <3> HIDE DEF n
    <3>2. n % 65536 \in Short /\ n % 65536 <= n
      BY <3>1, SMT DEF Short
    <3>3. QED
      BY <3>2 DEF n
  <2> HIDE DEF k
  <2>3. QED
    BY <2>1, <2>2, DataPutOf
<1>3. QED
  BY <1>1, <1>2

-----------------------------------------------------------------------------

(***************************************************************************)
(* The fields of STP (STP.h).                                              *)
(***************************************************************************)
STPTypes == OnEther("STP", DataTypes)

(***************************************************************************)
(* What they are.                                                          *)
(***************************************************************************)
LEMMA STPTypesHave ==
  /\ EtherIn(STPTypes) /\ STPTypes["class"] = {"STP"} /\ "class" \in DOMAIN STPTypes
  /\ DataIn(STPTypes) /\ Laid(DataSize, 1, STPTypes)
<1>1. DOMAIN DataTypes = {"datasize", "data"} /\ DataTypes["datasize"] = Short /\
               DataTypes["data"] = Seq(Byte)
  BY DEF DataTypes
<1>2. DOMAIN DataTypes \cap (EtherFields \cup {"class"}) = {}
  BY <1>1 DEF EtherFields
<1>3. /\ EtherIn(STPTypes) /\ STPTypes["class"] = {"STP"} /\ "class" \in DOMAIN STPTypes
      /\ Extends(STPTypes, DataTypes)
  BY <1>2, OnEtherHas DEF STPTypes
<1>4. DataIn(STPTypes)
  BY <1>1, <1>3 DEF DataIn, Extends
<1>5. Extends(STPTypes, LayoutTypes(DataSize))
  BY <1>4, DataSizeIs, TypesOfLayout DEF Extends, DataIn
<1>6. QED
  BY <1>3, <1>4, <1>5, DataSizeIs, ExtendsLaid

-----------------------------------------------------------------------------
(***************************************************************************)
(* The addresses the protocols send to are MAC addresses.                  *)
(***************************************************************************)
LEMMA MacsFit ==
  /\ STPMac \in Mac /\ <<\h01, \h80, \hC2, \h00, \h00, \h03>> \in Mac
  /\ <<\h02, \heb, \h9f, \h66, \hc8, \h44>> \in Mac
  /\ <<\h01, \h80, \hc2, \h00, \h00, \h0e>> \in Mac
BY SMT DEF STPMac, Mac, Byte

(***************************************************************************)
(* A new STP packet has its fields.                                        *)
(***************************************************************************)
LEMMA NewSTPOf == Of(NewSTP, STPTypes) /\ DataHeld(NewSTP)
<1>1. Of(NewSTP, STPTypes)
  BY NoDataOf, OnEtherOf, TypeNumbers, MacsFit DEF NewSTP, STPTypes
<1> DEFINE e == [NewEthernet("STP", STPType) EXCEPT !.dmac = STPMac]
<1>2. DOMAIN e = EtherFields \cup {"class"}
  BY DEF NewEthernet, EtherFields
<1>3. NewSTP = Joined(e, NoData)
  BY Zenon DEF NewSTP
<1> HIDE DEF e
<1>4. NoData.datasize = 0 /\ NoData.data = <<>> /\ DOMAIN NoData = {"datasize", "data"}
  BY DEF NoData
<1>5. NewSTP["datasize"] = NoData["datasize"] /\ NewSTP["data"] = NoData["data"]
  <2>1. \A x \in DOMAIN NoData \ DOMAIN e : Joined(e, NoData)[x] = NoData[x]
    BY JoinedIs
  <2>2. "datasize" \in DOMAIN NoData \ DOMAIN e /\ "data" \in DOMAIN NoData \ DOMAIN e
    BY <1>2, <1>4 DEF EtherFields
  <2>3. QED
    BY <1>3, <2>1, <2>2
<1>6. QED
  BY <1>1, <1>5, NoDataOf DEF DataHeld

(***************************************************************************)
(* What is read from any bytes has them.                                   *)
(***************************************************************************)
LEMMA STPReads ==
  ASSUME NEW r, Reads(r, STPTypes)
  PROVE  /\ Reads(STPStreamFrom(r), STPTypes)
         /\ STPStreamFrom(r).good => DataHeld(STPStreamFrom(r).p)
<1> DEFINE s == ReadFields(EthernetStreamFrom(r), DataSize)
<1>1. Reads(s, STPTypes)
  BY STPTypesHave, EtherAndFields
<1>2. STPStreamFrom(r) = ReadData(s)
  BY DEF STPStreamFrom
<1> HIDE DEF s
<1>3. QED
  BY <1>1, <1>2, STPTypesHave, ReadDataOf

(***************************************************************************)
(* STP writes the bytes its GetEncodeSpace counts.                         *)
(***************************************************************************)
LEMMA STPWritten ==
  ASSUME NEW p, Of(p, STPTypes), DataHeld(p)
  PROVE  Exactly(STPStreamTo(p), STPLen(p))
<1> DEFINE h == EthernetStreamTo(p) \o WriteFields(p, DataSize)
           n == EthernetLen(p) + Width(DataSize)
<1>0. Exactly(h, n) /\ EthernetLen(p) \in Nat
  BY STPTypesHave, EtherAndFields DEF Exactly
<1>1. Exactly(h, n) /\ n \in Nat /\ n = EthernetLen(p) + 2
  <2> DEFINE k == EthernetLen(p)
  <2> HIDE DEF k, h
  <2>1. QED
    BY <1>0, DataSizeIs DEF k
<1>2. STPStreamTo(p) = h \o SubSeq(p.data, 1, p.datasize)
  BY Zenon DEF STPStreamTo
<1> HIDE DEF h, n
<1>3. Exactly(h \o SubSeq(p.data, 1, p.datasize), n + p.datasize)
  BY <1>1, STPTypesHave, DataWritten
<1>4. STPLen(p) = n + p.datasize
  BY <1>1, Zenon DEF STPLen
<1>5. QED
  BY <1>2, <1>3, <1>4

(***************************************************************************)
(* A copy has the fields of STP.                                           *)
(***************************************************************************)
LEMMA STPAssigned ==
  ASSUME NEW p, Of(p, STPTypes), DataHeld(p)
  PROVE  Of(STPAssign(p), STPTypes) /\ DataHeld(STPAssign(p))
<1>1. Of(EthernetAssign(NewSTP, p), STPTypes)
  BY NewSTPOf, STPTypesHave, EthernetAssignOf
<1>2. QED
  BY <1>1, STPTypesHave, DataAssignOf DEF STPAssign

-----------------------------------------------------------------------------

(***************************************************************************)
(* The fields of LinkData (LinkData.h).                                    *)
(***************************************************************************)
LinkTypes == OnEther("LinkData", Joined(LayoutTypes(LinkHead), DataTypes))

(***************************************************************************)
(* The names of those before the payload.                                  *)
(***************************************************************************)
LinkFields == {"dstport", "srcport", "dstdpid", "srcdpid", "xid", "flags"}

(***************************************************************************)
(* What they are.                                                          *)
(***************************************************************************)
LEMMA LinkTypesHave ==
  /\ EtherIn(LinkTypes) /\ LinkTypes["class"] = {"LinkData"} /\ "class" \in DOMAIN LinkTypes
  /\ DataIn(LinkTypes) /\ Laid(LinkHead \o DataSize, 7, LinkTypes)
  /\ LinkFields \subseteq DOMAIN LinkTypes
<1> DEFINE U == Joined(LayoutTypes(LinkHead), DataTypes)
<1>1. DOMAIN DataTypes = {"datasize", "data"} /\ DataTypes["datasize"] = Short /\
               DataTypes["data"] = Seq(Byte)
  BY DEF DataTypes
<1>2. DOMAIN LayoutTypes(LinkHead) = LinkFields
  BY LinkHeadIs, TypesOfLayout DEF LinkFields
<1>3. DOMAIN U = LinkFields \cup {"datasize", "data"}
  BY <1>1, <1>2, JoinedIs
<1>4. DOMAIN LayoutTypes(LinkHead) \cap DOMAIN DataTypes = {}
  BY <1>1, <1>2 DEF LinkFields
<1>5. Extends(U, LayoutTypes(LinkHead)) /\ Extends(U, DataTypes)
  BY <1>4, JoinedExtends
<1> HIDE DEF U
<1>6. DOMAIN U \cap (EtherFields \cup {"class"}) = {}
  BY <1>3 DEF EtherFields, LinkFields
<1>7. /\ EtherIn(LinkTypes) /\ LinkTypes["class"] = {"LinkData"} /\ "class" \in DOMAIN LinkTypes
      /\ Extends(LinkTypes, U)
  BY <1>6, OnEtherHas DEF LinkTypes, U
<1>8. Extends(LinkTypes, LayoutTypes(LinkHead)) /\ Extends(LinkTypes, DataTypes)
  BY <1>5, <1>7, ExtendsSteps
<1>9. DataIn(LinkTypes) /\ LinkFields \subseteq DOMAIN LinkTypes
  BY <1>1, <1>2, <1>8 DEF DataIn, Extends
<1>10. Extends(LinkTypes, LayoutTypes(LinkHead \o DataSize))
  <2> DEFINE V == LayoutTypes(LinkHead \o DataSize)
             W == LayoutTypes(LinkHead)
  <2>1. DOMAIN V = LinkFields \cup {"datasize"}
    BY LinkLayoutIs, TypesOfLayout DEF LinkFields
  <2>2. V["datasize"] = Short /\ \A x \in LinkFields : V[x] = W[x]
    BY LinkLayoutIs, LinkHeadIs DEF LinkFields
  <2> HIDE DEF V, W
  <2>3. DOMAIN W = LinkFields /\ Extends(LinkTypes, W)
    BY <1>2, <1>8 DEF W
  <2>4. Extends(LinkTypes, V)
    BY <1>9, <2>1, <2>2, <2>3 DEF Extends, DataIn
  <2>5. QED
    BY <2>4 DEF V
<1>11. QED
  BY <1>7, <1>9, <1>10, LinkLayoutIs, ExtendsLaid

(***************************************************************************)
(* A new LinkData packet has them.                                         *)
(***************************************************************************)
LEMMA NewLinkDataOf == Of(NewLinkData, LinkTypes)
<1>1. Of(Cleared(LinkHead), LayoutTypes(LinkHead))
  BY LinkHeadIs, ClearedOf
<1>2. Of(Joined(Cleared(LinkHead), NoData), Joined(LayoutTypes(LinkHead), DataTypes))
  BY <1>1, NoDataOf, OfJoined
<1>3. QED
  BY <1>2, OnEtherOf, TypeNumbers DEF NewLinkData, LinkTypes

(***************************************************************************)
(* What is read from any bytes has them.                                   *)
(***************************************************************************)
LEMMA LinkReads ==
  ASSUME NEW r, Reads(r, LinkTypes)
  PROVE  /\ Reads(LinkDataStreamFrom(r), LinkTypes)
         /\ LinkDataStreamFrom(r).good => DataHeld(LinkDataStreamFrom(r).p)
<1> DEFINE s == ReadFields(EthernetStreamFrom(r), LinkHead \o DataSize)
<1>1. Reads(s, LinkTypes)
  BY LinkTypesHave, EtherAndFields
<1>2. LinkDataStreamFrom(r) = ReadData(s)
  BY DEF LinkDataStreamFrom
<1> HIDE DEF s
<1>3. QED
  BY <1>1, <1>2, LinkTypesHave, ReadDataOf

(***************************************************************************)
(* LinkData writes the bytes its GetEncodeSpace counts.                    *)
(***************************************************************************)
LEMMA LinkWritten ==
  ASSUME NEW p, Of(p, LinkTypes), DataHeld(p)
  PROVE  Exactly(LinkDataStreamTo(p), LinkDataLen(p))
<1> DEFINE L == LinkHead \o DataSize
           h == EthernetStreamTo(p) \o WriteFields(p, L)
           n == EthernetLen(p) + Width(L)
<1>0. Exactly(h, n) /\ EthernetLen(p) \in Nat
  BY LinkTypesHave, EtherAndFields DEF Exactly
<1>1. Exactly(h, n) /\ n \in Nat /\ n = EthernetLen(p) + Width(LinkHead) + 2
  <2> DEFINE k == EthernetLen(p)
  <2> HIDE DEF k, h
  <2>1. QED
    BY <1>0, LinkLayoutIs, LinkHeadIs DEF k
<1>2. LinkDataStreamTo(p) = h \o SubSeq(p.data, 1, p.datasize)
  BY Zenon DEF LinkDataStreamTo
<1> HIDE DEF h, n
<1>3. Exactly(h \o SubSeq(p.data, 1, p.datasize), n + p.datasize)
  BY <1>1, LinkTypesHave, DataWritten
<1>4. LinkDataLen(p) = n + p.datasize
  BY <1>1, Zenon DEF LinkDataLen
<1>5. QED
  BY <1>2, <1>3, <1>4

(***************************************************************************)
(* A copy has the fields of LinkData.                                      *)
(***************************************************************************)
LEMMA LinkAssigned ==
  ASSUME NEW p, Of(p, LinkTypes), DataHeld(p)
  PROVE  Of(LinkDataAssign(p), LinkTypes) /\ DataHeld(LinkDataAssign(p))
<1> DEFINE to == DataAssign(EthernetAssign(NewLinkData, p), p)
           D == DOMAIN LinkTypes
           a == Put(to, "dstport", p["dstport"])
           b == Put(a, "srcport", p["srcport"])
           c == Put(b, "dstdpid", p["dstdpid"])
           d == Put(c, "srcdpid", p["srcdpid"])
           e == Put(d, "xid", p["xid"])
           f == Put(e, "flags", p["flags"])
           Goes(q) == Chosen(q, to, p, LinkFields, D)
<1>1. Of(EthernetAssign(NewLinkData, p), LinkTypes)
  BY NewLinkDataOf, LinkTypesHave, EthernetAssignOf
<1>2. Of(to, LinkTypes) /\ DataHeld(to)
  BY <1>1, LinkTypesHave, DataAssignOf
<1>3. LinkDataAssign(p) = f
  BY Zenon DEF LinkDataAssign, Put
<1> HIDE DEF to
<1>4. \A x \in LinkFields : \A q : Goes(q) => Goes(Put(q, x, p[x]))
  BY LinkTypesHave, ChosenPut
<1>5. /\ "dstport" \in LinkFields /\ "srcport" \in LinkFields /\ "dstdpid" \in LinkFields
      /\ "srcdpid" \in LinkFields /\ "xid" \in LinkFields /\ "flags" \in LinkFields
  BY DEF LinkFields
<1>6. Goes(to)
  BY <1>2 DEF Chosen, Of
<1> HIDE DEF Goes
<1>7. Goes(c)
  BY <1>4, <1>5, <1>6
<1> HIDE DEF c
<1>8. Goes(f)
  BY <1>4, <1>5, <1>7
<1> HIDE DEF f
<1>9. Of(f, LinkTypes)
  BY <1>2, <1>8, ChosenOf DEF Goes
<1>10. f["data"] = to["data"] /\ f["datasize"] = to["datasize"]
  BY <1>8, LinkTypesHave DEF Goes, Chosen, LinkFields, DataIn
<1>11. QED
  BY <1>2, <1>3, <1>9, <1>10 DEF DataHeld

-----------------------------------------------------------------------------
(***************************************************************************)
(* The fields of DS (DS.h).                                                *)
(***************************************************************************)
DSTypes == OnEther("DS", LayoutTypes(DSFields))

(***************************************************************************)
(* The names of its own.                                                   *)
(***************************************************************************)
DSNames == {"length", "flags", "senderport", "peerport", "senderdp", "peerdp", "sendcost",
            "fromclusterid", "fromdatacenterid", "toclusterid", "todatacenterid"}

(***************************************************************************)
(* What they are.                                                          *)
(***************************************************************************)
LEMMA DSTypesHave ==
  /\ EtherIn(DSTypes) /\ DSTypes["class"] = {"DS"} /\ "class" \in DOMAIN DSTypes
  /\ Laid(DSFields, 11, DSTypes) /\ DSNames \subseteq DOMAIN DSTypes
  /\ DSTypes["length"] = [1..4 -> Byte]
<1>1. /\ LayoutOf(DSFields, 11, Names(DSFields)) /\ DOMAIN LayoutTypes(DSFields) = DSNames
      /\ LayoutTypes(DSFields)["length"] = [1..4 -> Byte]
  BY DSFieldsIs, TypesOfLayout DEF DSNames
<1>2. DSNames \cap (EtherFields \cup {"class"}) = {} /\ "length" \in DSNames
  BY DEF EtherFields, DSNames
<1>3. /\ EtherIn(DSTypes) /\ DSTypes["class"] = {"DS"} /\ "class" \in DOMAIN DSTypes
      /\ Extends(DSTypes, LayoutTypes(DSFields))
  BY <1>1, <1>2, OnEtherHas DEF DSTypes
<1>4. DSNames \subseteq DOMAIN DSTypes /\ DSTypes["length"] = [1..4 -> Byte]
  BY <1>1, <1>2, <1>3 DEF Extends
<1>5. QED
  BY <1>1, <1>3, <1>4, ExtendsLaid

(***************************************************************************)
(* A new DS packet has them.                                               *)
(***************************************************************************)
LEMMA NewDSOf == Of(NewDS, DSTypes)
<1> DEFINE mac == <<\h01, \h80, \hC2, \h00, \h00, \h03>>
           mac2 == <<\h02, \heb, \h9f, \h66, \hc8, \h44>>
           n == NewEthernet("DS", DSType)
           e == Put(Put(n, "dmac", mac), "smac", mac2)
           E == EtherTypes("DS")
<1>1. Of(n, E)
  BY NewEthernetOf, TypeNumbers
<1>2. EtherIn(E)
  <2>1. Extends(E, E)
    BY DEF Extends
  <2>2. QED
    BY <2>1, EtherTypesIn
<1>3. mac \in Mac /\ mac2 \in Mac
  BY MacsFit
<1>4. NewDS = Joined(e, Cleared(DSFields))
  BY Zenon DEF NewDS, Put
<1> HIDE DEF mac, mac2, n, E
<1>5. Of(Put(n, "dmac", mac), E)
  BY <1>1, <1>2, <1>3, EtherRoom, PutOf
<1>6. Of(e, E)
  BY <1>2, <1>3, <1>5, EtherRoom, PutOf
<1>7. Of(Cleared(DSFields), LayoutTypes(DSFields))
  BY DSFieldsIs, ClearedOf
<1> HIDE DEF e
<1>8. QED
  BY <1>4, <1>6, <1>7, OfJoined DEF DSTypes, OnEther, E

(***************************************************************************)
(* What is read from any bytes has them.                                   *)
(***************************************************************************)
LEMMA DSReads ==
  ASSUME NEW r, Reads(r, DSTypes)
  PROVE  Reads(DSStreamFrom(r), DSTypes)
BY DSTypesHave, EtherAndFields DEF DSStreamFrom

(***************************************************************************)
(* The length that DS::Encode sets.                                        *)
(***************************************************************************)
DSLength == <<0, 0, 0, DSSize>>

(***************************************************************************)
(* Setting it changes nothing else.                                        *)
(***************************************************************************)
LEMMA DSPrepared ==
  ASSUME NEW p, Of(p, DSTypes)
  PROVE  /\ Of([p EXCEPT !.length = <<0, 0, 0, DSSize>>], DSTypes)
         /\ EthernetStreamTo([p EXCEPT !.length = <<0, 0, 0, DSSize>>]) = EthernetStreamTo(p)
         /\ EthernetLen([p EXCEPT !.length = <<0, 0, 0, DSSize>>]) = EthernetLen(p)
<1> DEFINE q == Put(p, "length", DSLength)
<1>1. DSLength \in [1..4 -> Byte]
  BY DEF DSLength, DSSize, Byte
<1>2. [p EXCEPT !.length = <<0, 0, 0, DSSize>>] = q
  BY Zenon DEF Put, DSLength
<1>3. Room(DSTypes, "length", DSLength)
  BY <1>1, DSTypesHave DEF Room, DSNames
<1>4. Of(q, DSTypes) /\ \A y \in DOMAIN DSTypes \ {"length"} : q[y] = p[y]
  BY <1>3, PutOf
<1> HIDE DEF q
<1>5. \A y \in EtherFields : q[y] = p[y]
  BY <1>4, DSTypesHave DEF EtherIn, EtherFields
<1>6. /\ q.dmac = p.dmac /\ q.smac = p.smac /\ q.ethtype = p.ethtype /\ q.vlanID = p.vlanID
      /\ q.priorityCode = p.priorityCode /\ q.qinqVID = p.qinqVID /\ q.qinqTPID = p.qinqTPID
      /\ q.qInQPriorityCode = p.qInQPriorityCode
  BY <1>5 DEF EtherFields
<1>7. EthernetStreamTo(q) = EthernetStreamTo(p) /\ EthernetLen(q) = EthernetLen(p)
  BY <1>6, Zenon DEF EthernetStreamTo, EthernetLen
<1>8. QED
  BY <1>2, <1>4, <1>7

(***************************************************************************)
(* DS writes the bytes its GetEncodeSpace counts.                          *)
(***************************************************************************)
LEMMA DSWritten ==
  ASSUME NEW p, Of(p, DSTypes)
  PROVE  Exactly(DSStreamTo(p), DSLen(p))
<1> DEFINE q == [p EXCEPT !.length = <<0, 0, 0, DSSize>>]
<1>1. Of(q, DSTypes) /\ EthernetStreamTo(q) = EthernetStreamTo(p) /\ EthernetLen(q) = EthernetLen(p)
  BY DSPrepared
<1>2. DSStreamTo(p) = EthernetStreamTo(p) \o WriteFields(q, DSFields)
  BY Zenon DEF DSStreamTo
<1> HIDE DEF q
<1>3. /\ EthernetStreamTo(q) \o WriteFields(q, DSFields) \in Seq(Byte)
      /\ Len(EthernetStreamTo(q) \o WriteFields(q, DSFields)) = EthernetLen(q) + Width(DSFields)
      /\ EthernetLen(q) \in Nat
  BY <1>1, DSTypesHave, EtherAndFields
<1> DEFINE k == EthernetLen(p)
<1>4. DSLen(p) = k + Width(DSFields) /\ k \in Nat
  <2>1. DSLen(p) = 52 + k /\ k \in Nat
    BY <1>1, <1>3 DEF DSLen, DSSize
  <2> HIDE DEF k
  <2>2. QED
    BY <2>1, DSFieldsIs
<1>5. QED
  BY <1>1, <1>2, <1>3, <1>4, Zenon DEF Exactly

(***************************************************************************)
(* A copy has the fields of DS.                                            *)
(***************************************************************************)
LEMMA DSAssigned ==
  ASSUME NEW p, Of(p, DSTypes)
  PROVE  Of(DSAssign(p), DSTypes)
<1> DEFINE to == EthernetAssign(NewDS, p)
           D == DOMAIN DSTypes
           a == Put(to, "length", p["length"])
           b == Put(a, "flags", p["flags"])
           c == Put(b, "senderport", p["senderport"])
           d == Put(c, "peerport", p["peerport"])
           e == Put(d, "senderdp", p["senderdp"])
           f == Put(e, "peerdp", p["peerdp"])
           g == Put(f, "sendcost", p["sendcost"])
           h == Put(g, "fromclusterid", p["fromclusterid"])
           i == Put(h, "fromdatacenterid", p["fromdatacenterid"])
           j == Put(i, "toclusterid", p["toclusterid"])
           k == Put(j, "todatacenterid", p["todatacenterid"])
           Goes(q) == Chosen(q, to, p, DSNames, D)
<1>1. Of(to, DSTypes)
  BY NewDSOf, DSTypesHave, EthernetAssignOf
<1>2. DSAssign(p) = k
  BY Zenon DEF DSAssign, Put
<1> HIDE DEF to
<1>3. \A x \in DSNames : \A q : Goes(q) => Goes(Put(q, x, p[x]))
  BY DSTypesHave, ChosenPut
<1>4. /\ "length" \in DSNames /\ "flags" \in DSNames /\ "senderport" \in DSNames
      /\ "peerport" \in DSNames /\ "senderdp" \in DSNames /\ "peerdp" \in DSNames
      /\ "sendcost" \in DSNames /\ "fromclusterid" \in DSNames /\ "fromdatacenterid" \in DSNames
      /\ "toclusterid" \in DSNames /\ "todatacenterid" \in DSNames
  BY DEF DSNames
<1>5. Goes(to)
  BY <1>1 DEF Chosen, Of
<1> HIDE DEF Goes
<1>6. Goes(d)
  BY <1>3, <1>4, <1>5
<1> HIDE DEF d
<1>7. Goes(h)
  BY <1>3, <1>4, <1>6
<1> HIDE DEF h
<1>8. Goes(k)
  BY <1>3, <1>4, <1>7
<1> HIDE DEF k
<1>9. Of(k, DSTypes)
  BY <1>1, <1>8, ChosenOf DEF Goes
<1>10. QED
  BY <1>2, <1>9

-----------------------------------------------------------------------------

(***************************************************************************)
(* A payload that no frame cuts.                                           *)
(***************************************************************************)
Payload == {b \in Seq(Byte) : Len(b) <= ETHERNET_MAX_SIZE}

(***************************************************************************)
(* T has room for one.                                                     *)
(***************************************************************************)
PayloadIn(T) == "etherpayload" \in DOMAIN T /\ Payload \subseteq T["etherpayload"]

(***************************************************************************)
(* SetAppPayload sets it, and cuts what is longer than a frame.            *)
(***************************************************************************)
LEMMA SetAppPayloadOf ==
  ASSUME NEW T, PayloadIn(T), NEW p, Of(p, T), NEW data \in Seq(Byte)
  PROVE  /\ Of(SetAppPayload(p, data), T)
         /\ \A x \in DOMAIN T \ {"etherpayload"} : SetAppPayload(p, data)[x] = p[x]
<1> DEFINE d == IF Len(data) > ETHERNET_MAX_SIZE THEN SubSeq(data, 1, ETHERNET_MAX_SIZE) ELSE data
<1>1. d \in Payload
  <2>1. CASE Len(data) > ETHERNET_MAX_SIZE
    <3>1. /\ SubSeq(data, 1, ETHERNET_MAX_SIZE) \in Seq(Byte)
          /\ Len(SubSeq(data, 1, ETHERNET_MAX_SIZE)) = ETHERNET_MAX_SIZE
      BY <2>1, SizeAssumption, RestOf
    <3>2. QED
      BY <2>1, <3>1, SizeAssumption DEF Payload
  <2>2. CASE ~(Len(data) > ETHERNET_MAX_SIZE)
    <3>1. Len(data) <= ETHERNET_MAX_SIZE
      BY <2>2, SizeAssumption
    <3>2. QED
      BY <2>2, <3>1 DEF Payload
  <2>3. QED
    BY <2>1, <2>2
<1>2. SetAppPayload(p, data) = p \/ SetAppPayload(p, data) = Put(p, "etherpayload", d)
  BY Zenon DEF SetAppPayload, Put
<1> HIDE DEF d
<1>3. Room(T, "etherpayload", d)
  BY <1>1 DEF Room, PayloadIn
<1>4. /\ Of(Put(p, "etherpayload", d), T)
      /\ \A x \in DOMAIN T \ {"etherpayload"} : Put(p, "etherpayload", d)[x] = p[x]
  BY <1>3, PutOf
<1>5. QED
  BY <1>2, <1>4

(***************************************************************************)
(* The fields of UnknownEthernet.                                          *)
(***************************************************************************)
UnknownTypes == OnEther("UnknownEthernet", [etherpayload |-> Payload])

(***************************************************************************)
(* What they are.                                                          *)
(***************************************************************************)
LEMMA UnknownTypesHave ==
  /\ EtherIn(UnknownTypes) /\ UnknownTypes["class"] = {"UnknownEthernet"}
  /\ "class" \in DOMAIN UnknownTypes /\ PayloadIn(UnknownTypes)
  /\ UnknownTypes["etherpayload"] = Payload
<1> DEFINE U == [etherpayload |-> Payload]
<1>1. DOMAIN U = {"etherpayload"} /\ U["etherpayload"] = Payload
  OBVIOUS
<1>2. {"etherpayload"} \cap (EtherFields \cup {"class"}) = {}
  BY DEF EtherFields
<1> HIDE DEF U
<1>3. /\ EtherIn(UnknownTypes) /\ UnknownTypes["class"] = {"UnknownEthernet"}
      /\ "class" \in DOMAIN UnknownTypes /\ Extends(UnknownTypes, U)
  BY <1>1, <1>2, OnEtherHas DEF UnknownTypes, U
<1>4. QED
  BY <1>1, <1>3 DEF Extends, PayloadIn

(***************************************************************************)
(* A new packet of an unknown Ethernet type has them.                      *)
(***************************************************************************)
LEMMA NewUnknownEthernetOf == Of(NewUnknownEthernet, UnknownTypes)
<1> DEFINE q == [etherpayload |-> <<>>]
           U == [etherpayload |-> Payload]
<1>1. <<>> \in Payload
  BY SizeAssumption DEF Payload
<1>2. Of(q, U)
  BY <1>1 DEF Of, Function
<1> HIDE DEF q, U
<1>3. QED
  BY <1>2, OnEtherOf, TagValues DEF NewUnknownEthernet, UnknownTypes, q, U

(***************************************************************************)
(* What is read from any bytes has them.                                   *)
(***************************************************************************)
LEMMA UnknownReads ==
  ASSUME NEW r, Reads(r, UnknownTypes)
  PROVE  Reads(UnknownEthernetStreamFrom(r), UnknownTypes)
<1> DEFINE s == EthernetStreamFrom(r)
           n == Len(s.rest)
<1>1. Reads(s, UnknownTypes)
  BY UnknownTypesHave, EtherMoves DEF Moves
<1>2. UnknownEthernetStreamFrom(r) =
      IF n > ETHERNET_MAX_SIZE THEN Failed(s) ELSE ReadBytes(s, "etherpayload", n)
  BY Zenon DEF UnknownEthernetStreamFrom, ReadRest
<1> HIDE DEF s
<1>3. n \in Nat
  <2>1. s.rest \in Seq(Byte)
    BY <1>1 DEF Reads
  <2>2. QED
    BY <2>1
<1> HIDE DEF n
<1>4. CASE n > ETHERNET_MAX_SIZE
  BY <1>1, <1>2, <1>4, FailedOf
<1>5. CASE ~(n > ETHERNET_MAX_SIZE)
  <2>1. \A b \in Seq(Byte) : Len(b) = n => b \in UnknownTypes["etherpayload"]
    BY <1>3, <1>5, SizeAssumption, UnknownTypesHave DEF Payload
  <2>2. "etherpayload" \in DOMAIN UnknownTypes
    BY UnknownTypesHave DEF PayloadIn
  <2>3. Reads(ReadBytes(s, "etherpayload", n), UnknownTypes)
    BY <1>1, <1>3, <2>1, <2>2, BytesReadOf
  <2>4. QED
    BY <1>2, <1>5, <2>3
<1>6. QED
  BY <1>4, <1>5

(***************************************************************************)
(* It writes the bytes its GetEncodeSpace counts.                          *)
(***************************************************************************)
LEMMA UnknownWritten ==
  ASSUME NEW p, Of(p, UnknownTypes)
  PROVE  Exactly(UnknownEthernetStreamTo(p), UnknownEthernetLen(p))
<1> DEFINE a == EthernetStreamTo(p)
           b == p.etherpayload
<1>1. a \in Seq(Byte) /\ Len(a) = EthernetLen(p)
  BY UnknownTypesHave, EtherWritten
<1>2. b \in Seq(Byte)
  BY UnknownTypesHave DEF Of, PayloadIn, Payload
<1>3. UnknownEthernetStreamTo(p) = a \o b /\ UnknownEthernetLen(p) = EthernetLen(p) + Len(b)
  BY Zenon DEF UnknownEthernetStreamTo, UnknownEthernetLen
<1> HIDE DEF a, b
<1>4. a \o b \in Seq(Byte) /\ Len(a \o b) = Len(a) + Len(b)
  BY <1>1, <1>2, BytesAndBytes
<1>5. QED
  BY <1>1, <1>3, <1>4, Zenon DEF Exactly

(***************************************************************************)
(* A copy has the fields of UnknownEthernet.                               *)
(***************************************************************************)
LEMMA UnknownAssigned ==
  ASSUME NEW p, Of(p, UnknownTypes)
  PROVE  Of(UnknownEthernetAssign(p), UnknownTypes)
<1> DEFINE to == EthernetAssign(NewUnknownEthernet, p)
           b == p.etherpayload
<1>1. Of(to, UnknownTypes)
  BY NewUnknownEthernetOf, UnknownTypesHave, EthernetAssignOf
<1>2. Room(UnknownTypes, "etherpayload", b)
  BY UnknownTypesHave DEF Of, PayloadIn, Room
<1>3. UnknownEthernetAssign(p) = Put(to, "etherpayload", b)
  BY Zenon DEF UnknownEthernetAssign, Put
<1> HIDE DEF to, b
<1>4. QED
  BY <1>1, <1>2, <1>3, PutOf

-----------------------------------------------------------------------------
(***************************************************************************)
(* A TLV of LLDP: a type and bytes.                                        *)
(***************************************************************************)
TLVType == [type : Int, value : Seq(Byte)]

(***************************************************************************)
(* Its length counts the two bytes of its head.                            *)
(***************************************************************************)
LEMMA TLVTyped ==
  /\ \A type \in Int, value \in Seq(Byte) :
       /\ TLV(type, value) \in TLVType /\ TLV(type, value).type = type
       /\ TLV(type, value).value = value /\ TLVLen(TLV(type, value)) = 2 + Len(value)
  /\ \A t \in TLVType : /\ t.type \in Int /\ t.value \in Seq(Byte)
                        /\ TLVLen(t) \in Nat /\ TLVLen(t) >= 2 /\ TLVLen(t) = 2 + Len(t.value)
<1>1. ASSUME NEW type \in Int, NEW value \in Seq(Byte)
      PROVE  /\ TLV(type, value) \in TLVType /\ TLV(type, value).type = type
             /\ TLV(type, value).value = value /\ TLVLen(TLV(type, value)) = 2 + Len(value)
  BY DEF TLV, TLVType, TLVLen
<1>2. ASSUME NEW t \in TLVType
      PROVE  /\ t.type \in Int /\ t.value \in Seq(Byte)
             /\ TLVLen(t) \in Nat /\ TLVLen(t) >= 2 /\ TLVLen(t) = 2 + Len(t.value)
  <2>1. t.type \in Int /\ t.value \in Seq(Byte)
    BY DEF TLVType
  <2>2. Len(t.value) \in Nat
    BY <2>1
  <2>3. QED
    BY <2>1, <2>2 DEF TLVLen
<1>3. QED
  BY <1>1, <1>2

(***************************************************************************)
(* The bytes left at the end of a run.                                     *)
(***************************************************************************)
LEMMA EndingOf ==
  ASSUME NEW b \in Seq(Byte), NEW left \in 0..Len(b)
  PROVE  Ending(b, left) \in Seq(Byte) /\ Len(Ending(b, left)) = left
<1> DEFINE w == Len(b) - left
<1>1. Len(b) \in Nat /\ w \in Nat /\ w <= Len(b) /\ Len(b) - w = left
  OBVIOUS
<1>2. Ending(b, left) = SubSeq(b, w + 1, Len(b))
  BY DEF Ending
<1> HIDE DEF w
<1>3. SubSeq(b, w + 1, Len(b)) \in Seq(Byte) /\ Len(SubSeq(b, w + 1, Len(b))) = Len(b) - w
  BY <1>1, RestOf
<1>4. QED
  BY <1>1, <1>2, <1>3

(***************************************************************************)
(* The first two bytes of a run make a number of 16 bits.                  *)
(***************************************************************************)
LEMMA WordOf ==
  ASSUME NEW b \in Seq(Byte), Len(b) >= 2
  PROVE  Word(b, 1) \in Short
<1>1. b[1] \in Byte /\ b[2] \in Byte
  OBVIOUS
<1>2. Word(b, 1) = 256 * b[1] + b[2]
  BY DEF Word
<1> DEFINE x == b[1]
           y == b[2]
<1>3. x \in Byte /\ y \in Byte /\ Word(b, 1) = 256 * x + y
  BY <1>1, <1>2
<1> HIDE DEF x, y
<1>4. 256 * x + y \in Short
  BY <1>3 DEF Byte, Short
<1>5. QED
  BY <1>3, <1>4

(***************************************************************************)
(* What is read as a TLV is one, no longer than the bytes it was read      *)
(* from.                                                                   *)
(***************************************************************************)
LEMMA TLVOfTyped ==
  ASSUME NEW b \in Seq(Byte)
  PROVE  TLVOf(b) \in TLVType /\ (TLVOf(b).type >= 0 => TLVLen(TLVOf(b)) <= Len(b))
<1> DEFINE head == Word(b, 1)
           cut == Len(b) < 2 \/ Len(b) < 2 + (head % 512)
           whole == SubSeq(b, 3, 2 + (head % 512))
<1>1. TLVOf(b) = IF cut THEN TLV(-1, <<>>) ELSE TLV(head \div 512, whole)
  BY Zenon DEF TLVOf
<1>2. CASE cut
  <2>1. TLVOf(b) = TLV(-1, <<>>)
    BY <1>1, <1>2
  <2>2. -1 \in Int /\ <<>> \in Seq(Byte) /\ ~(-1 >= 0)
    OBVIOUS
  <2>3. TLV(-1, <<>>) \in TLVType /\ TLV(-1, <<>>).type = -1
    BY <2>2, TLVTyped, Zenon
  <2>4. QED
    BY <2>1, <2>2, <2>3, Zenon
<1>3. CASE ~cut
  <2> DEFINE n == head % 512
  <2>1. head \in Short /\ Len(b) \in Nat
    BY <1>3, WordOf
  <2> HIDE DEF head
  <2>2. head \div 512 \in Int /\ n \in Nat
    BY <2>1 DEF Short
  <2>3. Len(b) >= 2 + n
    BY <1>3, <2>1, <2>2
  <2> HIDE DEF n
  <2>4. whole = SubSeq(b, 3, 2 + n)
    BY DEF n
  <2> HIDE DEF whole
  <2>5. whole \in Seq(Byte) /\ Len(whole) = n
    BY <2>1, <2>2, <2>3, <2>4
  <2>6. TLVOf(b) = TLV(head \div 512, whole)
    BY <1>1, <1>3
  <2>7. TLVOf(b) \in TLVType /\ TLVLen(TLVOf(b)) = 2 + Len(whole)
    BY <2>2, <2>5, <2>6, TLVTyped
  <2>8. QED
    BY <2>3, <2>5, <2>7
<1>4. QED
  BY <1>2, <1>3

(***************************************************************************)
(* A TLV is written in as many bytes as its length says.                   *)
(***************************************************************************)
LEMMA TLVWritten ==
  ASSUME NEW t \in TLVType
  PROVE  Exactly(TLVStreamTo(t), TLVLen(t))
<1> DEFINE v == 512 * (t.type % 128) + (Len(t.value) % 512)
           a == Bytes(v, 2)
           b == t.value
<1>1. t.type \in Int /\ b \in Seq(Byte) /\ TLVLen(t) = 2 + Len(b)
  BY TLVTyped
<1>2. v \in Int
  <2> DEFINE m == t.type
             k == Len(b)
  <2>1. m \in Int /\ k \in Int
    BY <1>1
  <2>2. v = 512 * (m % 128) + (k % 512)
    OBVIOUS
  <2> HIDE DEF m, k, v
  <2>3. QED
    BY <2>1, <2>2
<1> HIDE DEF v
<1>3. a \in Seq(Byte) /\ Len(a) = 2
  BY <1>2, IntWords
<1>4. TLVStreamTo(t) = a \o b
  BY Zenon DEF TLVStreamTo, v
<1> HIDE DEF a, b
<1>5. a \o b \in Seq(Byte) /\ Len(a \o b) = 2 + Len(b)
  BY <1>1, <1>3, BytesAndBytes
<1>6. QED
  BY <1>1, <1>4, <1>5 DEF Exactly

-----------------------------------------------------------------------------

(***************************************************************************)
(* A list of TLVs, found in so many bytes.                                 *)
(***************************************************************************)
Goal(found, left) ==
  /\ found.list \in Seq(TLVType) /\ found.left \in 0..left /\ found.good \in BOOLEAN

(***************************************************************************)
(* What was found so far is one.                                           *)
(***************************************************************************)
LEMMA FoundGoal ==
  ASSUME NEW list \in Seq(TLVType), NEW left \in Nat, NEW rest \in 0..left, NEW good \in BOOLEAN
  PROVE  Goal(Found(list, rest, good), left)
BY DEF Goal, Found

(***************************************************************************)
(* The walk over the optional TLVs finds TLVs, in as many bytes as there   *)
(* are.                                                                    *)
(***************************************************************************)
LEMMA OptionalTLVsSound ==
  ASSUME NEW b \in Seq(Byte)
  PROVE  Goal(OptionalTLVs(b), Len(b))
<1> DEFINE n == Len(b)
           Tlv(left) == TLVOf(Ending(b, left))
           Next(left) == left - TLVLen(Tlv(left))
           Stop(left) == left \in {0, 2, 9} \/ (left > 2 /\ Word(Ending(b, left), 1) = 0)
           More(left) == ~Stop(left) /\ ~(Tlv(left).type < 0) /\ Tlv(left).type # 0
           Here(left) == IF Stop(left) THEN Found(<<>>, left, TRUE)
                         ELSE IF Tlv(left).type < 0 THEN Found(<<>>, left, FALSE)
                         ELSE Found(<<>>, Next(left), TRUE)
           Longer(tlv, found) == Found(<<tlv>> \o found.list, found.left, found.good)
           Step(g, left) == IF More(left) THEN Longer(Tlv(left), g[Next(left)]) ELSE Here(left)
           Is(g, k) == g = [left \in 0..k |-> Step(g, left)]
           T == {k \in 0..n : \E g : Is(g, k)}
<1>0. n \in Nat
  OBVIOUS
<1>1. OptionalTLVs(b) = (CHOOSE g : Is(g, n))[n]
  <2> DEFINE Old(g, left) == IF Stop(left) THEN Found(<<>>, left, TRUE)
                             ELSE IF Tlv(left).type < 0 THEN Found(<<>>, left, FALSE)
                             ELSE IF Tlv(left).type = 0 THEN Found(<<>>, Next(left), TRUE)
                             ELSE Longer(Tlv(left), g[Next(left)])
             Was(g) == g = [left \in 0..n |-> Old(g, left)]
  <2>1. OptionalTLVs(b) = (CHOOSE g : Was(g))[n]
    BY DEF OptionalTLVs
  <2>2. \A g, left : Old(g, left) = Step(g, left)
    <3> HIDE DEF Stop, Tlv, Next, Longer
    <3>1. QED
      OBVIOUS
  <2>3. \A g : Was(g) <=> Is(g, n)
    <3> HIDE DEF Old, Step
    <3>1. QED
      BY <2>2
  <2> HIDE DEF Was, Is
  <2>4. (CHOOSE g : Was(g)) = (CHOOSE g : Is(g, n))
    BY <2>3
  <2>5. QED
    BY <2>1, <2>4
<1>2. ASSUME NEW left \in 0..n
      PROVE  /\ Tlv(left) \in TLVType
             /\ ~(Tlv(left).type < 0) =>
                  Next(left) \in 0..left /\ Next(left) < left /\ Next(left) \in 0..n
  <2> DEFINE t == Tlv(left)
             e == Ending(b, left)
  <2>1. e \in Seq(Byte) /\ Len(e) = left
    BY EndingOf
  <2> HIDE DEF e
  <2>2. TLVOf(e) \in TLVType /\ (TLVOf(e).type >= 0 => TLVLen(TLVOf(e)) <= Len(e))
    BY <2>1, TLVOfTyped
  <2>3. t \in TLVType /\ (t.type >= 0 => TLVLen(t) <= left)
    BY <2>1, <2>2 DEF e
  <2>5. Next(left) = left - TLVLen(t)
    OBVIOUS
  <2> HIDE DEF t, Next
  <2>4. t.type \in Int /\ TLVLen(t) \in Nat /\ TLVLen(t) >= 2
    BY <2>3, TLVTyped
  <2>6. ~(t.type < 0) => Next(left) \in 0..left /\ Next(left) < left /\ Next(left) \in 0..n
    BY <1>0, <2>3, <2>4, <2>5
  <2>7. QED
    BY <2>3, <2>6 DEF t
<1>3. ASSUME NEW left \in 0..n PROVE Goal(Here(left), left)
  <2>1. <<>> \in Seq(TLVType) /\ left \in Nat /\ left \in 0..left
    OBVIOUS
  <2> HIDE DEF Stop, Next, Tlv
  <2>2. CASE Stop(left)
    BY <2>1, <2>2, FoundGoal
  <2>3. CASE ~Stop(left) /\ Tlv(left).type < 0
    BY <2>1, <2>3, FoundGoal
  <2>4. CASE ~Stop(left) /\ ~(Tlv(left).type < 0)
    <3>1. Next(left) \in 0..left
      BY <1>2, <2>4
    <3>2. QED
      BY <2>1, <2>4, <3>1, FoundGoal
  <2>5. QED
    BY <2>2, <2>3, <2>4
<1>4. ASSUME NEW left \in 0..n, More(left), NEW found, Goal(found, Next(left))
      PROVE  Goal(Longer(Tlv(left), found), left)
  <2>1. Tlv(left) \in TLVType /\ Next(left) \in 0..left
    BY <1>2, <1>4
  <2> HIDE DEF Next, Tlv, More
  <2>2. /\ found.list \in Seq(TLVType) /\ found.left \in 0..Next(left) /\ found.good \in BOOLEAN
    BY <1>4 DEF Goal
  <2>3. <<Tlv(left)>> \o found.list \in Seq(TLVType) /\ found.left \in 0..left /\ left \in Nat
    BY <2>1, <2>2
  <2>4. QED
    BY <2>2, <2>3, FoundGoal
<1> HIDE DEF Here, Longer
<1>5. \A left \in 0..n : More(left) =>
      Next(left) \in 0..left /\ Next(left) < left /\ Next(left) \in 0..n
  BY <1>2
<1> HIDE DEF Next, Tlv, More, n
<1>6. 0 \in T
  <2>1. ~More(0)
    BY DEF More
  <2> DEFINE g == [left \in 0..0 |-> Here(0)]
  <2>2. Is(g, 0)
    <3>1. \A left \in 0..0 : left = 0
      OBVIOUS
    <3>2. \A left \in 0..0 : Step(g, left) = Here(0)
      BY <2>1, <3>1
    <3> HIDE DEF Step
    <3>3. QED
      BY <3>2
  <2> HIDE DEF Is, g
  <2>3. 0 \in 0..n
    BY <1>0
  <2>4. QED
    BY <2>2, <2>3
<1>7. ASSUME NEW k \in 0..(n - 1), k \in T PROVE k + 1 \in T
  <2>1. PICK g : Is(g, k)
    BY <1>7
  <2> DEFINE new == [left \in 0..(k + 1) |-> IF left = k + 1 THEN Step(g, k + 1) ELSE g[left]]
  <2>2. k + 1 \in 0..n /\ k \in Nat
    BY <1>0
  <2>3. \A left \in 0..k : new[left] = g[left] /\ g[left] = Step(g, left) /\ left \in 0..n
    <3>1. \A left \in 0..k : left # k + 1 /\ left \in 0..(k + 1) /\ left \in 0..n
      BY <2>2, <1>0
    <3>2. \A left \in 0..k : new[left] = g[left]
      BY <3>1
    <3> HIDE DEF new, Step
    <3>3. QED
      BY <2>1, <3>1, <3>2
  <2>4. new[k + 1] = Step(g, k + 1)
    BY <2>2
  <2>5. new = [left \in 0..(k + 1) |-> new[left]]
    OBVIOUS
  <2> HIDE DEF new
  <2>6. ASSUME NEW left \in 0..(k + 1) PROVE Step(new, left) = Step(g, left)
    <3>1. left \in 0..n
      BY <1>0, <2>6
    <3>2. More(left) => Next(left) \in 0..k
      BY <1>5, <2>2, <3>1
    <3>3. QED
      BY <2>3, <3>2
  <2>7. ASSUME NEW left \in 0..(k + 1) PROVE new[left] = Step(new, left)
    <3> HIDE DEF Step
    <3>1. left = k + 1 \/ left \in 0..k
      BY <2>2
    <3>2. QED
      BY <2>3, <2>4, <2>6, <3>1
  <2>8. Is(new, k + 1)
    <3> HIDE DEF Step
    <3>1. QED
      BY <2>5, <2>7
  <2> HIDE DEF Is
  <2>9. QED
    BY <2>2, <2>8
<1>8. n \in T
  <2> HIDE DEF T
  <2>1. \A k \in 0..n : k \in T
    BY <1>0, <1>6, <1>7, Climb
  <2>2. QED
    BY <1>0, <2>1
<1>9. PICK g : Is(g, n) /\ OptionalTLVs(b) = g[n]
  <2> HIDE DEF Is
  <2>1. QED
    BY <1>1, <1>8
<1> DEFINE U == {k \in 0..n : \A left \in 0..k : Goal(g[left], left)}
<1>10. ASSUME NEW left \in 0..n, \A m \in 0..n : m < left => Goal(g[m], m) PROVE Goal(g[left], left)
  <2>1. g[left] = Step(g, left)
    <3> HIDE DEF Step
    <3>1. QED
      BY <1>9
  <2>2. CASE More(left)
    <3>1. Goal(g[Next(left)], Next(left))
      BY <1>5, <1>10, <2>2
    <3>2. Goal(Longer(Tlv(left), g[Next(left)]), left)
      BY <1>4, <2>2, <3>1
    <3>3. QED
      BY <2>1, <2>2, <3>2
  <2>3. CASE ~More(left)
    BY <1>3, <2>1, <2>3
  <2>4. QED
    BY <2>2, <2>3
<1> HIDE DEF Is
<1>11. \A k \in 0..n : k \in U
  <2>1. 0 \in U
    <3>1. \A left \in 0..0 : left = 0
      OBVIOUS
    <3>2. 0 \in 0..n /\ \A m \in 0..n : ~(m < 0)
      BY <1>0
    <3>3. Goal(g[0], 0)
      BY <1>10, <3>2
    <3>4. QED
      BY <3>1, <3>2, <3>3
  <2>2. ASSUME NEW k \in 0..(n - 1), k \in U PROVE k + 1 \in U
    <3>1. k + 1 \in 0..n /\ k \in Nat /\ (\A m \in 0..n : m < k + 1 => m \in 0..k)
          /\ \A left \in 0..(k + 1) : left = k + 1 \/ left \in 0..k
      BY <1>0
    <3>2. \A left \in 0..k : Goal(g[left], left)
      BY <2>2
    <3>3. Goal(g[k + 1], k + 1)
      BY <1>10, <3>1, <3>2
    <3>4. QED
      BY <3>1, <3>2, <3>3
  <2> HIDE DEF U
  <2>3. QED
    BY <1>0, <2>1, <2>2, Climb
<1>12. n \in 0..n /\ n \in U
  BY <1>0, <1>11
<1>13. Goal(g[n], n)
  BY <1>12
<1>14. QED
  BY <1>9, <1>13 DEF n

(***************************************************************************)
(* The lengths of the TLVs of a list.                                      *)
(***************************************************************************)
Lens(list) == [i \in DOMAIN list |-> TLVLen(list[i])]

(***************************************************************************)
(* They are naturals, one for each TLV.                                    *)
(***************************************************************************)
LEMMA LensOf ==
  ASSUME NEW list \in Seq(TLVType)
  PROVE  /\ Len(list) \in Nat /\ DOMAIN Lens(list) = 1..Len(list) /\
              SumOfLens(list) = SumOf(Lens(list))
         /\ \A i \in 1..Len(list) : Lens(list)[i] = TLVLen(list[i]) /\ Lens(list)[i] \in Nat
<1>1. Len(list) \in Nat /\ DOMAIN list = 1..Len(list) /\ \A i \in 1..Len(list) : list[i] \in TLVType
  OBVIOUS
<1>2. SumOfLens(list) = SumOf(Lens(list))
  BY Zenon DEF SumOfLens, Lens
<1>3. DOMAIN Lens(list) = 1..Len(list) /\ \A i \in 1..Len(list) : Lens(list)[i] = TLVLen(list[i])
  BY <1>1, Zenon DEF Lens
<1>4. \A i \in 1..Len(list) : TLVLen(list[i]) \in Nat
  BY <1>1, TLVTyped
<1>5. QED
  BY <1>1, <1>2, <1>3, <1>4

(***************************************************************************)
(* Sums of numbers that agree up to n agree up to n.                       *)
(***************************************************************************)
LEMMA SameSums ==
  ASSUME NEW n \in Nat, NEW m \in Nat, n <= m, NEW g, NEW h, NEW a,
           NEW b, Sums(g, a, n), Sums(h, b, m),
         \A k \in 1..n : a[k] = b[k]
  PROVE  SumOf(a) = h[n]
<1> DEFINE T == {k \in 0..n : g[k] = h[k]}
<1>1. /\ g[0] = 0 /\ (\A k \in 1..n : g[k] = g[k - 1] + a[k]) /\ SumOf(a) = g[n]
      /\ h[0] = 0 /\ (\A k \in 1..m : h[k] = h[k - 1] + b[k])
  BY DEF Sums
<1>2. 0 \in T
  BY <1>1
<1>3. ASSUME NEW k \in 0..(n - 1), k \in T PROVE k + 1 \in T
  <2>1. k + 1 \in 1..n /\ k + 1 \in 1..m /\ (k + 1) - 1 = k /\ k + 1 \in 0..n
    OBVIOUS
  <2>2. g[k + 1] = g[k] + a[k + 1] /\ h[k + 1] = h[k] + b[k + 1] /\ g[k] = h[k]
    BY <1>1, <1>3, <2>1
  <2>3. g[k + 1] = h[k + 1]
    BY <2>1, <2>2
  <2>4. QED
    BY <2>1, <2>3
<1> HIDE DEF T
<1>4. \A k \in 0..n : k \in T
  BY <1>2, <1>3, Climb
<1>5. n \in 0..n
  OBVIOUS
<1>6. g[n] = h[n]
  BY <1>4, <1>5 DEF T
<1>7. QED
  BY <1>1, <1>6

(***************************************************************************)
(* An empty list has length 0.                                             *)
(***************************************************************************)
LEMMA SumOfNone == SumOfLens(<<>>) = 0
<1>1. <<>> \in Seq(TLVType) /\ Len(<<>>) = 0 /\ 0 \in Nat
  OBVIOUS
<1>2. DOMAIN Lens(<<>>) = 1..0 /\ SumOfLens(<<>>) = SumOf(Lens(<<>>))
  BY <1>1, LensOf
<1>3. PICK h : Sums(h, Lens(<<>>), 0)
  BY <1>1, <1>2, SumOfSteps
<1>4. QED
  BY <1>2, <1>3 DEF Sums

(***************************************************************************)
(* A TLV more adds its length.                                             *)
(***************************************************************************)
LEMMA SumOfMore ==
  ASSUME NEW list \in Seq(TLVType), NEW t \in TLVType
  PROVE  Append(list, t) \in Seq(TLVType) /\
           SumOfLens(Append(list, t)) = SumOfLens(list) + TLVLen(t)
<1> DEFINE more == Append(list, t)
           n == Len(list)
           a == Lens(list)
           b == Lens(more)
<1>1. /\ more \in Seq(TLVType) /\ Len(more) = n + 1 /\ n \in Nat /\ more[n + 1] = t
      /\ \A i \in 1..n : more[i] = list[i]
  OBVIOUS
<1>2. /\ DOMAIN a = 1..n /\ SumOfLens(list) = SumOf(a) /\ \A i \in 1..n : a[i] = TLVLen(list[i])
  BY LensOf
<1> HIDE DEF more
<1>3. /\ DOMAIN b = 1..(n + 1) /\ SumOfLens(more) = SumOf(b)
      /\ \A i \in 1..(n + 1) : b[i] = TLVLen(more[i])
  BY <1>1, LensOf
<1> HIDE DEF a, b, n
<1>4. PICK g : Sums(g, a, n)
  BY <1>1, <1>2, SumOfSteps
<1>5. n + 1 \in Nat /\ n <= n + 1 /\ n + 1 \in 1..(n + 1) /\ (n + 1) - 1 = n /\
      \A k \in 1..n : k \in 1..(n + 1)
  BY <1>1
<1>6. PICK h : Sums(h, b, n + 1)
  BY <1>3, <1>5, SumOfSteps
<1>7. \A k \in 1..n : a[k] = b[k]
  BY <1>1, <1>2, <1>3, <1>5
<1>8. SumOf(a) = h[n]
  BY <1>1, <1>4, <1>5, <1>6, <1>7, SameSums
<1>9. SumOf(b) = h[n] + b[n + 1]
  BY <1>5, <1>6 DEF Sums
<1>10. b[n + 1] = TLVLen(t)
  BY <1>1, <1>3, <1>5
<1>11. SumOfLens(more) = SumOfLens(list) + TLVLen(t)
  BY <1>2, <1>3, <1>8, <1>9, <1>10
<1>12. QED
  BY <1>1, <1>11 DEF more

(* the TLVs of a list, written one after the other *)

(***************************************************************************)
(* The bytes of the TLVs of a list.                                        *)
(***************************************************************************)
TLVBytes(list) == FlattenSeq([i \in DOMAIN list |-> TLVStreamTo(list[i])])

(***************************************************************************)
(* They are as many as the lengths of the TLVs add up to, for lists of any *)
(* length.                                                                 *)
(***************************************************************************)
LEMMA TLVsWritten ==
  ASSUME NEW list \in Seq(TLVType)
  PROVE  SumOfLens(list) \in Nat /\ Exactly(TLVBytes(list), SumOfLens(list))
<1> DEFINE n == Len(list)
           a == Lens(list)
           seqs == [i \in DOMAIN list |-> TLVStreamTo(list[i])]
<1>1. /\ n \in Nat /\ DOMAIN a = 1..n /\ SumOfLens(list) = SumOf(a)
      /\ \A i \in 1..n : a[i] = TLVLen(list[i]) /\ a[i] \in Nat
  BY LensOf
<1>2. \A i \in 1..n : list[i] \in TLVType
  OBVIOUS
<1>3. DOMAIN list = 1..n
  OBVIOUS
<1>4. \A i \in 1..n : seqs[i] = TLVStreamTo(list[i])
  BY <1>3, Zenon
<1>5. \A i \in 1..n : seqs[i] \in Seq(Byte) /\ Len(seqs[i]) = a[i]
  BY <1>1, <1>2, <1>4, TLVWritten DEF Exactly
<1>6. seqs \in [1..n -> Seq(Byte)]
  <2>1. seqs = [i \in 1..n |-> seqs[i]]
    BY <1>3, Zenon
  <2> HIDE DEF seqs
  <2>2. QED
    BY <1>5, <2>1
<1>7. TLVBytes(list) = FlattenSeq(seqs)
  BY Zenon DEF TLVBytes
<1> HIDE DEF n, a, seqs
<1>8. PICK h : Sums(h, a, n)
  BY <1>1, SumOfSteps
<1>9. PICK z : Piles(z, seqs, n, Byte)
  BY <1>1, <1>6, FlattenSteps
<1> DEFINE T == {k \in 0..n : h[k] \in Nat /\ Len(z[k]) = h[k]}
<1>10. /\ h[0] = 0 /\ (\A k \in 1..n : h[k] = h[k - 1] + a[k]) /\ SumOf(a) = h[n]
  BY <1>8 DEF Sums
<1>11. /\ z[0] = <<>> /\ \A k \in 1..n : z[k] = z[k - 1] \o seqs[k]
       /\ (\A k \in 0..n : z[k] \in Seq(Byte)) /\ FlattenSeq(seqs) = z[n]
  BY <1>9 DEF Piles
<1>12. 0 \in T
  BY <1>1, <1>10, <1>11
<1>13. ASSUME NEW k \in 0..(n - 1), k \in T PROVE k + 1 \in T
  <2>1. k + 1 \in 1..n /\ (k + 1) - 1 = k /\ k + 1 \in 0..n /\ k \in 0..n
    BY <1>1
  <2>2. /\ h[k + 1] = h[k] + a[k + 1] /\ z[k + 1] = z[k] \o seqs[k + 1]
        /\ h[k] \in Nat /\ Len(z[k]) = h[k] /\ z[k] \in Seq(Byte)
    BY <1>10, <1>11, <1>13, <2>1
  <2>3. /\ a[k + 1] \in Nat /\ seqs[k + 1] \in Seq(Byte) /\ Len(seqs[k + 1]) = a[k + 1]
    BY <1>1, <1>5, <2>1
  <2> DEFINE u == z[k]
             v == seqs[k + 1]
  <2>4. Len(u \o v) = Len(u) + Len(v)
    BY <2>2, <2>3, BytesAndBytes
  <2>5. h[k + 1] \in Nat /\ Len(z[k + 1]) = h[k + 1]
    BY <2>2, <2>3, <2>4
  <2>6. QED
    BY <2>1, <2>5
<1>14. n \in T
  <2> HIDE DEF T
  <2>1. \A k \in 0..n : k \in T
    BY <1>1, <1>12, <1>13, Climb
  <2>2. n \in 0..n
    BY <1>1
  <2>3. QED
    BY <2>1, <2>2
<1>15. z[n] \in Seq(Byte)
  BY <1>1, <1>11
<1>16. QED
  BY <1>1, <1>7, <1>10, <1>11, <1>14, <1>15 DEF Exactly

-----------------------------------------------------------------------------
(***************************************************************************)
(* The fields of LLDP itself (LLDP.h).                                     *)
(***************************************************************************)
LLDPExtra == [chassisId |-> TLVType, portId |-> TLVType, ttl |-> TLVType,
              optionalTLVList |-> Seq(TLVType), len |-> Nat]

(***************************************************************************)
(* All its fields.                                                         *)
(***************************************************************************)
LLDPTypes == OnEther("LLDP", LLDPExtra)

(***************************************************************************)
(* The TLVs that every LLDP packet has.                                    *)
(***************************************************************************)
Three == {"chassisId", "portId", "ttl"}

(***************************************************************************)
(* T has the fields of LLDP.                                               *)
(***************************************************************************)
LLDPIn(T) ==
  /\ {"optionalTLVList", "len"} \cup Three \subseteq DOMAIN T
  /\ T["chassisId"] = TLVType /\ T["portId"] = TLVType /\ T["ttl"] = TLVType
  /\ T["optionalTLVList"] = Seq(TLVType) /\ T["len"] = Nat

(***************************************************************************)
(* LLDPTypes has.                                                          *)
(***************************************************************************)
LEMMA LLDPTypesHave ==
  /\ EtherIn(LLDPTypes) /\ LLDPTypes["class"] = {"LLDP"} /\ "class" \in DOMAIN LLDPTypes
  /\ LLDPIn(LLDPTypes)
<1> DEFINE U == LLDPExtra
<1>1. /\ DOMAIN U = {"optionalTLVList", "len"} \cup Three
      /\ U["chassisId"] = TLVType /\ U["portId"] = TLVType /\ U["ttl"] = TLVType
      /\ U["optionalTLVList"] = Seq(TLVType) /\ U["len"] = Nat
  BY DEF LLDPExtra, Three
<1> HIDE DEF U
<1>2. DOMAIN U \cap (EtherFields \cup {"class"}) = {}
  BY <1>1 DEF EtherFields, Three
<1>3. /\ EtherIn(LLDPTypes) /\ LLDPTypes["class"] = {"LLDP"} /\ "class" \in DOMAIN LLDPTypes
      /\ Extends(LLDPTypes, U)
  BY <1>2, OnEtherHas DEF LLDPTypes, U
<1>4. LLDPIn(LLDPTypes)
  BY <1>1, <1>3 DEF LLDPIn, Extends, Three
<1>5. QED
  BY <1>3, <1>4

(***************************************************************************)
(* What their values are.                                                  *)
(***************************************************************************)
LEMMA LLDPFields ==
  ASSUME NEW T, LLDPIn(T), NEW p, Of(p, T)
  PROVE  /\ p.chassisId \in TLVType /\ p.portId \in TLVType /\ p.ttl \in TLVType
         /\ p.optionalTLVList \in Seq(TLVType) /\ p.len \in Nat
BY DEF LLDPIn, Of, Three

(***************************************************************************)
(* There is room for TLVs, lists and lengths.                              *)
(***************************************************************************)
LEMMA LLDPRoom ==
  ASSUME NEW T, LLDPIn(T)
  PROVE  /\ \A x \in Three, t \in TLVType : Room(T, x, t)
         /\ \A list \in Seq(TLVType) : Room(T, "optionalTLVList", list)
         /\ \A n \in Nat : Room(T, "len", n)
BY DEF LLDPIn, Room, Three

(* what a TLV that is set adds to the length *)

(***************************************************************************)
(* What a TLV that may not be set adds to the length.                      *)
(***************************************************************************)
SetLen(t) == IF t.type = 0 THEN 0 ELSE TLVLen(t)

(***************************************************************************)
(* The length counts the TLVs that are set (setChassisId, setPortId,       *)
(* setTTL, addOptionalTLV).                                                *)
(***************************************************************************)
Counted(p) ==
  p.len = SumOfLens(p.optionalTLVList) + (SetLen(p.chassisId) + SetLen(p.portId) + SetLen(p.ttl))

(***************************************************************************)
(* The length counts all that StreamTo writes.                             *)
(***************************************************************************)
Full(p) == p.len = SumOfLens(p.optionalTLVList) + MandatoryLen(p)

(***************************************************************************)
(* A TLV that every packet has is not set.                                 *)
(***************************************************************************)
Lacks(p) == \E x \in Three : p[x].type = 0

(***************************************************************************)
(* What SetLen is.                                                         *)
(***************************************************************************)
LEMMA SetLens == \A t \in TLVType : SetLen(t) \in Nat /\ (t.type # 0 => SetLen(t) = TLVLen(t))
BY TLVTyped DEF SetLen

(***************************************************************************)
(* A length that counts what is set counts all, unless a TLV is not set:   *)
(* then it counts less.                                                    *)
(***************************************************************************)
LEMMA CountedIsFull ==
  ASSUME NEW T, LLDPIn(T), NEW p, Of(p, T)
  PROVE  /\ SumOfLens(p.optionalTLVList) \in Nat /\ MandatoryLen(p) \in Nat /\ MandatoryLen(p) >= 6
         /\ Counted(p) => Full(p) \/ Lacks(p)
         /\ Counted(p) => p.len <= SumOfLens(p.optionalTLVList) + MandatoryLen(p)
<1> DEFINE a == p.chassisId
           b == p.portId
           c == p.ttl
           s == SumOfLens(p.optionalTLVList)
<1>1. a \in TLVType /\ b \in TLVType /\ c \in TLVType /\ s \in Nat /\ p.len \in Nat
  BY LLDPFields, TLVsWritten
<1>2. /\ TLVLen(a) \in Nat /\ TLVLen(a) >= 2 /\ TLVLen(b) \in Nat /\ TLVLen(b) >= 2
      /\ TLVLen(c) \in Nat /\ TLVLen(c) >= 2
  BY <1>1, TLVTyped
<1>3. MandatoryLen(p) = TLVLen(a) + TLVLen(b) + TLVLen(c)
  BY DEF MandatoryLen
<1>4. Counted(p) => p.len = s + (SetLen(a) + SetLen(b) + SetLen(c))
  BY DEF Counted
<1>5. a = p["chassisId"] /\ b = p["portId"] /\ c = p["ttl"]
  OBVIOUS
<1>6. Full(p) <=> p.len = s + MandatoryLen(p)
  BY DEF Full
<1> HIDE DEF a, b, c, s
<1>7. (a.type = 0 \/ b.type = 0 \/ c.type = 0) => Lacks(p)
  BY <1>5 DEF Lacks, Three
<1>8. \A t \in {a, b, c} : SetLen(t) = 0 \/ SetLen(t) = TLVLen(t)
  BY DEF SetLen
<1>9. \A t \in {a, b, c} : t.type # 0 => SetLen(t) = TLVLen(t)
  BY DEF SetLen
<1>10. /\ SetLen(a) = 0 \/ SetLen(a) = TLVLen(a)
       /\ SetLen(b) = 0 \/ SetLen(b) = TLVLen(b)
       /\ SetLen(c) = 0 \/ SetLen(c) = TLVLen(c)
  BY <1>8
<1>11. Counted(p) => Full(p) \/ Lacks(p)
  BY <1>3, <1>4, <1>6, <1>7, <1>9
<1>12. Counted(p) => p.len <= s + MandatoryLen(p)
  BY <1>1, <1>2, <1>3, <1>4, <1>10
<1>13. QED
  BY <1>1, <1>2, <1>3, <1>11, <1>12 DEF s

(***************************************************************************)
(* A new LLDP packet counts none.                                          *)
(***************************************************************************)
LEMMA NewLLDPOf == Of(NewLLDP, LLDPTypes) /\ Counted(NewLLDP) /\ NewLLDP["optionalTLVList"] = <<>>
<1> DEFINE mac == <<\h01, \h80, \hc2, \h00, \h00, \h0e>>
           q == [chassisId |-> TLV(0, <<>>), portId |-> TLV(0, <<>>), ttl |-> TLV(0, <<>>),
                 optionalTLVList |-> <<>>, len |-> 0]
           e == [NewEthernet("LLDP", LLDPType) EXCEPT !.dmac = mac]
<1>1. mac \in Mac
  BY MacsFit
<1>2. <<>> \in Seq(Byte) /\ <<>> \in Seq(TLVType) /\ 0 \in Nat /\ 0 \in Int
  OBVIOUS
<1>3. TLV(0, <<>>) \in TLVType /\ TLV(0, <<>>).type = 0
  BY <1>2, TLVTyped
<1>5. /\ DOMAIN q = Three \cup {"optionalTLVList", "len"} /\ q["chassisId"] = TLV(0, <<>>)
      /\ q["portId"] = TLV(0, <<>>) /\ q["ttl"] = TLV(0, <<>>) /\ q["optionalTLVList"] = <<>> /\
           q["len"] = 0
  BY DEF Three
<1>4. Of(q, LLDPExtra)
  <2>1. Function(q, Three \cup {"optionalTLVList", "len"})
    BY Zenon DEF Function, Three
  <2> HIDE DEF q
  <2>2. /\ DOMAIN LLDPExtra = Three \cup {"optionalTLVList", "len"}
        /\ LLDPExtra["chassisId"] = TLVType /\ LLDPExtra["portId"] = TLVType /\
             LLDPExtra["ttl"] = TLVType
        /\ LLDPExtra["optionalTLVList"] = Seq(TLVType) /\ LLDPExtra["len"] = Nat
    BY DEF LLDPExtra, Three
  <2>3. \A x \in Three \cup {"optionalTLVList", "len"} : q[x] \in LLDPExtra[x]
    BY <1>2, <1>3, <1>5, <2>2 DEF Three
  <2>4. QED
    BY <2>1, <2>2, <2>3 DEF Of
<1>6. NewLLDP = Joined(e, q)
  BY Zenon DEF NewLLDP
<1>7. DOMAIN e = EtherFields \cup {"class"}
  BY DEF NewEthernet, EtherFields
<1> HIDE DEF q, mac
<1>8. Of(Joined(e, q), LLDPTypes)
  BY <1>1, <1>4, OnEtherOf, TypeNumbers DEF LLDPTypes
<1> HIDE DEF e
<1>9. \A x \in DOMAIN q \ DOMAIN e : Joined(e, q)[x] = q[x]
  BY JoinedIs
<1>10. \A x \in DOMAIN q : x \in DOMAIN q \ DOMAIN e
  BY <1>5, <1>7 DEF EtherFields, Three
<1> DEFINE p == NewLLDP
<1>11. /\ p["chassisId"] = TLV(0, <<>>) /\ p["portId"] = TLV(0, <<>>) /\ p["ttl"] = TLV(0, <<>>)
       /\ p["optionalTLVList"] = <<>> /\ p["len"] = 0
  BY <1>5, <1>6, <1>9, <1>10 DEF Three
<1>12. SetLen(TLV(0, <<>>)) = 0
  BY <1>3 DEF SetLen
<1>13. Counted(p)
  <2> HIDE DEF p
  <2>1. /\ SumOfLens(p.optionalTLVList) = 0 /\ SetLen(p.chassisId) = 0 /\ SetLen(p.portId) = 0
        /\ SetLen(p.ttl) = 0 /\ p.len = 0
    BY <1>11, <1>12, SumOfNone
  <2>2. QED
    BY <2>1 DEF Counted
<1>14. QED
  BY <1>6, <1>8, <1>11, <1>13

(***************************************************************************)
(* Setting a TLV for the first time counts it.                             *)
(***************************************************************************)
LEMMA SetMandatoryOf ==
  ASSUME NEW p, Of(p, LLDPTypes), Counted(p), NEW x \in Three, p[x].type = 0,
         NEW t \in TLVType, t.type # 0
  PROVE  Of(SetMandatory(p, x, t), LLDPTypes) /\ Counted(SetMandatory(p, x, t))
<1> DEFINE T == LLDPTypes
           q == Put(p, x, t)
           n == p["len"] + TLVLen(t)
           s == Put(q, "len", n)
<1>1. SetMandatory(p, x, t) = s
  BY Zenon DEF SetMandatory, Put
<1>2. LLDPIn(T)
  BY LLDPTypesHave
<1>3. /\ {"optionalTLVList", "len"} \cup Three \subseteq DOMAIN T /\ "len" \notin Three
      /\ "optionalTLVList" \notin Three
  BY <1>2 DEF LLDPIn, Three
<1> HIDE DEF T
<1>4. Of(q, T) /\ q[x] = t /\ \A y \in DOMAIN T \ {x} : q[y] = p[y]
  BY <1>2, LLDPRoom, PutOf DEF T
<1> HIDE DEF q
<1>5. q["len"] = p["len"] /\ p["len"] \in Nat /\ TLVLen(t) \in Nat
  BY <1>2, <1>3, <1>4, LLDPFields, TLVTyped DEF T
<1>6. n \in Nat /\ n = p["len"] + TLVLen(t)
  BY <1>5
<1> HIDE DEF n
<1>7. Of(s, T) /\ s["len"] = n /\ \A y \in DOMAIN T \ {"len"} : s[y] = q[y]
  BY <1>2, <1>4, <1>6, LLDPRoom, PutOf, SMTT(30)
<1> HIDE DEF s
<1>8. /\ s[x] = t /\ (\A y \in Three \ {x} : s[y] = p[y]) /\
           s["optionalTLVList"] = p["optionalTLVList"]
  BY <1>3, <1>4, <1>7
<1>9. /\ p.chassisId \in TLVType /\ p.portId \in TLVType /\ p.ttl \in TLVType
      /\ SumOfLens(p.optionalTLVList) \in Nat
  BY <1>2, LLDPFields, TLVsWritten DEF T
<1>10. /\ SetLen(p.chassisId) \in Nat /\ SetLen(p.portId) \in Nat /\ SetLen(p.ttl) \in Nat
       /\ SetLen(t) = TLVLen(t) /\ SetLen(p[x]) = 0
  <2>1. SetLen(p[x]) = 0
    BY DEF SetLen
  <2>2. QED
    BY <1>9, <2>1, SetLens
<1>11. p["len"] = SumOfLens(p.optionalTLVList) + (SetLen(p.chassisId) + SetLen(p.portId) + SetLen(p.ttl))
  BY DEF Counted
<1>12. SumOfLens(s.optionalTLVList) = SumOfLens(p.optionalTLVList)
  BY <1>8
<1> DEFINE l == SumOfLens(p.optionalTLVList)
           m == TLVLen(t)
<1>13. s["len"] = l + (SetLen(p.chassisId) + SetLen(p.portId) + SetLen(p.ttl)) + m
  BY <1>6, <1>7, <1>11
<1> HIDE DEF l, m
<1>14. ASSUME x = "chassisId" PROVE s.len =
                SumOfLens(s.optionalTLVList) + (SetLen(s.chassisId) + SetLen(s.portId) + SetLen(s.ttl))
  <2>1. SetLen(s.chassisId) = m /\ SetLen(s.portId) = SetLen(p.portId) /\
        SetLen(s.ttl) = SetLen(p.ttl)
        /\ SetLen(p.chassisId) = 0
    BY <1>8, <1>10, <1>14 DEF Three, m
  <2>2. s["len"] = l + (SetLen(s.chassisId) + SetLen(s.portId) + SetLen(s.ttl))
    BY <1>5, <1>9, <1>10, <1>13, <2>1 DEF l, m
  <2>3. QED
    BY <1>12, <2>2 DEF l
<1>15. ASSUME x = "portId" PROVE s.len =
                SumOfLens(s.optionalTLVList) + (SetLen(s.chassisId) + SetLen(s.portId) + SetLen(s.ttl))
  <2>1. SetLen(s.portId) = m /\ SetLen(s.chassisId) = SetLen(p.chassisId) /\
        SetLen(s.ttl) = SetLen(p.ttl)
        /\ SetLen(p.portId) = 0
    BY <1>8, <1>10, <1>15 DEF Three, m
  <2>2. s["len"] = l + (SetLen(s.chassisId) + SetLen(s.portId) + SetLen(s.ttl))
    BY <1>5, <1>9, <1>10, <1>13, <2>1 DEF l, m
  <2>3. QED
    BY <1>12, <2>2 DEF l
<1>16. ASSUME x = "ttl" PROVE s.len =
                SumOfLens(s.optionalTLVList) + (SetLen(s.chassisId) + SetLen(s.portId) + SetLen(s.ttl))
  <2>1. SetLen(s.ttl) = m /\ SetLen(s.portId) = SetLen(p.portId) /\
        SetLen(s.chassisId) = SetLen(p.chassisId)
        /\ SetLen(p.ttl) = 0
    BY <1>8, <1>10, <1>16 DEF Three, m
  <2>2. s["len"] = l + (SetLen(s.chassisId) + SetLen(s.portId) + SetLen(s.ttl))
    BY <1>5, <1>9, <1>10, <1>13, <2>1 DEF l, m
  <2>3. QED
    BY <1>12, <2>2 DEF l
<1>17. Counted(s)
  <2>1. x = "chassisId" \/ x = "portId" \/ x = "ttl"
    BY DEF Three
  <2>2. s.len = SumOfLens(s.optionalTLVList) + (SetLen(s.chassisId) + SetLen(s.portId) + SetLen(s.ttl))
    BY <1>14, <1>15, <1>16, <2>1, Zenon
  <2>3. QED
    BY <2>2 DEF Counted
<1>18. QED
  BY <1>1, <1>7, <1>17 DEF T

(***************************************************************************)
(* The value of a TLV is set from bytes and a length.                      *)
(***************************************************************************)
LEMMA SetValueOf ==
  ASSUME NEW t \in TLVType, NEW data \in Seq(Byte), NEW length \in Nat, length <= Len(data) \/
           length > Len(t.value)
  PROVE  SetValue(t, length, data) \in TLVType
<1>1. t.type \in Int /\ t.value \in Seq(Byte)
  BY TLVTyped
<1>2. CASE length <= Len(t.value)
  <2>1. SubSeq(data, 1, length) \in Seq(Byte)
    BY <1>1, <1>2, RestOf
  <2>2. QED
    BY <1>1, <1>2, <2>1, TLVTyped DEF SetValue
<1>3. CASE ~(length <= Len(t.value))
  BY <1>3 DEF SetValue
<1>4. QED
  BY <1>2, <1>3

(***************************************************************************)
(* Adding a TLV to the list counts it.                                     *)
(***************************************************************************)
LEMMA addOptionalTLVOf ==
  ASSUME NEW p, Of(p, LLDPTypes), Counted(p), NEW t \in TLVType
  PROVE  Of(addOptionalTLV(p, t), LLDPTypes) /\ Counted(addOptionalTLV(p, t))
<1> DEFINE T == LLDPTypes
           more == Append(p["optionalTLVList"], t)
           q == Put(p, "optionalTLVList", more)
           n == q["len"] + TLVLen(t)
           s == Put(q, "len", n)
<1>1. addOptionalTLV(p, t) = s
  BY Zenon DEF addOptionalTLV, Put
<1>2. LLDPIn(T)
  BY LLDPTypesHave
<1>3. {"optionalTLVList", "len"} \cup Three \subseteq DOMAIN T
  BY <1>2 DEF LLDPIn
<1> HIDE DEF T
<1>4. p.optionalTLVList \in Seq(TLVType) /\ p["len"] \in Nat
  BY <1>2, LLDPFields DEF T
<1>5. more \in Seq(TLVType) /\ SumOfLens(more) = SumOfLens(p.optionalTLVList) + TLVLen(t)
  BY <1>4, SumOfMore
<1> HIDE DEF more
<1>6. Of(q, T) /\ q["optionalTLVList"] = more /\
      \A y \in DOMAIN T \ {"optionalTLVList"} : q[y] = p[y]
  BY <1>2, <1>5, LLDPRoom, PutOf DEF T
<1> HIDE DEF q
<1>7. q["len"] = p["len"] /\ TLVLen(t) \in Nat
  BY <1>3, <1>6, TLVTyped
<1>8. n \in Nat /\ n = p["len"] + TLVLen(t)
  BY <1>4, <1>7
<1> HIDE DEF n
<1>9. Of(s, T) /\ s["len"] = n /\ \A y \in DOMAIN T \ {"len"} : s[y] = q[y]
  BY <1>2, <1>6, <1>8, LLDPRoom, PutOf
<1> HIDE DEF s
<1>10. (\A y \in Three : s[y] = p[y]) /\ s["optionalTLVList"] = more
  BY <1>3, <1>6, <1>9 DEF Three
<1>11. p["len"] = SumOfLens(p.optionalTLVList) + (SetLen(p.chassisId) + SetLen(p.portId) + SetLen(p.ttl))
  BY DEF Counted
<1>12. s.chassisId = p.chassisId /\ s.portId = p.portId /\ s.ttl = p.ttl
  BY <1>10 DEF Three
<1>13. /\ SetLen(p.chassisId) \in Nat /\ SetLen(p.portId) \in Nat /\ SetLen(p.ttl) \in Nat
       /\ SumOfLens(p.optionalTLVList) \in Nat
  BY <1>2, LLDPFields, SetLens, TLVsWritten DEF T
<1>14. s.len = SumOfLens(s.optionalTLVList) + (SetLen(s.chassisId) + SetLen(s.portId) + SetLen(s.ttl))
  <2> DEFINE l == SumOfLens(p.optionalTLVList)
             m == TLVLen(t)
             k == SetLen(p.chassisId) + SetLen(p.portId) + SetLen(p.ttl)
  <2>1. k \in Nat /\ l \in Nat /\ m \in Nat /\ s["len"] = (l + k) + m
    BY <1>7, <1>8, <1>9, <1>11, <1>13
  <2>2. SumOfLens(s.optionalTLVList) = l + m
    BY <1>5, <1>10
  <2>3. SetLen(s.chassisId) + SetLen(s.portId) + SetLen(s.ttl) = k
    BY <1>12
  <2> HIDE DEF l, m, k
  <2>4. QED
    BY <2>1, <2>2, <2>3
<1>15. Counted(s)
  BY <1>14 DEF Counted
<1>16. QED
  BY <1>1, <1>9, <1>15 DEF T

-----------------------------------------------------------------------------

(***************************************************************************)
(* A value taken from the head of the stream.                              *)
(***************************************************************************)
LEMMA TakenOf ==
  ASSUME NEW T, NEW r, Reads(r, T), NEW name, NEW value, Room(T, name, value),
         NEW size \in Nat, size <= Len(r.rest)
  PROVE  /\ Reads(Taken(r, name, value, size), T) /\ Taken(r, name, value, size).p[name] = value
         /\ \A x \in DOMAIN T \ {name} : Taken(r, name, value, size).p[x] = r.p[x]
         /\ Taken(r, name, value, size).good = r.good
<1> DEFINE s == Taken(r, name, value, size)
<1>1. Stream(r, DOMAIN T) /\ Of(r.p, T)
  BY ReadsStream
<1>2. name \in DOMAIN T /\ value \in T[name]
  BY DEF Room
<1>3. TookFrom(r, s, name, value, size, DOMAIN T)
  BY <1>1, <1>2, TakenSound
<1> HIDE DEF s
<1>4. /\ Stream(s, DOMAIN T) /\ s.p[name] = value /\ \A x \in DOMAIN T \ {name} : s.p[x] = r.p[x]
      /\ s.good = r.good
  BY <1>3 DEF TookFrom
<1>5. \A x \in DOMAIN T : s.p[x] \in T[x]
  BY <1>1, <1>2, <1>4 DEF Of
<1>6. Reads(s, T)
  BY <1>4, <1>5, StreamReads
<1>7. QED
  BY <1>4, <1>6 DEF s

(***************************************************************************)
(* Reading one of the three leaves the fields of LLDP.                     *)
(***************************************************************************)
LEMMA MandatoryRead ==
  ASSUME NEW T, LLDPIn(T), NEW r, Reads(r, T), NEW field, field[1] \in Three, field[2] \in Nat
  PROVE  Reads(ReadMandatory(r, field), T)
<1> DEFINE t == TLVOf(r.rest)
           n == TLVLen(t)
           x == field[1]
<1>1. r.rest \in Seq(Byte)
  BY DEF Reads
<1>2. t \in TLVType /\ (t.type >= 0 => n <= Len(r.rest))
  BY <1>1, TLVOfTyped
<1>3. n \in Nat
  BY <1>2, TLVTyped
<1>4. ReadMandatory(r, field) = IF ~r.good \/
      t.type # field[2] THEN Failed(r) ELSE Taken(r, x, t, n)
  BY Zenon DEF ReadMandatory
<1>5. Room(T, x, t)
  BY <1>2, LLDPRoom
<1> HIDE DEF t, n, x
<1>6. CASE ~r.good \/ t.type # field[2]
  BY <1>4, <1>6, FailedOf
<1>7. CASE ~(~r.good \/ t.type # field[2])
  <2>1. n <= Len(r.rest)
    BY <1>2, <1>7
  <2>2. Reads(Taken(r, x, t, n), T)
    BY <1>3, <1>5, <2>1, TakenOf
  <2>3. QED
    BY <1>4, <1>7, <2>2
<1>8. QED
  BY <1>6, <1>7

(***************************************************************************)
(* So does reading the optional ones.                                      *)
(***************************************************************************)
LEMMA OptionalRead ==
  ASSUME NEW T, LLDPIn(T), NEW r, Reads(r, T)
  PROVE  Reads(ReadOptional(r), T)
<1> DEFINE found == OptionalTLVs(r.rest)
           list == r.p["optionalTLVList"] \o found.list
           q == Put(r.p, "optionalTLVList", list)
           rest == Ending(r.rest, found.left)
<1>1. r.rest \in Seq(Byte) /\ Of(r.p, T)
  BY DEF Reads
<1>2. Goal(found, Len(r.rest))
  BY <1>1, OptionalTLVsSound
<1>3. ReadOptional(r) = [p |-> q, rest |-> rest, good |-> found.good]
  BY Zenon DEF ReadOptional, Put
<1> HIDE DEF found
<1>4. found.list \in Seq(TLVType) /\ found.left \in 0..Len(r.rest) /\ found.good \in BOOLEAN
  BY <1>2 DEF Goal
<1>5. rest \in Seq(Byte)
  BY <1>1, <1>4, EndingOf
<1>6. r.p["optionalTLVList"] \in Seq(TLVType)
  BY <1>1 DEF Of, LLDPIn
<1>7. list \in Seq(TLVType)
  BY <1>4, <1>6
<1> HIDE DEF list, rest
<1>8. Room(T, "optionalTLVList", list)
  BY <1>7, LLDPRoom
<1>9. Of(q, T)
  BY <1>1, <1>8, PutFirst
<1> HIDE DEF q
<1>10. QED
  BY <1>3, <1>4, <1>5, <1>9 DEF Reads

(***************************************************************************)
(* What ends well has counted all.                                         *)
(***************************************************************************)
LEMMA EndRead ==
  ASSUME NEW T, LLDPIn(T), NEW r, Reads(r, T)
  PROVE  Reads(ReadEnd(r), T) /\ (ReadEnd(r).good => Full(ReadEnd(r).p))
<1> DEFINE n == SumOfLens(r.p.optionalTLVList) + MandatoryLen(r.p)
           q == r.p
<1>1. r.rest \in Seq(Byte) /\ Of(q, T) /\ Len(r.rest) \in Nat
  BY DEF Reads
<1>2. ReadEnd(r) = IF ~r.good \/ Len(r.rest) < 2 THEN Failed(r) ELSE Taken(r, "len", n, 2)
  BY Zenon DEF ReadEnd
<1>3. n = SumOfLens(q.optionalTLVList) + MandatoryLen(q)
  OBVIOUS
<1> HIDE DEF q, n
<1>4. n \in Nat
  BY <1>1, <1>3, CountedIsFull
<1>5. CASE ~r.good \/ Len(r.rest) < 2
  BY <1>2, <1>5, FailedOf
<1>6. CASE ~(~r.good \/ Len(r.rest) < 2)
  <2> DEFINE s == Taken(r, "len", n, 2)
  <2>1. Room(T, "len", n) /\ 2 \in Nat /\ 2 <= Len(r.rest)
    BY <1>1, <1>4, <1>6, LLDPRoom
  <2>2. Reads(s, T) /\ s.p["len"] = n /\ \A x \in DOMAIN T \ {"len"} : s.p[x] = r.p[x]
    BY <2>1, TakenOf
  <2> HIDE DEF s
  <2> DEFINE u == s.p
  <2>3. u["len"] = n /\ \A x \in DOMAIN T \ {"len"} : u[x] = q[x]
    BY <2>2 DEF q
  <2>4. {"optionalTLVList", "len"} \cup Three \subseteq DOMAIN T
    BY DEF LLDPIn
  <2> HIDE DEF u
  <2>5. /\ u.optionalTLVList = q.optionalTLVList /\ u.chassisId = q.chassisId
        /\ u.portId = q.portId /\ u.ttl = q.ttl /\ u.len = n
    BY <2>3, <2>4 DEF Three
  <2>6. MandatoryLen(u) = MandatoryLen(q)
    BY <2>5, Zenon DEF MandatoryLen
  <2>7. Full(u)
    BY <1>3, <2>5, <2>6, Zenon DEF Full
  <2>8. QED
    BY <1>2, <1>6, <2>2, <2>7 DEF s, u
<1>7. QED
  BY <1>5, <1>6

(***************************************************************************)
(* The three, in the order they are read.                                  *)
(***************************************************************************)
LEMMA MandatoryFields ==
  /\ Mandatory[1][1] \in Three /\ Mandatory[1][2] = 1
  /\ Mandatory[2][1] \in Three /\ Mandatory[2][2] = 2
  /\ Mandatory[3][1] \in Three /\ Mandatory[3][2] = 3
  /\ DOMAIN Mandatory = {1, 2, 3} /\ {Mandatory[i][1] : i \in DOMAIN Mandatory} = Three
<1>1. /\ Mandatory[1] = <<"chassisId", 1>> /\ Mandatory[2] = <<"portId", 2>> /\
           Mandatory[3] = <<"ttl", 3>>
      /\ DOMAIN Mandatory = 1..3 /\ 1..3 = {1, 2, 3}
  BY DEF Mandatory
<1>2. /\ Mandatory[1][1] = "chassisId" /\ Mandatory[1][2] = 1
      /\ Mandatory[2][1] = "portId" /\ Mandatory[2][2] = 2
      /\ Mandatory[3][1] = "ttl" /\ Mandatory[3][2] = 3
  BY <1>1
<1>3. DOMAIN Mandatory = {1, 2, 3}
  BY <1>1
<1>4. {Mandatory[i][1] : i \in DOMAIN Mandatory} = {"chassisId", "portId", "ttl"}
  BY <1>2, <1>3
<1>5. QED
  BY <1>2, <1>3, <1>4 DEF Three

(***************************************************************************)
(* What is read from any bytes has the fields of LLDP, and where the       *)
(* reading ends well its length counts all of them.                        *)
(***************************************************************************)
LEMMA LLDPReads ==
  ASSUME NEW r, Reads(r, LLDPTypes)
  PROVE  /\ Reads(LLDPStreamFrom(r), LLDPTypes)
         /\ LLDPStreamFrom(r).good => Full(LLDPStreamFrom(r).p)
<1> DEFINE T == LLDPTypes
           a == EthernetStreamFrom(r)
           b == ReadMandatory(a, Mandatory[1])
           c == ReadMandatory(b, Mandatory[2])
           d == ReadMandatory(c, Mandatory[3])
           e == ReadOthers(d)
<1>1. EtherIn(T) /\ LLDPIn(T)
  BY LLDPTypesHave
<1>2. 1 \in Nat /\ 2 \in Nat /\ 3 \in Nat
  OBVIOUS
<1>3. LLDPStreamFrom(r) = ReadEnd(e)
  BY Zenon DEF LLDPStreamFrom, ReadThree
<1>4. Reads(a, T)
  BY <1>1, EtherMoves DEF Moves
<1> HIDE DEF T, a
<1>5. Reads(b, T)
  BY <1>1, <1>2, <1>4, MandatoryFields, MandatoryRead
<1> HIDE DEF b
<1>6. Reads(c, T)
  BY <1>1, <1>2, <1>5, MandatoryFields, MandatoryRead
<1> HIDE DEF c
<1>7. Reads(d, T)
  BY <1>1, <1>2, <1>6, MandatoryFields, MandatoryRead
<1> HIDE DEF d
<1>8. Reads(e, T)
  BY <1>1, <1>7, OptionalRead DEF ReadOthers
<1> HIDE DEF e
<1>9. Reads(ReadEnd(e), T) /\ (ReadEnd(e).good => Full(ReadEnd(e).p))
  BY <1>1, <1>8, EndRead
<1>10. QED
  BY <1>3, <1>9 DEF T

(***************************************************************************)
(* How many bytes LLDP writes.                                             *)
(***************************************************************************)
LEMMA LLDPWritten ==
  ASSUME NEW p, Of(p, LLDPTypes)
  PROVE  /\ LLDPStreamTo(p) \in Seq(Byte)
         /\ Len(LLDPStreamTo(p)) =
              EthernetLen(p) + (SumOfLens(p.optionalTLVList) + MandatoryLen(p)) + 2
<1> DEFINE a == EthernetStreamTo(p)
           b == TLVStreamTo(p.chassisId)
           c == TLVStreamTo(p.portId)
           d == TLVStreamTo(p.ttl)
           e == TLVBytes(p.optionalTLVList)
           f == <<0, 0>>
           l == SumOfLens(p.optionalTLVList)
<1>1. LLDPStreamTo(p) = a \o b \o c \o d \o e \o f
  BY Zenon DEF LLDPStreamTo, TLVBytes
<1>2. EtherIn(LLDPTypes) /\ LLDPIn(LLDPTypes)
  BY LLDPTypesHave
<1>3. a \in Seq(Byte) /\ Len(a) = EthernetLen(p) /\ EthernetLen(p) \in Nat
  BY <1>2, EtherWritten
<1>4. /\ p.chassisId \in TLVType /\ p.portId \in TLVType /\ p.ttl \in TLVType
      /\ p.optionalTLVList \in Seq(TLVType)
  BY <1>2, LLDPFields
<1>5. /\ b \in Seq(Byte) /\ Len(b) = TLVLen(p.chassisId) /\ c \in Seq(Byte) /\
           Len(c) = TLVLen(p.portId)
      /\ d \in Seq(Byte) /\ Len(d) = TLVLen(p.ttl)
  BY <1>4, TLVWritten DEF Exactly
<1>6. e \in Seq(Byte) /\ Len(e) = l /\ l \in Nat
  BY <1>4, TLVsWritten DEF Exactly
<1>7. f \in Seq(Byte) /\ Len(f) = 2
  BY TagValues, Pieces
<1>8. MandatoryLen(p) = Len(b) + Len(c) + Len(d)
  BY <1>5, Zenon DEF MandatoryLen
<1>9. Len(b) \in Nat /\ Len(c) \in Nat /\ Len(d) \in Nat
  BY <1>5
<1> HIDE DEF a, b, c, d, e, f, l
<1>10. a \o b \in Seq(Byte) /\ Len(a \o b) = Len(a) + Len(b)
  BY <1>3, <1>5, BytesAndBytes
<1>11. a \o b \o c \in Seq(Byte) /\ Len(a \o b \o c) = Len(a) + Len(b) + Len(c)
  BY <1>5, <1>10, BytesAndBytes
<1>12. a \o b \o c \o d \in Seq(Byte) /\ Len(a \o b \o c \o d) = Len(a) + Len(b) + Len(c) + Len(d)
  BY <1>5, <1>11, BytesAndBytes
<1>13. a \o b \o c \o d \o e \in Seq(Byte)
       /\ Len(a \o b \o c \o d \o e) = Len(a) + Len(b) + Len(c) + Len(d) + Len(e)
  BY <1>6, <1>12, BytesAndBytes
<1>14. a \o b \o c \o d \o e \o f \in Seq(Byte)
       /\ Len(a \o b \o c \o d \o e \o f) = Len(a) + Len(b) + Len(c) + Len(d) + Len(e) + Len(f)
  BY <1>7, <1>13, BytesAndBytes
<1> DEFINE k == EthernetLen(p)
           m == MandatoryLen(p)
           x == Len(b)
           y == Len(c)
           z == Len(d)
<1>15. k + (l + m) + 2 = Len(a) + Len(b) + Len(c) + Len(d) + Len(e) + Len(f)
  <2>1. /\ Len(a) = k /\ Len(e) = l /\ Len(f) = 2 /\ m = x + y + z /\ k \in Nat /\ l \in Nat
        /\ x \in Nat /\ y \in Nat /\ z \in Nat
    BY <1>3, <1>6, <1>7, <1>8, <1>9
  <2> HIDE DEF k, m, x, y, z
  <2>2. k + (l + m) + 2 = k + x + y + z + l + 2
    BY <2>1
  <2>3. QED
    BY <2>1, <2>2 DEF x, y, z
<1>16. QED
  BY <1>1, <1>14, <1>15 DEF k, m, l

(***************************************************************************)
(* What operator= and the copy constructor make: operator= leaves the      *)
(* three TLVs out of the length, the copy constructor counts them.         *)
(***************************************************************************)
LEMMA LLDPAssigned ==
  ASSUME NEW p, Of(p, LLDPTypes)
  PROVE  /\ Of(LLDPAssign(p), LLDPTypes) /\ Of(LLDPCopy(p), LLDPTypes)
         /\ LLDPAssign(p).len = SumOfLens(LLDPAssign(p).optionalTLVList) /\ Full(LLDPCopy(p))
<1> DEFINE T == LLDPTypes
           l == SumOfLens(p.optionalTLVList)
           n == l + MandatoryLen(p)
           z == EthernetAssign(NewLLDP, p)
           one == p["chassisId"]
           two == p["portId"]
           three == p["ttl"]
           list == p["optionalTLVList"]
           a == Put(z, "chassisId", one)
           b == Put(a, "portId", two)
           c == Put(b, "ttl", three)
           d == Put(c, "optionalTLVList", list)
           e == Put(d, "len", l)
           f == Put(e, "len", n)
<1>1. LLDPAssign(p) = e
  BY Zenon DEF LLDPAssign, Put
<1>2. LLDPCopy(p) = f
  BY <1>1, Zenon DEF LLDPCopy, Put
<1>3. EtherIn(T) /\ LLDPIn(T)
  BY LLDPTypesHave
<1>4. Of(z, T)
  BY <1>3, NewLLDPOf, EthernetAssignOf
<1>5. l \in Nat /\ n \in Nat
  <2>1. l \in Nat /\ MandatoryLen(p) \in Nat
    BY <1>3, CountedIsFull
  <2>2. QED
    BY <2>1
<1>9. n = l + MandatoryLen(p)
  OBVIOUS
<1>6. /\ p["chassisId"] \in TLVType /\ p["portId"] \in TLVType /\ p["ttl"] \in TLVType
      /\ p["optionalTLVList"] \in Seq(TLVType)
  BY <1>3, LLDPFields
<1>7. {"optionalTLVList", "len"} \cup Three \subseteq DOMAIN T
  BY <1>3 DEF LLDPIn
<1>8. /\ Room(T, "chassisId", one) /\ Room(T, "portId", two) /\ Room(T, "ttl", three)
      /\ Room(T, "optionalTLVList", list) /\ Room(T, "len", l) /\ Room(T, "len", n)
  BY <1>3, <1>5, <1>6, LLDPRoom DEF Three
<1> HIDE DEF T, l, n, z, one, two, three, list
<1>10. Of(a, T) /\ a["chassisId"] = one
  BY <1>4, <1>8, PutOf
<1> HIDE DEF a
<1>11. Of(b, T) /\ b["portId"] = two /\ \A y \in DOMAIN T \ {"portId"} : b[y] = a[y]
  BY <1>8, <1>10, PutOf
<1> HIDE DEF b
<1>12. Of(c, T) /\ c["ttl"] = three /\ \A y \in DOMAIN T \ {"ttl"} : c[y] = b[y]
  BY <1>8, <1>11, PutOf
<1> HIDE DEF c
<1>13. /\ Of(d, T) /\ d["optionalTLVList"] = list
       /\ \A y \in DOMAIN T \ {"optionalTLVList"} : d[y] = c[y]
  BY <1>8, <1>12, PutOf
<1> HIDE DEF d
<1>14. Of(e, T) /\ e["len"] = l /\ \A y \in DOMAIN T \ {"len"} : e[y] = d[y]
  BY <1>8, <1>13, PutOf
<1> HIDE DEF e
<1>15. Of(f, T) /\ f["len"] = n /\ \A y \in DOMAIN T \ {"len"} : f[y] = e[y]
  BY <1>8, <1>14, PutOf
<1> HIDE DEF f
<1>16. /\ c["chassisId"] = p["chassisId"] /\ c["portId"] = p["portId"] /\ c["ttl"] = p["ttl"]
  BY <1>7, <1>10, <1>11, <1>12 DEF Three, one, two, three
<1>17. /\ e["optionalTLVList"] = p["optionalTLVList"] /\ f["optionalTLVList"] = p["optionalTLVList"]
  BY <1>7, <1>13, <1>14, <1>15 DEF list
<1>18. f["chassisId"] = p["chassisId"] /\ f["portId"] = p["portId"] /\ f["ttl"] = p["ttl"]
  BY <1>7, <1>13, <1>14, <1>15, <1>16 DEF Three
<1>19. f.chassisId = p.chassisId /\ f.portId = p.portId /\ f.ttl = p.ttl
  BY <1>18
<1>20. MandatoryLen(f) = MandatoryLen(p)
  BY <1>19, Zenon DEF MandatoryLen
<1>21. f.len = SumOfLens(f.optionalTLVList) + MandatoryLen(f)
  BY <1>9, <1>15, <1>17, <1>20 DEF l
<1>22. Full(f)
  BY <1>21 DEF Full
<1>23. e.len = SumOfLens(e.optionalTLVList)
  BY <1>14, <1>17 DEF l
<1>24. QED
  BY <1>1, <1>2, <1>14, <1>15, <1>22, <1>23 DEF T

-----------------------------------------------------------------------------
(***************************************************************************)
(* Four bits.                                                              *)
(***************************************************************************)
Nibble == {n \in Nat : n < 16}

(***************************************************************************)
(* Options that fit a header of 15 words.                                  *)
(***************************************************************************)
OptionBytes == {b \in Seq(Byte) : Len(b) <= 40}

(***************************************************************************)
(* The fields of IPPacket that are not written as they are (IPPacket.h).   *)
(***************************************************************************)
IPRest ==
  [version |-> Nibble, headerLength |-> Nibble, flags |-> Nibble, fragmentOffset |-> Short,
   options |-> OptionBytes, etherpayload |-> Payload \cup {Unset}]

(***************************************************************************)
(* Their names.                                                            *)
(***************************************************************************)
IPRestNames == {"version", "headerLength", "flags", "fragmentOffset", "options", "etherpayload"}

(***************************************************************************)
(* The names of those that are.                                            *)
(***************************************************************************)
IPHeadNames ==
  {"versionheader", "diffServ", "totalLength", "identification", "sscratch", "ttl", "protocol",
   "checksum", "sourceAddress", "destinationAddress"}

(***************************************************************************)
(* The fields of a packet derived from IPPacket.                           *)
(***************************************************************************)
IPTypes(class) == OnEther(class, Joined(LayoutTypes(IPHead), IPRest))

(***************************************************************************)
(* T has the fields of IPPacket.                                           *)
(***************************************************************************)
IPIn(T) ==
  /\ EtherIn(T) /\ Laid(IPHead, 10, T) /\ IPRestNames \cup IPHeadNames \subseteq DOMAIN T
  /\ T["version"] = Nibble /\ T["headerLength"] = Nibble /\ T["flags"] = Nibble
  /\ T["fragmentOffset"] = Short /\ T["options"] = OptionBytes
  /\ T["etherpayload"] = Payload \cup {Unset}
  /\ T["versionheader"] = Byte /\ T["diffServ"] = Byte /\ T["protocol"] = Byte
  /\ T["totalLength"] = Short /\ T["sscratch"] = Short /\ T["checksum"] = Short
  /\ T["sourceAddress"] = [1..4 -> Byte] /\ T["destinationAddress"] = [1..4 -> Byte]

(***************************************************************************)
(* A layout laid in S is laid in what extends S.                           *)
(***************************************************************************)
LEMMA LaidOn ==
  ASSUME NEW L, NEW n, NEW S, Laid(L, n, S), NEW T, Extends(T, S)
  PROVE  Laid(L, n, T)
<1>1. LayoutOf(L, n, DOMAIN S) /\ \A i \in 1..n : T[L[i][1]] = S[L[i][1]] /\
      S[L[i][1]] = Values(L[i][2])
  BY DEF Laid, LayoutOf, Extends
<1>2. LayoutOf(L, n, DOMAIN T)
  BY <1>1 DEF LayoutOf, Extends
<1>3. QED
  BY <1>1, <1>2 DEF Laid

(***************************************************************************)
(* The same, of the fields of EthernetPacket.                              *)
(***************************************************************************)
LEMMA EtherInOn ==
  ASSUME NEW S, EtherIn(S), NEW T, Extends(T, S)
  PROVE  EtherIn(T)
BY DEF EtherIn, Extends, EtherFields

(***************************************************************************)
(* The same, of those of IPPacket.                                         *)
(***************************************************************************)
LEMMA IPInOn ==
  ASSUME NEW S, IPIn(S), NEW T, Extends(T, S)
  PROVE  IPIn(T)
<1>1. EtherIn(T) /\ Laid(IPHead, 10, T)
  BY LaidOn, EtherInOn DEF IPIn
<1>2. /\ IPRestNames \cup IPHeadNames \subseteq DOMAIN S /\ DOMAIN S \subseteq DOMAIN T
      /\ \A x \in IPRestNames \cup IPHeadNames : T[x] = S[x]
  BY DEF IPIn, Extends
<1>3. /\ T["version"] = Nibble /\ T["headerLength"] = Nibble /\ T["flags"] = Nibble
      /\ T["fragmentOffset"] = Short /\ T["options"] = OptionBytes
      /\ T["etherpayload"] = Payload \cup {Unset}
  BY <1>2 DEF IPIn, IPRestNames
<1>4. /\ T["versionheader"] = Byte /\ T["diffServ"] = Byte /\ T["protocol"] = Byte
      /\ T["totalLength"] = Short /\ T["sscratch"] = Short /\ T["checksum"] = Short
      /\ T["sourceAddress"] = [1..4 -> Byte] /\ T["destinationAddress"] = [1..4 -> Byte]
  BY <1>2 DEF IPIn, IPHeadNames
<1>5. QED
  BY <1>1, <1>2, <1>3, <1>4 DEF IPIn

(***************************************************************************)
(* IPTypes has them.                                                       *)
(***************************************************************************)
LEMMA IPTypesHave ==
  ASSUME NEW class
  PROVE  IPIn(IPTypes(class)) /\ "class" \in DOMAIN IPTypes(class) /\
           IPTypes(class)["class"] = {class}
         /\ DOMAIN IPTypes(class) = EtherFields \cup {"class"} \cup IPHeadNames \cup IPRestNames
<1> DEFINE U == Joined(LayoutTypes(IPHead), IPRest)
           T == IPTypes(class)
<1>1. /\ DOMAIN IPRest = IPRestNames
      /\ IPRest["version"] = Nibble /\ IPRest["headerLength"] = Nibble /\ IPRest["flags"] = Nibble
      /\ IPRest["fragmentOffset"] = Short /\ IPRest["options"] = OptionBytes
      /\ IPRest["etherpayload"] = Payload \cup {Unset}
  BY DEF IPRest, IPRestNames
<1>2. DOMAIN LayoutTypes(IPHead) = IPHeadNames
  BY IPHeadIs, TypesOfLayout DEF IPHeadNames
<1>3. DOMAIN U = IPHeadNames \cup IPRestNames
  BY <1>1, <1>2, JoinedIs
<1>4. DOMAIN LayoutTypes(IPHead) \cap DOMAIN IPRest = {}
  BY <1>1, <1>2 DEF IPHeadNames, IPRestNames
<1>5. Extends(U, LayoutTypes(IPHead)) /\ Extends(U, IPRest)
  BY <1>4, JoinedExtends
<1> HIDE DEF U
<1>6. DOMAIN U \cap (EtherFields \cup {"class"}) = {}
  BY <1>3 DEF EtherFields, IPHeadNames, IPRestNames
<1>7. EtherIn(T) /\ T["class"] = {class} /\ "class" \in DOMAIN T /\ Extends(T, U)
  BY <1>6, OnEtherHas DEF IPTypes, U
<1>8. DOMAIN T = EtherFields \cup {"class"} \cup IPHeadNames \cup IPRestNames
  <2>1. DOMAIN EtherTypes(class) = EtherFields \cup {"class"}
    BY DEF EtherTypes, EtherFields
  <2>2. DOMAIN T = DOMAIN EtherTypes(class) \cup DOMAIN U
    BY JoinedIs DEF IPTypes, OnEther, U
  <2> HIDE DEF T
  <2>3. QED
    BY <1>3, <2>1, <2>2
<1> HIDE DEF T
<1>9. Extends(T, LayoutTypes(IPHead)) /\ Extends(T, IPRest)
  BY <1>5, <1>7, ExtendsSteps
<1>10. Laid(IPHead, 10, T)
  BY <1>9, IPHeadIs, ExtendsLaid
<1>11. /\ T["version"] = Nibble /\ T["headerLength"] = Nibble /\ T["flags"] = Nibble
       /\ T["fragmentOffset"] = Short /\ T["options"] = OptionBytes
       /\ T["etherpayload"] = Payload \cup {Unset}
  BY <1>1, <1>9 DEF Extends, IPRestNames
<1>12. \A x \in IPHeadNames : T[x] = LayoutTypes(IPHead)[x]
  BY <1>2, <1>9 DEF Extends
<1>13. /\ T["versionheader"] = Byte /\ T["diffServ"] = Byte /\ T["protocol"] = Byte
       /\ T["totalLength"] = Short /\ T["sscratch"] = Short /\ T["checksum"] = Short
       /\ T["sourceAddress"] = [1..4 -> Byte] /\ T["destinationAddress"] = [1..4 -> Byte]
  BY <1>12, IPHeadIs DEF IPHeadNames
<1>14. IPRestNames \cup IPHeadNames \subseteq DOMAIN T
  BY <1>8
<1>15. IPIn(T)
  BY <1>7, <1>10, <1>11, <1>13, <1>14 DEF IPIn
<1>16. QED
  BY <1>7, <1>8, <1>15 DEF T

(***************************************************************************)
(* They have room for the values put there.                                *)
(***************************************************************************)
LEMMA IPRoom ==
  ASSUME NEW T, IPIn(T)
  PROVE  /\ \A n \in Nibble : Room(T, "version", n) /\ Room(T, "headerLength", n) /\
              Room(T, "flags", n)
         /\ \A n \in Byte : Room(T, "versionheader", n) /\ Room(T, "diffServ", n) /\
              Room(T, "protocol", n)
         /\ \A n \in Short : /\ Room(T, "fragmentOffset", n) /\ Room(T, "totalLength", n)
                             /\ Room(T, "sscratch", n) /\ Room(T, "checksum", n)
         /\ \A b \in OptionBytes : Room(T, "options", b)
         /\ \A b \in Payload : Room(T, "etherpayload", b)
         /\ \A a \in [1..4 -> Byte] : Room(T, "sourceAddress", a)
<1>1. IPRestNames \cup IPHeadNames \subseteq DOMAIN T
  BY DEF IPIn
<1>2. /\ \A n \in Nibble : Room(T, "version", n) /\ Room(T, "headerLength", n) /\
           Room(T, "flags", n)
      /\ \A b \in OptionBytes : Room(T, "options", b)
      /\ \A b \in Payload : Room(T, "etherpayload", b)
  BY <1>1 DEF Room, IPIn, IPRestNames
<1>3. /\ \A n \in Byte : Room(T, "versionheader", n) /\ Room(T, "diffServ", n) /\
           Room(T, "protocol", n)
      /\ \A a \in [1..4 -> Byte] : Room(T, "sourceAddress", a)
  BY <1>1 DEF Room, IPIn, IPHeadNames
<1>4. \A n \in Short : /\ Room(T, "fragmentOffset", n) /\ Room(T, "totalLength", n)
                       /\ Room(T, "sscratch", n) /\ Room(T, "checksum", n)
  BY <1>1 DEF Room, IPIn, IPHeadNames, IPRestNames
<1>5. QED
  BY <1>2, <1>3, <1>4, Zenon

(***************************************************************************)
(* What their values are.                                                  *)
(***************************************************************************)
LEMMA IPFields ==
  ASSUME NEW T, IPIn(T), NEW p, Of(p, T)
  PROVE  /\ p.version \in Nibble /\ p.headerLength \in Nibble /\ p.flags \in Nibble
         /\ p.fragmentOffset \in Short /\ p.options \in OptionBytes
         /\ p.etherpayload \in Payload \cup {Unset}
         /\ p.versionheader \in Byte /\ p.diffServ \in Byte /\ p.protocol \in Byte
         /\ p.totalLength \in Short /\ p.sscratch \in Short /\ p.checksum \in Short
         /\ p.sourceAddress \in [1..4 -> Byte] /\ p.destinationAddress \in [1..4 -> Byte]
<1>1. IPRestNames \cup IPHeadNames \subseteq DOMAIN T /\ \A x \in DOMAIN T : p[x] \in T[x]
  BY DEF IPIn, Of
<1>2. /\ p.version \in Nibble /\ p.headerLength \in Nibble /\ p.flags \in Nibble
      /\ p.fragmentOffset \in Short /\ p.options \in OptionBytes
      /\ p.etherpayload \in Payload \cup {Unset}
  BY <1>1 DEF IPIn, IPRestNames
<1>3. /\ p.versionheader \in Byte /\ p.diffServ \in Byte /\ p.protocol \in Byte
      /\ p.totalLength \in Short /\ p.sscratch \in Short /\ p.checksum \in Short
      /\ p.sourceAddress \in [1..4 -> Byte] /\ p.destinationAddress \in [1..4 -> Byte]
  BY <1>1 DEF IPIn, IPHeadNames
<1>4. QED
  BY <1>2, <1>3

(***************************************************************************)
(* A new IP packet has them, and no options.                               *)
(***************************************************************************)
LEMMA NewIPOf ==
  ASSUME NEW class, NEW protocol \in Byte
  PROVE  Of(NewIP(class, protocol), IPTypes(class)) /\ NewIP(class, protocol)["options"] = <<>>
<1> DEFINE c == Cleared(IPHead)
           q == Put(c, "protocol", protocol)
           s == [version |-> 4, headerLength |-> 0, flags |-> 0, fragmentOffset |-> 0,
                 options |-> <<>>, etherpayload |-> Unset]
           e == NewEthernet(class, IPType)
<1>1. NewIP(class, protocol) = Joined(e, Joined(q, s))
  BY Zenon DEF NewIP, Put
<1>2. Of(c, LayoutTypes(IPHead))
  BY IPHeadIs, ClearedOf
<1>3. DOMAIN LayoutTypes(IPHead) = IPHeadNames
  BY IPHeadIs, TypesOfLayout DEF IPHeadNames
<1>4. Room(LayoutTypes(IPHead), "protocol", protocol)
  BY <1>3, IPHeadIs DEF Room, IPHeadNames
<1> HIDE DEF c
<1>5. Of(q, LayoutTypes(IPHead))
  BY <1>2, <1>4, PutOf
<1>6. 4 \in Nibble /\ 0 \in Nibble /\ 0 \in Short /\ <<>> \in OptionBytes
  <2>1. <<>> \in Seq(Byte) /\ Len(<<>>) = 0
    OBVIOUS
  <2>2. <<>> \in OptionBytes
    BY <2>1 DEF OptionBytes
  <2>3. QED
    BY <2>2, TagValues DEF Nibble
<1>7. /\ s["version"] = 4 /\ s["headerLength"] = 0 /\ s["flags"] = 0 /\ s["fragmentOffset"] = 0
      /\ s["options"] = <<>> /\ s["etherpayload"] = Unset /\ DOMAIN s = IPRestNames
  BY DEF IPRestNames
<1>8. Of(s, IPRest)
  <2>1. Function(s, IPRestNames)
    BY Zenon DEF Function, IPRestNames
  <2> HIDE DEF s
  <2>2. /\ DOMAIN IPRest = IPRestNames
        /\ IPRest["version"] = Nibble /\ IPRest["headerLength"] = Nibble /\ IPRest["flags"] = Nibble
        /\ IPRest["fragmentOffset"] = Short /\ IPRest["options"] = OptionBytes
        /\ IPRest["etherpayload"] = Payload \cup {Unset}
    BY DEF IPRest, IPRestNames
  <2>3. \A x \in IPRestNames : s[x] \in IPRest[x]
    BY <1>6, <1>7, <2>2 DEF IPRestNames
  <2>4. QED
    BY <2>1, <2>2, <2>3 DEF Of
<1> HIDE DEF q, s
<1>9. Of(Joined(q, s), Joined(LayoutTypes(IPHead), IPRest))
  BY <1>5, <1>8, OfJoined
<1>10. Of(Joined(e, Joined(q, s)), IPTypes(class))
  BY <1>9, OnEtherOf, TypeNumbers DEF IPTypes
<1>11. DOMAIN e = EtherFields \cup {"class"} /\ DOMAIN q = IPHeadNames
  <2>1. DOMAIN e = EtherFields \cup {"class"}
    BY DEF NewEthernet, EtherFields
  <2>2. QED
    BY <1>3, <1>5, <2>1, OfDomain
<1> HIDE DEF e
<1> DEFINE j == Joined(q, s)
<1>12. Joined(e, j)["options"] = <<>>
  <2>1. (\A x \in DOMAIN s \ DOMAIN q : j[x] = s[x]) /\ DOMAIN j = DOMAIN q \cup DOMAIN s
    BY JoinedIs
  <2> HIDE DEF j
  <2>2. "options" \in DOMAIN s \ DOMAIN q /\ "options" \in DOMAIN j \ DOMAIN e
    BY <1>7, <1>11, <2>1 DEF EtherFields, IPRestNames, IPHeadNames
  <2>3. \A x \in DOMAIN j \ DOMAIN e : Joined(e, j)[x] = j[x]
    BY JoinedIs
  <2>4. Joined(e, j)["options"] = j["options"] /\ j["options"] = s["options"]
    BY <2>1, <2>2, <2>3
  <2>5. QED
    BY <1>7, <2>4
<1>13. QED
  BY <1>1, <1>10, <1>12

-----------------------------------------------------------------------------
(***************************************************************************)
(* A byte has two halves.                                                  *)
(***************************************************************************)
LEMMA Halves ==
  \A v \in Byte : v \div 16 \in Nibble /\ v % 16 \in Nibble
<1>1. ASSUME NEW v \in Byte PROVE v \div 16 \in Nibble
  BY SMT DEF Byte, Nibble
<1>2. ASSUME NEW v \in Byte PROVE v % 16 \in Nibble
  BY SMT DEF Byte, Nibble
<1>3. QED
  BY <1>1, <1>2, Zenon

(***************************************************************************)
(* Two halves make a byte.                                                 *)
(***************************************************************************)
LEMMA TwoHalves ==
  \A v, w \in Nibble : 16 * (v % 16) + (w % 16) \in Byte
<1>1. ASSUME NEW v \in Nibble, NEW w \in Nibble PROVE 16 * (v % 16) + (w % 16) \in Byte
  BY SMT DEF Byte, Nibble
<1>2. QED
  BY <1>1, Zenon

(***************************************************************************)
(* The parts of 16 bits that the headers have.                             *)
(***************************************************************************)
LEMMA PartsOfShort ==
  /\ \A v \in Short : v \div 8192 \in Nibble
  /\ \A v \in Short : v % 256 \in Short
  /\ \A v \in Short : v \div 4096 \in Nibble
  /\ \A v \in Short : v % 512 \in Short
<1>1. ASSUME NEW v \in Short PROVE v \div 8192 \in Nibble
  BY SMT DEF Short, Nibble
<1>2. ASSUME NEW v \in Short PROVE v \div 4096 \in Nibble
  BY SMT DEF Short, Nibble
<1>3. ASSUME NEW v \in Short PROVE v % 256 \in Short
  BY SMT DEF Short
<1>4. ASSUME NEW v \in Short PROVE v % 512 \in Short
  BY SMT DEF Short
<1>5. \A v \in Short : v \div 8192 \in Nibble
  BY <1>1
<1>6. \A v \in Short : v \div 4096 \in Nibble
  BY <1>2
<1>7. \A v \in Short : v % 256 \in Short
  BY <1>3
<1>8. \A v \in Short : v % 512 \in Short
  BY <1>4
<1> HIDE DEF Short, Nibble
<1>10. QED
  BY <1>5, <1>6, <1>7, <1>8

(***************************************************************************)
(* Three flags and an offset make 16 bits.                                 *)
(***************************************************************************)
LEMMA FlagsAndOffset ==
  \A v \in Nibble, w \in Short : 8192 * (v % 8) + (w % 8192) \in Short
<1>0. ASSUME NEW a \in Nat, NEW b \in Nat, a < 8, b < 8192 PROVE 8192 * a + b \in Short
  <2>1. 8192 * a + b \in Nat
    BY SMT
  <2>2. 8192 * a + b < 65536
    BY <1>0, SMT
  <2> DEFINE c == 8192 * a + b
  <2> HIDE DEF c
  <2>3. c \in Nat /\ c < 65536
    BY <2>1, <2>2 DEF c
  <2>4. c \in Short
    BY <2>3 DEF Short
  <2>5. QED
    BY <2>4 DEF c
<1>1. ASSUME NEW v \in Nibble, NEW w \in Short PROVE 8192 * (v % 8) + (w % 8192) \in Short
  <2>1. v % 8 \in Nat /\ v % 8 < 8
    BY SMT DEF Nibble
  <2>2. w % 8192 \in Nat /\ w % 8192 < 8192
    BY SMT DEF Short
  <2> DEFINE a == v % 8
             b == w % 8192
  <2> HIDE DEF a, b
  <2>3. a \in Nat /\ b \in Nat /\ a < 8 /\ b < 8192
    BY <2>1, <2>2 DEF a, b
  <2>4. 8192 * a + b \in Short
    BY <2>3, <1>0
  <2>5. QED
    BY <2>4 DEF a, b
<1>2. QED
  BY <1>1

(***************************************************************************)
(* Naturals add up to a natural.                                           *)
(***************************************************************************)
LEMMA SumsAreNat ==
  ASSUME NEW n \in Nat, NEW numbers, DOMAIN numbers = 1..n, \A k \in 1..n : numbers[k] \in Nat
  PROVE  SumOf(numbers) \in Nat
<1>1. PICK h : Sums(h, numbers, n)
  BY SumOfSteps
<1>2. /\ h[0] = 0 /\ (\A k \in 1..n : h[k] = h[k - 1] + numbers[k]) /\ SumOf(numbers) = h[n]
  BY <1>1 DEF Sums
<1> DEFINE T == {k \in 0..n : h[k] \in Nat}
<1>3. 0 \in T
  BY <1>2
<1>4. ASSUME NEW k \in 0..(n - 1), k \in T PROVE k + 1 \in T
  <2>1. k + 1 \in 1..n /\ (k + 1) - 1 = k /\ k + 1 \in 0..n
    OBVIOUS
  <2>2. h[k + 1] = h[k] + numbers[k + 1] /\ h[k] \in Nat /\ numbers[k + 1] \in Nat
    BY <1>2, <1>4, <2>1
  <2>3. QED
    BY <2>1, <2>2
<1> HIDE DEF T
<1>5. \A k \in 0..n : k \in T
  BY <1>3, <1>4, Climb
<1>6. n \in T
  BY <1>5
<1>7. QED
  BY <1>2, <1>6 DEF T

(***************************************************************************)
(* So do the words of bytes.                                               *)
(***************************************************************************)
LEMMA SumOfWordsNat ==
  ASSUME NEW b \in Seq(Byte)
  PROVE  SumOfWords(b) \in Nat
<1> DEFINE n == (Len(b) + 1) \div 2
           words == [k \in 1..n |-> IF 2 * k - 1 =
             Len(b) THEN 256 * b[2 * k - 1] ELSE Word(b, 2 * k - 1)]
<1>1. SumOfWords(b) = SumOf(words)
  BY DEF SumOfWords
<1>2. Len(b) \in Nat /\ \A i \in 1..Len(b) : b[i] \in Nat
  BY DEF Byte
<1>3. n \in Nat /\ \A k \in 1..n : 2 * k - 1 \in 1..Len(b) /\ (2 * k - 1 # Len(b) =>
      (2 * k - 1) + 1 \in 1..Len(b))
  <2> DEFINE m == Len(b)
  <2> HIDE DEF m
  <2>1. m \in Nat => (m + 1) \div 2 \in Nat /\ \A k \in 1..((m + 1) \div 2) :
        2 * k - 1 \in 1..m /\ (2 * k - 1 # m => (2 * k - 1) + 1 \in 1..m)
    OBVIOUS
  <2>2. QED
    BY <1>2, <2>1 DEF m
<1>4. ASSUME NEW k \in 1..n PROVE words[k] \in Nat
  <2> DEFINE i == 2 * k - 1
  <2>1. words[k] = IF i = Len(b) THEN 256 * b[i] ELSE 256 * b[i] + b[i + 1]
    BY DEF Word
  <2>2. i \in 1..Len(b) /\ (i # Len(b) => i + 1 \in 1..Len(b))
    BY <1>3
  <2> HIDE DEF i, words
  <2>3. b[i] \in Nat /\ (i # Len(b) => b[i + 1] \in Nat)
    BY <1>2, <2>2
  <2>4. QED
    BY <2>1, <2>3
<1>5. DOMAIN words = 1..n
  OBVIOUS
<1> HIDE DEF words, n
<1>6. SumOf(words) \in Nat
  BY <1>3, <1>4, <1>5, SumsAreNat
<1>7. QED
  BY <1>1, <1>6

(***************************************************************************)
(* What the operators of the checksum make of a sum: 16 bits, however      *)
(* large it was.                                                           *)
(***************************************************************************)
LEMMA Checksums ==
  /\ \A s \in Int : Complement(s) \in Short
  /\ \A s \in Nat : FoldedOnce(s) \in Nat
  /\ \A s \in Short : Swapped(s) \in Short
<1>1. ASSUME NEW s \in Int PROVE Complement(s) \in Short
  <2> DEFINE k == s % 65536
  <2>1. Complement(s) = 65535 - k
    BY SMT DEF Complement
  <2>2. k \in Nat /\ k < 65536
    BY SMT
  <2> HIDE DEF k
  <2>3. 65535 - k \in Short
    BY <2>2, SMT DEF Short
  <2>4. QED
    BY <2>1, <2>3
<1>2. ASSUME NEW s \in Nat PROVE FoldedOnce(s) \in Nat
  <2> DEFINE a == s \div 65536
             b == s % 65536
  <2>1. a \in Nat /\ b \in Nat
    BY SMT
  <2>2. FoldedOnce(s) = a + b \/ FoldedOnce(s) = b + a
    BY SMT DEF FoldedOnce
  <2> HIDE DEF a, b
  <2>3. QED
    BY <2>1, <2>2
<1>3. ASSUME NEW s \in Short PROVE Swapped(s) \in Short
  <2> DEFINE a == s \div 256
             b == s % 256
  <2>1. a \in Byte /\ b \in Byte
    BY SMT DEF Short, Byte
  <2>2. Swapped(s) = 256 * b + a
    BY SMT DEF Swapped
  <2> HIDE DEF a, b
  <2>3. QED
    BY <2>1, <2>2, Words
<1>4. QED
  BY <1>1, <1>2, <1>3

-----------------------------------------------------------------------------

(***************************************************************************)
(* The fields that reading an IP header may change.                        *)
(***************************************************************************)
IPTouched == EtherFields \cup IPHeadNames \cup IPRestNames

(***************************************************************************)
(* Taking the head apart (version, header length, flags, offset) leaves    *)
(* the fields of IPPacket.                                                 *)
(***************************************************************************)
LEMMA IPSplitOf ==
  ASSUME NEW T, IPIn(T), NEW p, Of(p, T)
  PROVE  Of(IPSplit(p), T) /\ \A x \in DOMAIN T \ IPTouched : IPSplit(p)[x] = p[x]
<1> DEFINE v == p.versionheader \div 16
           h == p.versionheader % 16
           f == p.sscratch \div 8192
           o == p.sscratch % 256
           a == Put(p, "version", v)
           b == Put(a, "headerLength", h)
           c == Put(b, "flags", f)
           d == Put(c, "fragmentOffset", o)
           e == Put(d, "versionheader", 0)
           g == Put(e, "sscratch", 0)
<1>1. v \in Nibble /\ h \in Nibble /\ f \in Nibble /\ o \in Short
  <2> DEFINE i == p.versionheader
             j == p.sscratch
  <2>1. i \in Byte /\ j \in Short
    BY IPFields
  <2> HIDE DEF i, j
  <2>2. i \div 16 \in Nibble /\ i % 16 \in Nibble
    BY <2>1, Halves
  <2>3. j \div 8192 \in Nibble /\ j % 256 \in Short
    BY <2>1, PartsOfShort
  <2>4. QED
    BY <2>2, <2>3 DEF i, j
<1>2. IPSplit(p) = g
  <2>1. IPSplit(p) = [p EXCEPT !.version = v, !.headerLength = h, !.flags = f, !.fragmentOffset = o,
                               !.versionheader = 0, !.sscratch = 0]
    BY SMT DEF IPSplit
  <2> HIDE DEF v, h, f, o
  <2>2. QED
    BY <2>1, Zenon DEF Put
<1> HIDE DEF v, h, f, o
<1>3. /\ Room(T, "version", v) /\ Room(T, "headerLength", h) /\ Room(T, "flags", f)
      /\ Room(T, "fragmentOffset", o) /\ Room(T, "versionheader", 0) /\ Room(T, "sscratch", 0)
  <2>1. Room(T, "version", v) /\ Room(T, "headerLength", h) /\ Room(T, "flags", f)
    BY <1>1, IPRoom
  <2>2. Room(T, "fragmentOffset", o)
    BY <1>1, IPRoom
  <2>3. 0 \in Byte /\ 0 \in Short
    BY TagValues
  <2>4. Room(T, "versionheader", 0) /\ Room(T, "sscratch", 0)
    BY <2>3, IPRoom
  <2>5. QED
    BY <2>1, <2>2, <2>4
<1>4. Of(a, T) /\ \A x \in DOMAIN T \ {"version"} : a[x] = p[x]
  BY <1>3, PutOf
<1> HIDE DEF a
<1>5. Of(b, T) /\ \A x \in DOMAIN T \ {"headerLength"} : b[x] = a[x]
  BY <1>3, <1>4, PutOf
<1> HIDE DEF b
<1>6. Of(c, T) /\ \A x \in DOMAIN T \ {"flags"} : c[x] = b[x]
  BY <1>3, <1>5, PutOf
<1> HIDE DEF c
<1>7. Of(d, T) /\ \A x \in DOMAIN T \ {"fragmentOffset"} : d[x] = c[x]
  BY <1>3, <1>6, PutOf
<1> HIDE DEF d
<1>8. Of(e, T) /\ \A x \in DOMAIN T \ {"versionheader"} : e[x] = d[x]
  BY <1>3, <1>7, PutOf
<1> HIDE DEF e
<1>9. Of(g, T) /\ \A x \in DOMAIN T \ {"sscratch"} : g[x] = e[x]
  BY <1>3, <1>8, PutOf
<1> HIDE DEF g
<1>10. \A x \in DOMAIN T \ IPTouched :
         x \in DOMAIN T \ {"version"} /\ x \in DOMAIN T \ {"headerLength"} /\
           x \in DOMAIN T \ {"flags"}
         /\ x \in DOMAIN T \ {"fragmentOffset"} /\ x \in DOMAIN T \ {"versionheader"} /\
              x \in DOMAIN T \ {"sscratch"}
  BY DEF IPTouched, IPHeadNames, IPRestNames
<1>11. \A x \in DOMAIN T \ IPTouched : g[x] = p[x]
  BY <1>4, <1>5, <1>6, <1>7, <1>8, <1>9, <1>10, Zenon
<1>12. QED
  BY <1>2, <1>9, <1>11

(***************************************************************************)
(* So many zeros are bytes.                                                *)
(***************************************************************************)
LEMMA ZerosBytes ==
  ASSUME NEW n \in Nat
  PROVE  Zeros(n) \in Seq(Byte) /\ Len(Zeros(n)) = n
<1>1. Zeros(n) \in [1..n -> Byte]
  BY DEF Zeros, Byte
<1>2. QED
  BY <1>1, ByteSequence

(***************************************************************************)
(* Options that are cut short still have their length.                     *)
(***************************************************************************)
LEMMA CutMoves ==
  ASSUME NEW T, IPIn(T), NEW r, Reads(r, T), NEW n \in Nat, n <= 40
  PROVE  Moves(r, CutOptions(r, n), {"options"}, T)
<1> DEFINE q == Put(r.p, "options", Zeros(n))
           w == With(r, q)
<1>1. CutOptions(r, n) = Failed(w)
  BY Zenon DEF CutOptions, Put
<1>2. Room(T, "options", Zeros(n))
  <2>1. Zeros(n) \in OptionBytes
    BY ZerosBytes DEF OptionBytes
  <2>2. QED
    BY <2>1 DEF Room, IPIn, IPRestNames
<1>3. /\ Of(q, T)
      /\ \A x \in DOMAIN T \ {"options"} : q[x] = r.p[x]
  <2>1. Of(r.p, T)
    BY DEF Reads
  <2>2. QED
    BY <1>2, <2>1, PutFirst
<1> HIDE DEF q
<1>4. Reads(w, T) /\ w.p = q
  BY <1>3, WithOf
<1> HIDE DEF w
<1>5. Reads(Failed(w), T) /\ ~Failed(w).good /\ Failed(w).p = q
  BY <1>4, FailedOf
<1>6. QED
  BY <1>1, <1>3, <1>5 DEF Moves

(***************************************************************************)
(* So does reading the options, 40 bytes of them at most.                  *)
(***************************************************************************)
LEMMA IPOptionsMove ==
  ASSUME NEW T, IPIn(T), NEW r, Reads(r, T)
  PROVE  Moves(r, ReadIPOptions(r), IPTouched, T)
<1> DEFINE k == r.p.headerLength
           n == 4 * (k - 5)
           q == r.p
<1>1. \/ k > 5 /\ ReadIPOptions(r) = ReadBytes(r, "options", n)
      \/ k > 5 /\ ReadIPOptions(r) = CutOptions(r, n)
      \/ ~(k > 5) /\ ReadIPOptions(r) = r
  BY Zenon DEF ReadIPOptions
<1>2. Of(q, T)
  BY DEF Reads
<1>3. q.headerLength \in Nibble
  BY <1>2, IPFields
<1>4. k \in Nibble
  BY <1>3
<1>5. CASE k > 5
  <2>1. n \in Nat /\ n <= 40
    BY <1>4, <1>5 DEF Nibble
  <2>2. ReadIPOptions(r) = ReadBytes(r, "options", n) \/ ReadIPOptions(r) = CutOptions(r, n)
    BY <1>1, <1>5
  <2> HIDE DEF n, k, q
  <2>3. "options" \in DOMAIN T /\ \A b \in Seq(Byte) : Len(b) = n => b \in T["options"]
    BY <2>1 DEF IPIn, IPRestNames, OptionBytes
  <2>4. Moves(r, ReadBytes(r, "options", n), {"options"}, T)
    BY <2>1, <2>3, BytesMove
  <2>5. Moves(r, CutOptions(r, n), {"options"}, T)
    BY <2>1, CutMoves
  <2>6. {"options"} \subseteq IPTouched
    BY DEF IPTouched, IPRestNames
  <2>7. Moves(r, ReadIPOptions(r), {"options"}, T)
    BY <2>2, <2>4, <2>5
  <2>8. QED
    BY <2>6, <2>7, MovesFewer
<1>6. CASE ~(k > 5)
  <2>1. ReadIPOptions(r) = r
    BY <1>1, <1>6
  <2>2. QED
    BY <2>1, MovesNone
<1>7. QED
  BY <1>5, <1>6

(***************************************************************************)
(* So does reading the whole header (IPPacket::StreamFrom).                *)
(***************************************************************************)
LEMMA IPReads ==
  ASSUME NEW T, IPIn(T), NEW r, Reads(r, T)
  PROVE  Moves(r, IPStreamFrom(r), IPTouched, T) /\ Reads(IPStreamFrom(r), T)
<1> DEFINE a == ReadFields(EthernetStreamFrom(r), IPHead)
           q == IPSplit(a.p)
           b == With(a, q)
           c == ReadIPOptions(b)
<1>1. IPStreamFrom(r) = c
  BY Zenon DEF IPStreamFrom, ReadIPHead
<1>2. EtherIn(T) /\ Laid(IPHead, 10, T)
  BY DEF IPIn
<1>3. /\ Reads(a, T) /\ Moves(r, a, EtherFields \cup Names(IPHead), T)
  BY <1>2, EtherAndFields
<1>4. EtherFields \cup Names(IPHead) \subseteq IPTouched
  BY IPHeadIs DEF IPTouched, IPHeadNames
<1>5. Moves(r, a, IPTouched, T)
  BY <1>3, <1>4, MovesFewer
<1> HIDE DEF a
<1> DEFINE p == a.p
<1>6. Of(p, T)
  BY <1>3 DEF Reads
<1>7. Of(IPSplit(p), T) /\ \A x \in DOMAIN T \ IPTouched : IPSplit(p)[x] = p[x]
  <2> HIDE DEF p
  <2>1. QED
    BY <1>6, IPSplitOf
<1>8. Of(q, T) /\ \A x \in DOMAIN T \ IPTouched : q[x] = a.p[x]
  BY <1>7
<1> HIDE DEF p, q
<1>9. Moves(a, b, IPTouched, T) /\ Reads(b, T)
  BY <1>3, <1>8, WithMoves
<1> HIDE DEF b
<1>10. Moves(b, c, IPTouched, T)
  BY <1>9, IPOptionsMove
<1> HIDE DEF c
<1>11. Moves(r, c, (IPTouched \cup IPTouched) \cup IPTouched, T)
  BY <1>5, <1>9, <1>10, MovesOn
<1>12. (IPTouched \cup IPTouched) \cup IPTouched \subseteq IPTouched
  OBVIOUS
<1>13. QED
  BY <1>1, <1>11, <1>12, MovesFewer

(***************************************************************************)
(* The header takes 20 bytes and those of the options.                     *)
(***************************************************************************)
LEMMA IPHeaderWritten ==
  ASSUME NEW T, IPIn(T), NEW p, Of(p, T)
  PROVE  /\ IPHeader(p) \in Seq(Byte) /\ Len(IPHeader(p)) = 20 + Len(p.options)
         /\ Len(p.options) \in Nat /\ Len(p.options) <= 40
<1> DEFINE v == 16 * (p.version % 16) + (p.headerLength % 16)
           s == 8192 * (p.flags % 8) + (p.fragmentOffset % 8192)
           a == Put(p, "versionheader", v)
           b == Put(a, "sscratch", s)
           h == WriteFields(b, IPHead)
           o == p.options
<1>1. v \in Byte /\ s \in Short
  <2> DEFINE i == p.version
             j == p.headerLength
             f == p.flags
             g == p.fragmentOffset
  <2>1. i \in Nibble /\ j \in Nibble /\ f \in Nibble /\ g \in Short
    BY IPFields
  <2> HIDE DEF i, j, f, g
  <2>2. 16 * (i % 16) + (j % 16) \in Byte
    BY <2>1, TwoHalves
  <2>3. 8192 * (f % 8) + (g % 8192) \in Short
    BY <2>1, FlagsAndOffset
  <2>4. QED
    BY <2>2, <2>3 DEF i, j, f, g
<1>2. IPHeader(p) = h \o o
  <2>1. IPHeader(p) = WriteFields([p EXCEPT !.versionheader = v, !.sscratch = s], IPHead) \o o
    BY SMT DEF IPHeader
  <2> HIDE DEF v, s, o
  <2>2. QED
    BY <2>1, Zenon DEF Put
<1>3. o \in Seq(Byte) /\ Len(o) <= 40
  BY IPFields DEF OptionBytes
<1> HIDE DEF v, s
<1>4. Of(a, T)
  BY <1>1, IPRoom, PutOf
<1> HIDE DEF a
<1>5. Of(b, T)
  BY <1>1, <1>4, IPRoom, PutOf
<1> HIDE DEF b
<1>6. Laid(IPHead, 10, T)
  BY DEF IPIn
<1>7. h \in Seq(Byte) /\ Len(h) = 20
  BY <1>5, <1>6, LaidWritten, IPHeadIs
<1> HIDE DEF h, o
<1>8. h \o o \in Seq(Byte) /\ Len(h \o o) = 20 + Len(o)
  BY <1>3, <1>7, BytesAndBytes
<1>9. Len(o) \in Nat
  BY <1>3
<1>10. QED
  BY <1>2, <1>3, <1>8, <1>9 DEF o

(***************************************************************************)
(* It is written in the bytes IPPacket::GetEncodeSpace counts.             *)
(***************************************************************************)
LEMMA IPWritten ==
  ASSUME NEW T, IPIn(T), NEW p, Of(p, T)
  PROVE  /\ Exactly(IPStreamTo(p), IPLen(p)) /\ IPLen(p) \in Nat
         /\ IPLen(p) - EthernetLen(p) \in Nat /\ IPLen(p) - EthernetLen(p) <= 60 /\
              EthernetLen(p) \in Nat
<1> DEFINE a == EthernetStreamTo(p)
           b == IPHeader(p)
           k == EthernetLen(p)
           n == Len(p.options)
<1>1. EtherIn(T)
  BY DEF IPIn
<1>2. a \in Seq(Byte) /\ Len(a) = k /\ k \in Nat
  BY <1>1, EtherWritten
<1>3. b \in Seq(Byte) /\ Len(b) = 20 + n /\ n \in Nat /\ n <= 40
  BY IPHeaderWritten
<1>4. IPStreamTo(p) = a \o b /\ IPLen(p) = k + 20 + n
  BY Zenon DEF IPStreamTo, IPLen
<1> HIDE DEF a, b, k, n
<1>5. a \o b \in Seq(Byte) /\ Len(a \o b) = Len(a) + Len(b)
  BY <1>2, <1>3, BytesAndBytes
<1> DEFINE m == IPLen(p)
<1> HIDE DEF m
<1>6. m = k + 20 + n
  BY <1>4 DEF m
<1>7. Len(a \o b) = m /\ m \in Nat /\ m - k \in Nat /\ m - k <= 60
  BY <1>2, <1>3, <1>5, <1>6
<1>8. QED
  BY <1>2, <1>4, <1>5, <1>7 DEF Exactly, m, k

(***************************************************************************)
(* What Encode sets before it writes: the lengths and the checksum.        *)
(***************************************************************************)
LEMMA IPPreparedOf ==
  ASSUME NEW T, IPIn(T), NEW p, Of(p, T), NEW size, size - EthernetLen(p) \in Short
  PROVE  /\ Of(IPPrepared(p, size), T)
         /\ \A x \in DOMAIN T \ {"headerLength", "totalLength", "checksum"} :
              IPPrepared(p, size)[x] = p[x]
<1> DEFINE k == 5 + (Len(p.options) \div 4)
           n == size - EthernetLen(p)
           a == Put(p, "headerLength", k)
           b == Put(a, "totalLength", n)
           c == IPCheckSum(b)
           d == Put(b, "checksum", c)
           s == [p EXCEPT !.headerLength = k, !.totalLength = n]
<1>1. IPPrepared(p, size) = IF s.checksum = 0 THEN [s EXCEPT !.checksum = IPCheckSum(s)] ELSE s
  BY Zenon DEF IPPrepared
<1>2. k \in Nibble
  <2> DEFINE m == Len(p.options)
  <2>1. m \in Nat /\ m <= 40
    BY IPHeaderWritten
  <2>2. k = 5 + (m \div 4)
    OBVIOUS
  <2> HIDE DEF m, k
  <2>3. QED
    BY <2>1, <2>2 DEF Nibble
<1> HIDE DEF k, n
<1>3. s = b
  BY Zenon DEF Put
<1>4. n \in Short
  BY DEF n
<1>5. Of(a, T) /\ \A x \in DOMAIN T \ {"headerLength"} : a[x] = p[x]
  BY <1>2, IPRoom, PutOf
<1> HIDE DEF a
<1>6. Of(b, T) /\ \A x \in DOMAIN T \ {"totalLength"} : b[x] = a[x]
  BY <1>4, <1>5, IPRoom, PutOf
<1> HIDE DEF b, s
<1>7. IPHeader(b) \in Seq(Byte)
  BY <1>6, IPHeaderWritten
<1>8. c \in Short
  <2> DEFINE w == SumOfWords(IPHeader(b))
  <2>1. w \in Nat
    BY <1>7, SumOfWordsNat
  <2> HIDE DEF w
  <2>2. FoldedOnce(w) \in Nat
    BY <2>1, Checksums
  <2>3. FoldedOnce(w) \in Int
    BY <2>2
  <2>4. Swapped(Complement(FoldedOnce(w))) \in Short
    BY <2>3, Checksums
  <2>5. QED
    BY <2>4 DEF IPCheckSum, w
<1>9. IPPrepared(p, size) = d \/ IPPrepared(p, size) = b
  BY <1>1, <1>3, Zenon DEF Put
<1> HIDE DEF c
<1>10. Of(d, T) /\ \A x \in DOMAIN T \ {"checksum"} : d[x] = b[x]
  BY <1>6, <1>8, IPRoom, PutOf
<1> HIDE DEF d
<1>11. \A x \in DOMAIN T \ {"headerLength", "totalLength", "checksum"} : b[x] = p[x] /\ d[x] = p[x]
  BY <1>5, <1>6, <1>10
<1>12. QED
  BY <1>6, <1>9, <1>10, <1>11

-----------------------------------------------------------------------------
(***************************************************************************)
(* The names of all the fields of IPPacket.                                *)
(***************************************************************************)
IPNames == EtherFields \cup {"class"} \cup IPHeadNames \cup IPRestNames

(***************************************************************************)
(* The packet has a payload.                                               *)
(***************************************************************************)
Paid(p) == p.etherpayload \in Payload

(***************************************************************************)
(* Where it is read well there is one.                                     *)
(***************************************************************************)
LEMMA ReadPayloadOf ==
  ASSUME NEW T, IPIn(T), NEW r, Reads(r, T), NEW size \in Int
  PROVE  /\ Moves(r, ReadPayload(r, size), {"etherpayload"}, T) /\ Reads(ReadPayload(r, size), T)
         /\ ReadPayload(r, size).good => Paid(ReadPayload(r, size).p) /\ r.good
<1> DEFINE s == ReadBytes(r, "etherpayload", size)
<1>1. ReadPayload(r, size) = IF size \notin 0..ETHERNET_MAX_SIZE THEN Failed(r) ELSE s
  BY Zenon DEF ReadPayload
<1>2. CASE size \in 0..ETHERNET_MAX_SIZE
  <2>1. size \in Nat /\ size <= ETHERNET_MAX_SIZE
    BY <1>2, SizeAssumption
  <2>2. \A b \in Seq(Byte) : Len(b) = size => b \in Payload
    BY <2>1 DEF Payload
  <2>3. "etherpayload" \in DOMAIN T /\ Payload \subseteq T["etherpayload"]
    BY DEF IPIn, IPRestNames
  <2> HIDE DEF s
  <2>4. /\ Moves(r, s, {"etherpayload"}, T)
        /\ s.good => s.p["etherpayload"] \in Seq(Byte) /\ Len(s.p["etherpayload"]) = size
    BY <2>1, <2>2, <2>3, BytesMove DEF s
  <2>5. s.good => Paid(s.p) /\ r.good
    BY <2>2, <2>4 DEF Paid, Moves
  <2>6. QED
    BY <1>1, <1>2, <2>4, <2>5 DEF Moves
<1>3. CASE size \notin 0..ETHERNET_MAX_SIZE
  <2>1. ReadPayload(r, size) = Failed(r)
    BY <1>1, <1>3
  <2>2. Moves(r, Failed(r), {"etherpayload"}, T) /\ ~Failed(r).good
    BY FailedMoves
  <2>3. QED
    BY <2>1, <2>2 DEF Moves
<1>4. QED
  BY <1>2, <1>3

(***************************************************************************)
(* The length of the header is decided by the tags and the options.        *)
(***************************************************************************)
LEMMA SameIPLen ==
  ASSUME NEW p, NEW q, \A x \in EtherFields \cup {"options"} : q[x] = p[x]
  PROVE  IPLen(q) = IPLen(p) /\ EthernetLen(q) = EthernetLen(p)
<1>1. q.vlanID = p.vlanID /\ q.qinqVID = p.qinqVID /\ q.options = p.options
  BY DEF EtherFields
<1>2. EthernetLen(q) = EthernetLen(p)
  BY <1>1, Zenon DEF EthernetLen
<1>3. QED
  BY <1>1, <1>2, Zenon DEF IPLen

(***************************************************************************)
(* A payload is bytes, no more than a frame has.                           *)
(***************************************************************************)
LEMMA PaidBytes ==
  ASSUME NEW p, Paid(p)
  PROVE  p.etherpayload \in Seq(Byte) /\ Len(p.etherpayload) \in Nat /\
           Len(p.etherpayload) <= ETHERNET_MAX_SIZE
<1> DEFINE b == p.etherpayload
<1>1. b \in Seq(Byte) /\ Len(b) <= ETHERNET_MAX_SIZE
  BY DEF Paid, Payload
<1> HIDE DEF b
<1>2. Len(b) \in Nat
  BY <1>1
<1>3. QED
  BY <1>1, <1>2 DEF b

(***************************************************************************)
(* The fields of a class derived from IPPacket: its own are U.             *)
(***************************************************************************)
OnIP(class, U) == Joined(IPTypes(class), U)

(***************************************************************************)
(* They extend both where U names none of those of IPPacket.               *)
(***************************************************************************)
LEMMA OnIPHas ==
  ASSUME NEW class, NEW U, DOMAIN U \cap IPNames = {}
  PROVE  /\ IPIn(OnIP(class, U)) /\ Extends(OnIP(class, U), U)
         /\ "class" \in DOMAIN OnIP(class, U) /\ OnIP(class, U)["class"] = {class}
         /\ DOMAIN OnIP(class, U) = IPNames \cup DOMAIN U
<1> DEFINE S == IPTypes(class)
           T == OnIP(class, U)
<1>1. IPIn(S) /\ "class" \in DOMAIN S /\ S["class"] = {class} /\ DOMAIN S = IPNames
  BY IPTypesHave DEF IPNames
<1>2. T = Joined(S, U)
  BY DEF OnIP
<1> HIDE DEF S, T
<1>3. Extends(T, S) /\ Extends(T, U)
  BY <1>1, <1>2, JoinedExtends
<1>4. IPIn(T)
  BY <1>1, <1>3, IPInOn
<1>5. "class" \in DOMAIN T /\ T["class"] = {class}
  BY <1>1, <1>3 DEF Extends
<1>6. DOMAIN T = IPNames \cup DOMAIN U
  BY <1>1, <1>2, JoinedIs
<1>7. QED
  BY <1>3, <1>4, <1>5, <1>6 DEF T

(***************************************************************************)
(* A new packet has them.                                                  *)
(***************************************************************************)
LEMMA NewOnIPOf ==
  ASSUME NEW class, NEW protocol \in Byte, NEW q, NEW U, Of(q, U), DOMAIN U \cap IPNames = {}
  PROVE  /\ Of(Joined(NewIP(class, protocol), q), OnIP(class, U))
         /\ \A x \in DOMAIN U : Joined(NewIP(class, protocol), q)[x] = q[x]
<1> DEFINE n == NewIP(class, protocol)
<1>1. Of(n, IPTypes(class))
  BY NewIPOf
<1>2. DOMAIN n = IPNames /\ DOMAIN q = DOMAIN U
  BY <1>1, OfDomain, IPTypesHave DEF IPNames
<1> HIDE DEF n
<1>3. Of(Joined(n, q), Joined(IPTypes(class), U))
  BY <1>1, OfJoined
<1>4. \A x \in DOMAIN q \ DOMAIN n : Joined(n, q)[x] = q[x]
  BY JoinedIs
<1>5. \A x \in DOMAIN U : x \in DOMAIN q \ DOMAIN n
  BY <1>2
<1>6. \A x \in DOMAIN U : Joined(n, q)[x] = q[x]
  BY <1>4, <1>5
<1>7. QED
  BY <1>3, <1>6 DEF n, OnIP

(***************************************************************************)
(* Reading an IP header and a layout behind it.                            *)
(***************************************************************************)
LEMMA IPAndFields ==
  ASSUME NEW T, IPIn(T), NEW L, NEW n, Laid(L, n, T), NEW r, Reads(r, T)
  PROVE  /\ Moves(r, ReadFields(IPStreamFrom(r), L), IPTouched \cup Names(L), T)
         /\ Reads(ReadFields(IPStreamFrom(r), L), T)
<1> DEFINE s == IPStreamFrom(r)
<1>1. Moves(r, s, IPTouched, T) /\ Reads(s, T)
  BY IPReads
<1> HIDE DEF s
<1>2. Names(L) \subseteq Names(L)
  OBVIOUS
<1>3. Moves(s, ReadFields(s, L), Names(L), T)
  BY <1>1, <1>2, LaidRead
<1>4. Moves(r, ReadFields(s, L), IPTouched \cup Names(L), T)
  BY <1>1, <1>3, MovesOn
<1>5. QED
  BY <1>4 DEF s, Moves

(***************************************************************************)
(* A layout is written in as many bytes when a field of two has any int:   *)
(* what does not fit is cut.                                               *)
(***************************************************************************)
LEMMA LaidLoosely ==
  ASSUME NEW p, NEW T, Of(p, T), NEW L, NEW n, Laid(L, n, T), NEW k \in 1..n, L[k][2] = 2,
           NEW v \in Int
  PROVE  Exactly(WriteFields(Put(p, L[k][1], v), L), Width(L))
<1> DEFINE x == L[k][1]
           q == Put(p, x, v)
<1>1. LayoutOf(L, n, DOMAIN T) /\ Extends(T, LayoutTypes(L))
  BY LaidExtends
<1>2. Writable(p, L, n)
  BY <1>1, LayoutFilled
<1>3. x \in DOMAIN T /\ \A i \in 1..n : L[i][1] \in DOMAIN T /\ (L[i][1] = x => i = k)
  BY <1>1 DEF LayoutOf
<1>4. Function(p, DOMAIN T)
  BY DEF Of
<1>5. q[x] = v /\ \A y \in DOMAIN T \ {x} : q[y] = p[y]
  BY <1>3, <1>4, Updated
<1> HIDE DEF q, x
<1>6. ASSUME NEW i \in 1..n PROVE Loose(q[L[i][1]], L[i][2])
  <2>1. CASE i = k
    <3>1. Loose(v, 2)
      BY DEF Loose
    <3>2. L[i][1] = x /\ L[i][2] = 2
      BY <2>1 DEF x
    <3>3. QED
      BY <1>5, <3>1, <3>2
  <2>2. CASE i # k
    <3>1. L[i][1] \in DOMAIN T \ {x}
      BY <1>3, <2>2
    <3>2. q[L[i][1]] = p[L[i][1]]
      BY <1>5, <3>1
    <3>3. Loose(p[L[i][1]], L[i][2])
      BY <1>2 DEF Writable
    <3>4. QED
      BY <3>2, <3>3
  <2>3. QED
    BY <2>1, <2>2
<1>7. Writable(q, L, n)
  BY <1>6 DEF Writable
<1>8. QED
  BY <1>1, <1>7, WriteFieldsFit DEF Exactly, q, x

-----------------------------------------------------------------------------
(***************************************************************************)
(* The fields that Encode sets.                                            *)
(***************************************************************************)
IPSet == {"headerLength", "totalLength", "checksum"}

(***************************************************************************)
(* Setting them changes neither the length of the header nor the payload.  *)
(***************************************************************************)
LEMMA IPPreparedKeeps ==
  ASSUME NEW T, IPIn(T), NEW p, Of(p, T), NEW n \in Nat, n <= ETHERNET_MAX_SIZE + 60,
         NEW size, size = IPLen(p) + n
  PROVE  /\ Of(IPPrepared(p, size), T)
         /\ \A x \in DOMAIN T \ IPSet : IPPrepared(p, size)[x] = p[x]
         /\ IPLen(IPPrepared(p, size)) = IPLen(p) /\
              EthernetLen(IPPrepared(p, size)) = EthernetLen(p)
         /\ IPPrepared(p, size).etherpayload = p.etherpayload
<1> DEFINE q == IPPrepared(p, size)
           k == EthernetLen(p)
           l == IPLen(p)
<1>1. size - k \in Short
  <2>1. k \in Nat /\ l - k \in Nat /\ l - k <= 60 /\ l \in Nat
    BY IPWritten
  <2>2. size = l + n
    OBVIOUS
  <2> HIDE DEF k, l
  <2>3. size - k = (l - k) + n
    BY <2>1, <2>2
  <2>4. size - k \in Nat /\ size - k <= ETHERNET_MAX_SIZE + 120
    BY <2>1, <2>3, SizeAssumption
  <2>5. QED
    BY <2>4, SizeAssumption DEF Short
<1>2. Of(q, T) /\ \A x \in DOMAIN T \ IPSet : q[x] = p[x]
  BY <1>1, IPPreparedOf DEF IPSet
<1> HIDE DEF q
<1>3. \A x \in EtherFields \cup {"options", "etherpayload"} : x \in DOMAIN T \ IPSet
  <2>1. EtherFields \subseteq DOMAIN T /\ {"options", "etherpayload"} \subseteq DOMAIN T
    BY DEF IPIn, EtherIn, IPRestNames
  <2>2. (EtherFields \cup {"options", "etherpayload"}) \cap IPSet = {}
    BY DEF EtherFields, IPSet
  <2>3. QED
    BY <2>1, <2>2
<1>4. \A x \in EtherFields \cup {"options"} : q[x] = p[x]
  BY <1>2, <1>3
<1>5. q.etherpayload = p.etherpayload
  BY <1>2, <1>3
<1>6. IPLen(q) = l /\ EthernetLen(q) = k
  BY <1>4, SameIPLen
<1>7. QED
  BY <1>2, <1>5, <1>6 DEF q, k, l

-----------------------------------------------------------------------------

(***************************************************************************)
(* The fields of UnknownIP.                                                *)
(***************************************************************************)
UnknownIPTypes == IPTypes("UnknownIP")

(***************************************************************************)
(* What they are.                                                          *)
(***************************************************************************)
LEMMA UnknownIPTypesHave ==
  /\ IPIn(UnknownIPTypes) /\ "class" \in DOMAIN UnknownIPTypes /\
       UnknownIPTypes["class"] = {"UnknownIP"}
BY IPTypesHave DEF UnknownIPTypes

(***************************************************************************)
(* A new packet of an unknown IP protocol has them.                        *)
(***************************************************************************)
LEMMA NewUnknownIPOf == Of(NewUnknownIP, UnknownIPTypes)
<1>1. 0 \in Byte
  BY TagValues
<1>2. QED
  BY <1>1, NewIPOf DEF NewUnknownIP, UnknownIPTypes

(***************************************************************************)
(* What is read from any bytes has them, and a payload.                    *)
(***************************************************************************)
LEMMA UnknownIPReads ==
  ASSUME NEW r, Reads(r, UnknownIPTypes)
  PROVE  /\ Reads(UnknownIPStreamFrom(r), UnknownIPTypes)
         /\ UnknownIPStreamFrom(r).good => Paid(UnknownIPStreamFrom(r).p)
<1> DEFINE T == UnknownIPTypes
           s == IPStreamFrom(r)
           size == s.p.totalLength - 20 - Len(s.p.options)
<1>1. Reads(s, T)
  BY UnknownIPTypesHave, IPReads
<1>2. UnknownIPStreamFrom(r) = ReadPayload(s, size)
  BY Zenon DEF UnknownIPStreamFrom, ReadIPPayload
<1> HIDE DEF s
<1>3. size \in Int
  <2> DEFINE n == s.p.totalLength
             m == Len(s.p.options)
             q == s.p
  <2>1. Of(q, T)
    BY <1>1 DEF Reads
  <2> HIDE DEF q
  <2>2. q.totalLength \in Short /\ Len(q.options) \in Nat
    BY <2>1, UnknownIPTypesHave, IPFields, IPHeaderWritten
  <2>3. n \in Int /\ m \in Int
    BY <2>2, ShortBytes DEF q
  <2> HIDE DEF n, m
  <2>4. n - 20 - m \in Int
    BY <2>3
  <2>5. QED
    BY <2>4 DEF n, m
<1> HIDE DEF size
<1>4. Reads(ReadPayload(s, size), T) /\ (ReadPayload(s, size).good => Paid(ReadPayload(s, size).p))
  BY <1>1, <1>3, UnknownIPTypesHave, ReadPayloadOf
<1>5. QED
  BY <1>2, <1>4

(***************************************************************************)
(* It writes the bytes its GetEncodeSpace counts.                          *)
(***************************************************************************)
LEMMA UnknownIPWritten ==
  ASSUME NEW p, Of(p, UnknownIPTypes), Paid(p)
  PROVE  Exactly(UnknownIPStreamTo(p), UnknownIPLen(p))
<1> DEFINE a == IPStreamTo(p)
           b == p.etherpayload
           k == IPLen(p)
<1>1. Exactly(a, k) /\ k \in Nat
  BY UnknownIPTypesHave, IPWritten
<1>2. b \in Seq(Byte)
  BY PaidBytes
<1>3. UnknownIPStreamTo(p) = a \o b /\ UnknownIPLen(p) = k + Len(b)
  BY Zenon DEF UnknownIPStreamTo, UnknownIPLen
<1> HIDE DEF a, b, k
<1>4. a \in Seq(Byte) /\ Len(a) = k
  BY <1>1 DEF Exactly
<1>5. a \o b \in Seq(Byte) /\ Len(a \o b) = Len(a) + Len(b)
  BY <1>2, <1>4, BytesAndBytes
<1>6. QED
  BY <1>3, <1>4, <1>5, Zenon DEF Exactly

(***************************************************************************)
(* Encode leaves the count.                                                *)
(***************************************************************************)
LEMMA UnknownIPPreparedOf ==
  ASSUME NEW p, Of(p, UnknownIPTypes), Paid(p)
  PROVE  /\ Of(UnknownIPPrepared(p), UnknownIPTypes) /\ Paid(UnknownIPPrepared(p))
         /\ UnknownIPLen(UnknownIPPrepared(p)) = UnknownIPLen(p)
<1> DEFINE n == Len(p.etherpayload)
           size == UnknownIPLen(p)
           q == IPPrepared(p, size)
<1>1. n \in Nat /\ n <= ETHERNET_MAX_SIZE
  BY PaidBytes
<1>2. size = IPLen(p) + n
  BY DEF UnknownIPLen
<1>3. UnknownIPPrepared(p) = q
  BY DEF UnknownIPPrepared
<1> HIDE DEF n, size
<1>4. n <= ETHERNET_MAX_SIZE + 60
  BY <1>1, SizeAssumption
<1>5. Of(q, UnknownIPTypes) /\ IPLen(q) = IPLen(p) /\ q.etherpayload = p.etherpayload
  BY <1>1, <1>2, <1>4, UnknownIPTypesHave, IPPreparedKeeps
<1> HIDE DEF q
<1>6. UnknownIPLen(q) = size
  BY <1>5, Zenon DEF UnknownIPLen, size
<1>7. Paid(q)
  BY <1>5 DEF Paid
<1>8. QED
  BY <1>3, <1>5, <1>6, <1>7 DEF size

-----------------------------------------------------------------------------

(***************************************************************************)
(* The fields of UnknownUDP.                                               *)
(***************************************************************************)
UDPTypes == OnIP("UnknownUDP", LayoutTypes(UDPHead))

(***************************************************************************)
(* The names of its own.                                                   *)
(***************************************************************************)
UDPNames == {"sourcePort", "destinationPort", "udplength", "udpchecksum"}

(***************************************************************************)
(* What they are.                                                          *)
(***************************************************************************)
LEMMA UDPTypesHave ==
  /\ IPIn(UDPTypes) /\ "class" \in DOMAIN UDPTypes /\ UDPTypes["class"] = {"UnknownUDP"}
  /\ Laid(UDPHead, 4, UDPTypes) /\ UDPNames \subseteq DOMAIN UDPTypes /\ UDPNames \cap IPNames = {}
  /\ UDPTypes["udplength"] = Short /\ UDPTypes["udpchecksum"] = Short
  /\ DOMAIN LayoutTypes(UDPHead) = UDPNames
<1> DEFINE U == LayoutTypes(UDPHead)
<1>1. /\ LayoutOf(UDPHead, 4, Names(UDPHead)) /\ DOMAIN U = UDPNames
      /\ U["udplength"] = Short /\ U["udpchecksum"] = Short
  BY UDPHeadIs, TypesOfLayout DEF UDPNames
<1>2. UDPNames \cap IPNames = {}
  BY DEF UDPNames, IPNames, EtherFields, IPHeadNames, IPRestNames
<1> HIDE DEF U
<1>3. /\ IPIn(UDPTypes) /\ Extends(UDPTypes, U)
      /\ "class" \in DOMAIN UDPTypes /\ UDPTypes["class"] = {"UnknownUDP"}
  BY <1>1, <1>2, OnIPHas DEF UDPTypes, U
<1>4. /\ UDPNames \subseteq DOMAIN UDPTypes
      /\ UDPTypes["udplength"] = Short /\ UDPTypes["udpchecksum"] = Short
  BY <1>1, <1>3 DEF Extends, UDPNames
<1>5. Laid(UDPHead, 4, UDPTypes)
  BY <1>1, <1>3, ExtendsLaid DEF U
<1>6. QED
  BY <1>1, <1>2, <1>3, <1>4, <1>5 DEF U

(***************************************************************************)
(* A new UDP packet has them.                                              *)
(***************************************************************************)
LEMMA NewUnknownUDPOf == Of(NewUnknownUDP, UDPTypes)
<1>1. 17 \in Byte
  BY DEF Byte
<1>2. Of(Cleared(UDPHead), LayoutTypes(UDPHead))
  BY UDPHeadIs, ClearedOf
<1>3. DOMAIN LayoutTypes(UDPHead) \cap IPNames = {}
  BY UDPTypesHave
<1>4. QED
  BY <1>1, <1>2, <1>3, NewOnIPOf DEF NewUnknownUDP, UDPTypes

(***************************************************************************)
(* What is read from any bytes has them, and a payload.                    *)
(***************************************************************************)
LEMMA UDPReads ==
  ASSUME NEW r, Reads(r, UDPTypes)
  PROVE  /\ Reads(UnknownUDPStreamFrom(r), UDPTypes)
         /\ UnknownUDPStreamFrom(r).good => Paid(UnknownUDPStreamFrom(r).p)
<1> DEFINE T == UDPTypes
           s == ReadFields(IPStreamFrom(r), UDPHead)
           size == s.p.udplength - 8
<1>1. Reads(s, T)
  BY UDPTypesHave, IPAndFields
<1>2. UnknownUDPStreamFrom(r) = ReadPayload(s, size)
  BY Zenon DEF UnknownUDPStreamFrom, ReadUDPPayload, UDPStreamFrom
<1> HIDE DEF s
<1>3. size \in Int
  <2> DEFINE n == s.p.udplength
  <2>1. n \in Short
    BY <1>1, UDPTypesHave DEF Reads, Of, UDPNames
  <2>2. n \in Int
    BY <2>1, ShortBytes
  <2> HIDE DEF n
  <2>3. n - 8 \in Int
    BY <2>2
  <2>4. QED
    BY <2>3 DEF n
<1> HIDE DEF size
<1>4. Reads(ReadPayload(s, size), T) /\ (ReadPayload(s, size).good => Paid(ReadPayload(s, size).p))
  BY <1>1, <1>3, UDPTypesHave, ReadPayloadOf
<1>5. QED
  BY <1>2, <1>4

(***************************************************************************)
(* UDP writes the bytes its GetEncodeSpace counts.                         *)
(***************************************************************************)
LEMMA UDPWritten ==
  ASSUME NEW p, Of(p, UDPTypes), Paid(p)
  PROVE  Exactly(UnknownUDPStreamTo(p), UnknownUDPLen(p))
<1> DEFINE a == IPStreamTo(p)
           b == WriteFields(p, UDPHead)
           c == p.etherpayload
           k == IPLen(p)
<1>1. Exactly(a, k) /\ k \in Nat
  BY UDPTypesHave, IPWritten
<1>2. b \in Seq(Byte) /\ Len(b) = 8
  BY UDPTypesHave, UDPHeadIs, LaidWritten
<1>3. c \in Seq(Byte) /\ Len(c) \in Nat
  BY PaidBytes
<1>4. UnknownUDPStreamTo(p) = a \o b \o c /\ UnknownUDPLen(p) = k + 8 + Len(c)
  BY Zenon DEF UnknownUDPStreamTo, UnknownUDPLen, UDPLen
<1> HIDE DEF a, b, c, k
<1>5. a \in Seq(Byte) /\ Len(a) = k
  BY <1>1 DEF Exactly
<1>6. a \o b \in Seq(Byte) /\ Len(a \o b) = Len(a) + Len(b)
  BY <1>2, <1>5, BytesAndBytes
<1> DEFINE d == a \o b
<1> HIDE DEF d
<1>7. d \o c \in Seq(Byte) /\ Len(d \o c) = Len(d) + Len(c)
  BY <1>3, <1>6, BytesAndBytes DEF d
<1>8. Len(d \o c) = (k + 8) + Len(c)
  BY <1>1, <1>2, <1>3, <1>5, <1>6, <1>7 DEF d
<1>9. QED
  BY <1>4, <1>7, <1>8 DEF Exactly, d

-----------------------------------------------------------------------------
(***************************************************************************)
(* The sum of the pseudo header is a number.                               *)
(***************************************************************************)
LEMMA PseudoSumOf ==
  ASSUME NEW T, IPIn(T), NEW p, Of(p, T), NEW length \in Int
  PROVE  PseudoSum(p, length) \in Int
<1> DEFINE a == p.sourceAddress
           b == p.destinationAddress
           c == p.protocol
           m == SumOfWords(a)
           n == SumOfWords(b)
<1>1. a \in [1..4 -> Byte] /\ b \in [1..4 -> Byte] /\ c \in Byte
  BY IPFields
<1>2. PseudoSum(p, length) = m + n + c + length
  BY Zenon DEF PseudoSum
<1> HIDE DEF a, b, c
<1>3. 4 \in Nat /\ c \in Int
  BY <1>1, ShortBytes
<1>4. a \in Seq(Byte) /\ b \in Seq(Byte)
  BY <1>1, <1>3, ByteSequence
<1>5. m \in Nat /\ n \in Nat
  BY <1>4, SumOfWordsNat
<1> HIDE DEF m, n
<1>6. m + n + c + length \in Int
  BY <1>3, <1>5
<1>7. QED
  BY <1>2, <1>6

(***************************************************************************)
(* The complement of a sum fits 16 bits.                                   *)
(***************************************************************************)
LEMMA SumInShort ==
  ASSUME NEW a \in Int, NEW b \in Seq(Byte)
  PROVE  Complement(a + SumOfWords(b)) \in Short
<1> DEFINE w == SumOfWords(b)
<1>1. w \in Nat
  BY SumOfWordsNat
<1> HIDE DEF w
<1>2. a + w \in Int
  BY <1>1
<1>3. QED
  BY <1>2, Checksums DEF w

(***************************************************************************)
(* So does the checksum of UDP.                                            *)
(***************************************************************************)
LEMMA UDPCheckSumOf ==
  ASSUME NEW p, Of(p, UDPTypes), Paid(p)
  PROVE  UDPCheckSum(p) \in Short
<1> DEFINE length == UnknownUDPLen(p)
           b == p.etherpayload
           n == 2 * (Len(b) \div 2)
           whole == SubSeq(b, 1, n)
           q == Put(p, "udplength", length)
           h == WriteFields(q, UDPHead)
           s == PseudoSum(p, length)
<1>1. UDPCheckSum(p) = Complement(s + SumOfWords(h \o whole))
  <2>1. [p EXCEPT !.udplength = UnknownUDPLen(p)] = q
    BY Zenon DEF Put
  <2>2. h = WriteFields([p EXCEPT !.udplength = UnknownUDPLen(p)], UDPHead)
    BY <2>1
  <2> HIDE DEF h
  <2>3. QED
    BY <2>2, Zenon DEF UDPCheckSum
<1>2. b \in Seq(Byte) /\ Len(b) \in Nat
  BY PaidBytes
<1>3. length \in Int
  <2>1. Exactly(UnknownUDPStreamTo(p), length)
    BY UDPWritten
  <2>2. QED
    BY <2>1 DEF Exactly
<1> HIDE DEF length
<1>4. s \in Int
  BY <1>3, UDPTypesHave, PseudoSumOf
<1>5. whole \in Seq(Byte)
  <2> HIDE DEF b
  <2>1. n \in Nat /\ n <= Len(b)
    BY <1>2
  <2> HIDE DEF n
  <2>2. QED
    BY <1>2, <2>1, RestOf
<1>6. h \in Seq(Byte)
  <2>1. 3 \in 1..4 /\ UDPHead[3][1] = "udplength" /\ UDPHead[3][2] = 2
    BY DEF UDPHead
  <2>2. Laid(UDPHead, 4, UDPTypes)
    BY UDPTypesHave
  <2>3. Exactly(WriteFields(Put(p, UDPHead[3][1], length), UDPHead), Width(UDPHead))
    BY <1>3, <2>1, <2>2, LaidLoosely
  <2>4. QED
    BY <2>1, <2>3 DEF Exactly
<1> HIDE DEF h, whole, s
<1>7. h \o whole \in Seq(Byte)
  BY <1>5, <1>6, BytesAndBytes
<1> DEFINE g == h \o whole
<1> HIDE DEF g
<1>8. Complement(s + SumOfWords(g)) \in Short
  BY <1>4, <1>7, SumInShort DEF g
<1>9. QED
  BY <1>1, <1>8 DEF g

(***************************************************************************)
(* Setting a field of the UDP header keeps the length and the payload.     *)
(***************************************************************************)
LEMMA UDPPutOf ==
  ASSUME NEW p, Of(p, UDPTypes), NEW x \in {"udplength", "udpchecksum"}, NEW v \in Short
  PROVE  /\ Of(Put(p, x, v), UDPTypes) /\ IPLen(Put(p, x, v)) = IPLen(p)
         /\ Put(p, x, v).etherpayload = p.etherpayload
<1> DEFINE q == Put(p, x, v)
<1>1. Room(UDPTypes, x, v) /\ x \notin IPNames
  BY UDPTypesHave DEF Room, UDPNames
<1>2. Of(q, UDPTypes) /\ \A y \in DOMAIN UDPTypes \ {x} : q[y] = p[y]
  BY <1>1, PutOf
<1> HIDE DEF q
<1>3. \A y \in EtherFields \cup {"options", "etherpayload"} : y \in DOMAIN UDPTypes \ {x}
  BY <1>1, UDPTypesHave DEF IPNames, IPRestNames, IPIn, EtherIn
<1>4. \A y \in EtherFields \cup {"options"} : q[y] = p[y]
  BY <1>2, <1>3
<1>5. q.etherpayload = p.etherpayload
  BY <1>2, <1>3
<1>6. IPLen(q) = IPLen(p)
  BY <1>4, SameIPLen
<1>7. QED
  BY <1>2, <1>5, <1>6 DEF q

(***************************************************************************)
(* A UDP packet that takes as many bytes as p.                             *)
(***************************************************************************)
UDPLike(q, p) == Of(q, UDPTypes) /\ Paid(q) /\ UnknownUDPLen(q) = UnknownUDPLen(p)

(***************************************************************************)
(* It does where the length of the IP header and the payload are the same. *)
(***************************************************************************)
LEMMA UDPLikeIs ==
  ASSUME NEW p, Paid(p), NEW q, Of(q, UDPTypes), IPLen(q) = IPLen(p), q.etherpayload =
           p.etherpayload
  PROVE  UDPLike(q, p)
<1>1. UnknownUDPLen(q) = UnknownUDPLen(p)
  BY Zenon DEF UnknownUDPLen, UDPLen
<1>2. QED
  BY <1>1 DEF UDPLike, Paid

(***************************************************************************)
(* Encode leaves such a packet.                                            *)
(***************************************************************************)
LEMMA UDPPreparedOf ==
  ASSUME NEW p, Of(p, UDPTypes), Paid(p)
  PROVE  UDPLike(UnknownUDPPrepared(p), p)
<1> DEFINE n == Len(p.etherpayload)
           l == UnknownUDPLen(p)
           q == IPPrepared(p, l)
           k == l - IPLen(p)
           a == Put(q, "udplength", k)
           m == q.udplength
           s == Put(q, "udplength", m)
           c == UDPCheckSum(s)
           d == UDPCheckSum(a)
<1>1. n \in Nat /\ n <= ETHERNET_MAX_SIZE
  BY PaidBytes
<1>2. l = IPLen(p) + 8 + n
  BY Zenon DEF UnknownUDPLen, UDPLen
<1>3. IPLen(p) \in Nat
  BY UDPTypesHave, IPWritten
<1>4. k \in Short
  <2> DEFINE i == IPLen(p)
  <2>1. l - i = 8 + n /\ 8 + n \in Nat
    <3> HIDE DEF n, l, i
    <3>1. l = i + 8 + n /\ i \in Nat
      BY <1>2, <1>3 DEF i
    <3>2. QED
      BY <1>1, <3>1
  <2>2. k = 8 + n
    BY <2>1 DEF i
  <2> HIDE DEF k, n
  <2>3. k \in Nat /\ k < 65536
    BY <1>1, <2>1, <2>2, SizeAssumption
  <2>4. QED
    BY <2>3 DEF Short
<1>5. UnknownUDPPrepared(p) \in {a, s, Put(a, "udpchecksum", d), Put(s, "udpchecksum", c)}
  <2> DEFINE z == [q EXCEPT !.udplength = IF @ = 0 THEN l - IPLen(p) ELSE @]
  <2>1. UnknownUDPPrepared(p) = IF p.udpchecksum = 0 THEN [z EXCEPT !.udpchecksum =
        UDPCheckSum(z)] ELSE z
    BY Zenon DEF UnknownUDPPrepared
  <2>2. z = a \/ z = s
    BY Zenon DEF Put
  <2> HIDE DEF z, a, s
  <2>3. [z EXCEPT !.udpchecksum = UDPCheckSum(z)] = Put(z, "udpchecksum", UDPCheckSum(z))
    BY Zenon DEF Put
  <2>4. CASE z = a
    BY <2>1, <2>3, <2>4
  <2>5. CASE z = s
    BY <2>1, <2>3, <2>5
  <2>6. QED
    BY <2>2, <2>4, <2>5
<1> HIDE DEF k
<1>6. Of(q, UDPTypes) /\ IPLen(q) = IPLen(p) /\ q.etherpayload = p.etherpayload
  <2> DEFINE j == 8 + n
             i == IPLen(p)
  <2> HIDE DEF n, l, i
  <2>1. i \in Nat /\ l = i + 8 + n
    BY <1>2, <1>3 DEF i
  <2>2. j \in Nat /\ j <= ETHERNET_MAX_SIZE + 60
    BY <1>1, SizeAssumption
  <2>3. l = i + j
    BY <1>1, <2>1
  <2> HIDE DEF j
  <2>4. l = IPLen(p) + j
    BY <2>3 DEF i
  <2>5. QED
    BY <2>2, <2>4, UDPTypesHave, IPPreparedKeeps
<1> HIDE DEF q
<1>7. m \in Short
  BY <1>6, UDPTypesHave DEF Of, UDPNames
<1> HIDE DEF m
<1>8. Of(a, UDPTypes) /\ IPLen(a) = IPLen(q) /\ a.etherpayload = q.etherpayload
  BY <1>4, <1>6, UDPPutOf
<1>9. Of(s, UDPTypes) /\ IPLen(s) = IPLen(q) /\ s.etherpayload = q.etherpayload
  BY <1>6, <1>7, UDPPutOf
<1> HIDE DEF a, s
<1>10. c \in Short /\ d \in Short
  <2>1. Paid(a) /\ Paid(s)
    BY <1>6, <1>8, <1>9 DEF Paid
  <2>2. QED
    BY <1>8, <1>9, <2>1, UDPCheckSumOf
<1> HIDE DEF c, d
<1> DEFINE u == Put(a, "udpchecksum", d)
           w == Put(s, "udpchecksum", c)
<1>11. Of(u, UDPTypes) /\ IPLen(u) = IPLen(a) /\ u.etherpayload = a.etherpayload
  BY <1>8, <1>10, UDPPutOf
<1>12. Of(w, UDPTypes) /\ IPLen(w) = IPLen(s) /\ w.etherpayload = s.etherpayload
  BY <1>9, <1>10, UDPPutOf
<1> HIDE DEF u, w
<1>13. UDPLike(a, p) /\ UDPLike(s, p)
  BY <1>6, <1>8, <1>9, UDPLikeIs
<1>14. UDPLike(u, p) /\ UDPLike(w, p)
  BY <1>6, <1>8, <1>9, <1>11, <1>12, UDPLikeIs
<1>15. QED
  BY <1>5, <1>13, <1>14 DEF u, w

(***************************************************************************)
(* So does the checksum.                                                   *)
(***************************************************************************)
LEMMA UDPSummedOf ==
  ASSUME NEW p, Of(p, UDPTypes), Paid(p)
  PROVE  Of([p EXCEPT !.udpchecksum = UDPCheckSum(p)], UDPTypes)
<1> DEFINE c == UDPCheckSum(p)
<1>1. c \in Short
  BY UDPCheckSumOf
<1>2. [p EXCEPT !.udpchecksum = UDPCheckSum(p)] = Put(p, "udpchecksum", c)
  BY Zenon DEF Put
<1> HIDE DEF c
<1>3. QED
  BY <1>1, <1>2, UDPPutOf

-----------------------------------------------------------------------------
(***************************************************************************)
(* The fields of ICMP (ICMP.h).                                            *)
(***************************************************************************)
ICMPTypes == OnIP("ICMP", LayoutTypes(ICMPHead))

(***************************************************************************)
(* The names of its own.                                                   *)
(***************************************************************************)
ICMPNames == {"icmpType", "icmpCode", "icmpchecksum", "icmpidentifier", "icmpsequencnum"}

(***************************************************************************)
(* What they are.                                                          *)
(***************************************************************************)
LEMMA ICMPTypesHave ==
  /\ IPIn(ICMPTypes) /\ "class" \in DOMAIN ICMPTypes /\ ICMPTypes["class"] = {"ICMP"}
  /\ Laid(ICMPHead, 5, ICMPTypes) /\ ICMPNames \subseteq DOMAIN ICMPTypes /\
       ICMPNames \cap IPNames = {}
  /\ ICMPTypes["icmpchecksum"] = Short /\ DOMAIN LayoutTypes(ICMPHead) = ICMPNames
<1> DEFINE U == LayoutTypes(ICMPHead)
<1>1. /\ LayoutOf(ICMPHead, 5, Names(ICMPHead)) /\ DOMAIN U = ICMPNames
      /\ U["icmpchecksum"] = Short
  BY ICMPHeadIs, TypesOfLayout DEF ICMPNames
<1>2. ICMPNames \cap IPNames = {}
  BY DEF ICMPNames, IPNames, EtherFields, IPHeadNames, IPRestNames
<1> HIDE DEF U
<1>3. /\ IPIn(ICMPTypes) /\ Extends(ICMPTypes, U)
      /\ "class" \in DOMAIN ICMPTypes /\ ICMPTypes["class"] = {"ICMP"}
  BY <1>1, <1>2, OnIPHas DEF ICMPTypes, U
<1>4. ICMPNames \subseteq DOMAIN ICMPTypes /\ ICMPTypes["icmpchecksum"] = Short
  BY <1>1, <1>3 DEF Extends, ICMPNames
<1>5. Laid(ICMPHead, 5, ICMPTypes)
  BY <1>1, <1>3, ExtendsLaid DEF U
<1>6. QED
  BY <1>1, <1>2, <1>3, <1>4, <1>5 DEF U

(***************************************************************************)
(* A new ICMP packet has them, and a payload.                              *)
(***************************************************************************)
LEMMA NewICMPOf == Of(NewICMP, ICMPTypes) /\ Paid(NewICMP)
<1> DEFINE n == NewIP("ICMP", 1)
           e == Put(n, "etherpayload", <<>>)
           c == Cleared(ICMPHead)
           S == IPTypes("ICMP")
           U == LayoutTypes(ICMPHead)
<1>1. 1 \in Byte
  BY DEF Byte
<1>2. Of(n, S) /\ IPIn(S) /\ DOMAIN S = IPNames
  BY <1>1, NewIPOf, IPTypesHave DEF IPNames
<1>3. Of(c, U) /\ DOMAIN U \cap IPNames = {}
  BY ICMPHeadIs, ClearedOf, ICMPTypesHave
<1>4. NewICMP = Joined(e, c)
  BY Zenon DEF NewICMP, Put
<1>5. <<>> \in Payload
  BY SizeAssumption DEF Payload
<1> HIDE DEF n, S, U, c
<1>6. Of(e, S) /\ e["etherpayload"] = <<>>
  BY <1>2, <1>5, IPRoom, PutOf
<1> HIDE DEF e
<1>7. Of(Joined(e, c), Joined(S, U))
  BY <1>3, <1>6, OfJoined
<1>8. DOMAIN e = IPNames
  BY <1>2, <1>6, OfDomain
<1>9. \A x \in DOMAIN e : Joined(e, c)[x] = e[x]
  BY JoinedIs
<1>10. Joined(e, c)["etherpayload"] = <<>>
  BY <1>6, <1>8, <1>9 DEF IPNames, IPRestNames
<1>11. QED
  BY <1>4, <1>5, <1>7, <1>10 DEF Paid, ICMPTypes, OnIP, S, U

(***************************************************************************)
(* The payload of an echo is made to its size.                             *)
(***************************************************************************)
LEMMA ICMPPayloadOf ==
  ASSUME NEW r, Reads(r, ICMPTypes), NEW size \in Nat, size <= ETHERNET_MAX_SIZE
  PROVE  Reads(ICMPPayload(r, size), ICMPTypes) /\ Paid(ICMPPayload(r, size).p)
<1> DEFINE T == ICMPTypes
           s == ReadBytes(r, "etherpayload", size)
           z == Put(r.p, "etherpayload", Zeros(size))
<1>1. (ICMPPayload(r, size) = s /\ r.good /\ Len(r.rest) >= size) \/
      ICMPPayload(r, size) = With(r, z)
  BY Zenon DEF ICMPPayload, Put
<1>2. \A b \in Seq(Byte) : Len(b) = size => b \in Payload
  BY DEF Payload
<1>3. "etherpayload" \in DOMAIN T /\ Payload \subseteq T["etherpayload"]
  BY ICMPTypesHave DEF IPIn, IPRestNames
<1>4. CASE ICMPPayload(r, size) = s /\ r.good /\ Len(r.rest) >= size
  <2>1. s.good
    <3> DEFINE n == Len(r.rest)
               w == SubSeq(r.rest, 1, size)
    <3>1. s = IF ~r.good \/ n < size THEN Failed(r) ELSE Taken(r, "etherpayload", w, size)
      BY Zenon DEF ReadBytes
    <3>2. n \in Nat
      BY DEF Reads
    <3> HIDE DEF s, w
    <3>3. n >= size
      BY <1>4
    <3> HIDE DEF n
    <3>4. ~(n < size)
      BY <3>2, <3>3
    <3>5. s = Taken(r, "etherpayload", w, size)
      BY <1>4, <3>1, <3>4
    <3>6. Taken(r, "etherpayload", w, size).good = r.good
      BY Zenon DEF Taken
    <3>7. QED
      BY <1>4, <3>5, <3>6
  <2> HIDE DEF s
  <2>2. /\ Moves(r, s, {"etherpayload"}, T)
        /\ s.good => s.p["etherpayload"] \in Seq(Byte) /\ Len(s.p["etherpayload"]) = size
    BY <1>2, <1>3, BytesMove DEF s
  <2>3. Paid(s.p)
    BY <1>2, <2>1, <2>2 DEF Paid
  <2>4. QED
    BY <1>4, <2>2, <2>3 DEF Moves
<1>5. CASE ICMPPayload(r, size) = With(r, z)
  <2>1. Zeros(size) \in Payload
    BY <1>2, ZerosBytes
  <2>2. Of(r.p, T)
    BY DEF Reads
  <2>3. Room(T, "etherpayload", Zeros(size))
    BY <1>3, <2>1 DEF Room
  <2>4. Of(z, T) /\ z["etherpayload"] = Zeros(size)
    BY <2>2, <2>3, PutFirst
  <2> HIDE DEF z
  <2>5. Reads(With(r, z), T) /\ With(r, z).p = z
    BY <2>4, WithOf
  <2>6. QED
    BY <1>5, <2>1, <2>4, <2>5 DEF Paid
<1>6. QED
  BY <1>1, <1>4, <1>5

(***************************************************************************)
(* What is read from any bytes has the fields of ICMP, and a payload.      *)
(***************************************************************************)
LEMMA ICMPReads ==
  ASSUME NEW r, Reads(r, ICMPTypes)
  PROVE  /\ Reads(ICMPStreamFrom(r), ICMPTypes)
         /\ ICMPStreamFrom(r).good => Paid(ICMPStreamFrom(r).p)
<1> DEFINE T == ICMPTypes
           s == ReadFields(IPStreamFrom(r), ICMPHead)
           size == s.p.totalLength - 28 - Len(s.p.options)
           t == ICMPPayload(s, size)
           u == [p |-> t.p, rest |-> t.rest, good |-> TRUE]
<1>1. Reads(s, T)
  BY ICMPTypesHave, IPAndFields
<1>2. ICMPStreamFrom(r) = IF size \notin 0..ETHERNET_MAX_SIZE THEN Failed(s) ELSE u
  BY Zenon DEF ICMPStreamFrom, ReadICMPPayload
<1> HIDE DEF s
<1>3. size \in Int
  <2> DEFINE n == s.p.totalLength
             m == Len(s.p.options)
             q == s.p
  <2>1. Of(q, T)
    BY <1>1 DEF Reads
  <2> HIDE DEF q
  <2>2. q.totalLength \in Short /\ Len(q.options) \in Nat
    BY <2>1, ICMPTypesHave, IPFields, IPHeaderWritten
  <2>3. n \in Int /\ m \in Int
    BY <2>2, ShortBytes DEF q
  <2> HIDE DEF n, m
  <2>4. n - 28 - m \in Int
    BY <2>3
  <2>5. QED
    BY <2>4 DEF n, m
<1> HIDE DEF size
<1>4. CASE size \in 0..ETHERNET_MAX_SIZE
  <2>1. size \in Nat /\ size <= ETHERNET_MAX_SIZE
    BY <1>4, SizeAssumption
  <2>2. Reads(t, T) /\ Paid(t.p)
    BY <1>1, <2>1, ICMPPayloadOf
  <2> HIDE DEF t
  <2>3. u.p = t.p /\ u.rest = t.rest /\ u.good = TRUE /\
        u = [p |-> u.p, rest |-> u.rest, good |-> u.good]
    OBVIOUS
  <2>4. ICMPStreamFrom(r) = u
    BY <1>2, <1>4
  <2> HIDE DEF u
  <2>5. Reads(u, T)
    BY <2>2, <2>3 DEF Reads
  <2>6. QED
    BY <2>2, <2>3, <2>4, <2>5
<1>5. CASE size \notin 0..ETHERNET_MAX_SIZE
  <2>1. ICMPStreamFrom(r) = Failed(s)
    BY <1>2, <1>5
  <2>2. QED
    BY <1>1, <2>1, FailedOf
<1>6. QED
  BY <1>4, <1>5

(***************************************************************************)
(* ICMP writes the bytes its GetEncodeSpace counts.                        *)
(***************************************************************************)
LEMMA ICMPWritten ==
  ASSUME NEW p, Of(p, ICMPTypes), Paid(p)
  PROVE  Exactly(ICMPStreamTo(p), ICMPLen(p))
<1> DEFINE a == IPStreamTo(p)
           b == WriteFields(p, ICMPHead)
           c == p.etherpayload
           k == IPLen(p)
<1>1. Exactly(a, k) /\ k \in Nat
  BY ICMPTypesHave, IPWritten
<1>2. b \in Seq(Byte) /\ Len(b) = 8
  BY ICMPTypesHave, ICMPHeadIs, LaidWritten
<1>3. c \in Seq(Byte) /\ Len(c) \in Nat
  BY PaidBytes
<1>4. ICMPStreamTo(p) = a \o b \o c /\ ICMPLen(p) = 8 + Len(c) + k
  BY Zenon DEF ICMPStreamTo, ICMPLen
<1> HIDE DEF a, b, c, k
<1>5. a \in Seq(Byte) /\ Len(a) = k
  BY <1>1 DEF Exactly
<1>6. a \o b \in Seq(Byte) /\ Len(a \o b) = Len(a) + Len(b)
  BY <1>2, <1>5, BytesAndBytes
<1> DEFINE d == a \o b
<1> HIDE DEF d
<1>7. d \o c \in Seq(Byte) /\ Len(d \o c) = Len(d) + Len(c)
  BY <1>3, <1>6, BytesAndBytes DEF d
<1>8. Len(d \o c) = 8 + Len(c) + k
  BY <1>1, <1>2, <1>3, <1>5, <1>6, <1>7 DEF d
<1>9. QED
  BY <1>4, <1>7, <1>8 DEF Exactly, d

(***************************************************************************)
(* Setting the checksum keeps length and payload.                          *)
(***************************************************************************)
LEMMA ICMPPutOf ==
  ASSUME NEW p, Of(p, ICMPTypes), NEW v \in Short
  PROVE  /\ Of(Put(p, "icmpchecksum", v), ICMPTypes) /\ IPLen(Put(p, "icmpchecksum", v)) = IPLen(p)
         /\ Put(p, "icmpchecksum", v).etherpayload = p.etherpayload
<1> DEFINE x == "icmpchecksum"
           q == Put(p, x, v)
<1>1. Room(ICMPTypes, x, v) /\ x \notin IPNames
  BY ICMPTypesHave DEF Room, ICMPNames
<1> HIDE DEF x
<1>2. Of(q, ICMPTypes) /\ \A y \in DOMAIN ICMPTypes \ {x} : q[y] = p[y]
  BY <1>1, PutOf
<1> HIDE DEF q
<1>3. \A y \in EtherFields \cup {"options", "etherpayload"} : y \in DOMAIN ICMPTypes \ {x}
  BY <1>1, ICMPTypesHave DEF IPNames, IPRestNames, IPIn, EtherIn
<1>4. \A y \in EtherFields \cup {"options"} : q[y] = p[y]
  BY <1>2, <1>3
<1>5. q.etherpayload = p.etherpayload
  BY <1>2, <1>3
<1>6. IPLen(q) = IPLen(p)
  BY <1>4, SameIPLen
<1>7. QED
  BY <1>2, <1>5, <1>6 DEF q, x

(***************************************************************************)
(* The checksum fits 16 bits.                                              *)
(***************************************************************************)
LEMMA ICMPCheckSumOf ==
  ASSUME NEW p, Of(p, ICMPTypes), Paid(p)
  PROVE  ICMPCheckSum(p) \in Short
<1> DEFINE q == Put(p, "icmpchecksum", 0)
           h == WriteFields(q, ICMPHead)
           b == p.etherpayload
           g == h \o b
           w == SumOfWords(g)
<1>1. ICMPCheckSum(p) = Complement(FoldedOnce(FoldedOnce(w)))
  <2>1. [p EXCEPT !.icmpchecksum = 0] = q
    BY Zenon DEF Put
  <2>2. h = WriteFields([p EXCEPT !.icmpchecksum = 0], ICMPHead)
    BY <2>1
  <2> HIDE DEF h
  <2>3. QED
    BY <2>2, Zenon DEF ICMPCheckSum
<1>2. b \in Seq(Byte)
  BY PaidBytes
<1>3. Of(q, ICMPTypes)
  BY TagValues, ICMPPutOf
<1> HIDE DEF q
<1>4. h \in Seq(Byte)
  BY <1>3, ICMPTypesHave, LaidWritten
<1> HIDE DEF h, b
<1>5. g \in Seq(Byte)
  BY <1>2, <1>4, BytesAndBytes
<1> HIDE DEF g
<1>6. w \in Nat
  BY <1>5, SumOfWordsNat
<1> HIDE DEF w
<1>7. FoldedOnce(w) \in Nat
  BY <1>6, Checksums
<1>8. FoldedOnce(FoldedOnce(w)) \in Nat
  BY <1>7, Checksums
<1>9. FoldedOnce(FoldedOnce(w)) \in Int
  BY <1>8
<1>10. QED
  BY <1>1, <1>9, Checksums

(***************************************************************************)
(* The sum after a packet was read leaves length and payload.              *)
(***************************************************************************)
LEMMA ICMPSummedOf ==
  ASSUME NEW p, Of(p, ICMPTypes), Paid(p)
  PROVE  /\ Of([p EXCEPT !.icmpchecksum = ICMPCheckSum(p)], ICMPTypes)
         /\ IPLen([p EXCEPT !.icmpchecksum = ICMPCheckSum(p)]) = IPLen(p)
         /\ [p EXCEPT !.icmpchecksum = ICMPCheckSum(p)].etherpayload = p.etherpayload
<1> DEFINE c == ICMPCheckSum(p)
           q == [p EXCEPT !.icmpchecksum = ICMPCheckSum(p)]
<1>1. c \in Short
  BY ICMPCheckSumOf
<1>2. q = Put(p, "icmpchecksum", c)
  BY Zenon DEF Put
<1> HIDE DEF c, q
<1>3. Of(q, ICMPTypes) /\ IPLen(q) = IPLen(p) /\ q.etherpayload = p.etherpayload
  BY <1>1, <1>2, ICMPPutOf
<1>4. QED
  BY <1>3 DEF q

(***************************************************************************)
(* Encode leaves the count.                                                *)
(***************************************************************************)
LEMMA ICMPPreparedOf ==
  ASSUME NEW p, Of(p, ICMPTypes), Paid(p)
  PROVE  Of(ICMPPrepared(p), ICMPTypes) /\ Paid(ICMPPrepared(p)) /\
           ICMPLen(ICMPPrepared(p)) = ICMPLen(p)
<1> DEFINE n == Len(p.etherpayload)
           i == IPLen(p)
           j == 8 + n
           l == ICMPLen(p)
           s == [p EXCEPT !.icmpchecksum = ICMPCheckSum(p)]
           q == IPPrepared(s, l)
<1>1. n \in Nat /\ n <= ETHERNET_MAX_SIZE
  BY PaidBytes
<1>2. l = 8 + n + i
  BY Zenon DEF ICMPLen
<1>3. i \in Nat
  BY ICMPTypesHave, IPWritten
<1>4. Of(s, ICMPTypes) /\ IPLen(s) = i /\ s.etherpayload = p.etherpayload
  BY ICMPSummedOf
<1>5. ICMPPrepared(p) = q
  BY Zenon DEF ICMPPrepared
<1> HIDE DEF s, l, n, i
<1>6. l = i + j /\ j \in Nat /\ j <= ETHERNET_MAX_SIZE + 60
  BY <1>1, <1>2, <1>3, SizeAssumption
<1> HIDE DEF j
<1>7. l = IPLen(s) + j
  BY <1>4, <1>6
<1>8. Of(q, ICMPTypes) /\ IPLen(q) = IPLen(s) /\ q.etherpayload = s.etherpayload
  BY <1>4, <1>6, <1>7, ICMPTypesHave, IPPreparedKeeps
<1> HIDE DEF q
<1>9. q.etherpayload = p.etherpayload /\ IPLen(q) = IPLen(p)
  BY <1>4, <1>8 DEF i
<1>10. ICMPLen(q) = ICMPLen(p)
  BY <1>9, Zenon DEF ICMPLen
<1>11. Paid(q)
  BY <1>9 DEF Paid
<1>12. QED
  BY <1>5, <1>8, <1>10, <1>11

-----------------------------------------------------------------------------
(***************************************************************************)
(* The fields of TCP that are not written as they are.                     *)
(***************************************************************************)
TCPExtra == [tcpdataOffset |-> Nibble, tcpoptions |-> OptionBytes]

(***************************************************************************)
(* The fields of UnknownTCP.                                               *)
(***************************************************************************)
TCPTypes == OnIP("UnknownTCP", Joined(LayoutTypes(TCPHead), TCPExtra))

(***************************************************************************)
(* The names of those of the TCP header.                                   *)
(***************************************************************************)
TCPNames == {"tcpsourcePort", "tcpdestinationPort", "tcpsequence", "tcpacknowledge", "tcpflags",
             "tcpwindowSize", "tcpchecksum", "tcpurgentPointer"}

(***************************************************************************)
(* The names of the others.                                                *)
(***************************************************************************)
TCPExtraNames == {"tcpdataOffset", "tcpoptions"}

(***************************************************************************)
(* The bytes that the data offset leaves for options.                      *)
(***************************************************************************)
TCPPad(p) == IF p.tcpdataOffset <= 5 THEN 0 ELSE 4 * p.tcpdataOffset - 20

(***************************************************************************)
(* The options fit there, with less than a word left.                      *)
(***************************************************************************)
TCPShape(p) == Len(p.tcpoptions) <= TCPPad(p) /\ TCPPad(p) < Len(p.tcpoptions) + 4

(***************************************************************************)
(* The options fill it.                                                    *)
(***************************************************************************)
TCPFull(p) == Len(p.tcpoptions) = TCPPad(p)

(***************************************************************************)
(* What the fields are.                                                    *)
(***************************************************************************)
LEMMA TCPTypesHave ==
  /\ IPIn(TCPTypes) /\ "class" \in DOMAIN TCPTypes /\ TCPTypes["class"] = {"UnknownTCP"}
  /\ Laid(TCPHead, 8, TCPTypes) /\ TCPNames \cup TCPExtraNames \subseteq DOMAIN TCPTypes
  /\ (TCPNames \cup TCPExtraNames) \cap IPNames = {}
  /\ TCPTypes["tcpflags"] = Short /\ TCPTypes["tcpchecksum"] = Short
  /\ TCPTypes["tcpdataOffset"] = Nibble /\ TCPTypes["tcpoptions"] = OptionBytes
  /\ DOMAIN Joined(LayoutTypes(TCPHead), TCPExtra) = TCPNames \cup TCPExtraNames
  /\ DOMAIN LayoutTypes(TCPHead) = TCPNames
<1> DEFINE U == LayoutTypes(TCPHead)
           J == Joined(U, TCPExtra)
<1>1. /\ LayoutOf(TCPHead, 8, Names(TCPHead)) /\ DOMAIN U = TCPNames
      /\ U["tcpflags"] = Short /\ U["tcpchecksum"] = Short
  BY TCPHeadIs, TypesOfLayout DEF TCPNames
<1>2. (TCPNames \cup TCPExtraNames) \cap IPNames = {} /\ TCPNames \cap TCPExtraNames = {}
  <2>1. TCPNames \cap TCPExtraNames = {}
    BY DEF TCPNames, TCPExtraNames
  <2>2. TCPNames \cap IPNames = {}
    BY DEF TCPNames, IPNames, EtherFields, IPHeadNames, IPRestNames
  <2>3. TCPExtraNames \cap IPNames = {}
    BY DEF TCPExtraNames, IPNames, EtherFields, IPHeadNames, IPRestNames
  <2>4. QED
    BY <2>1, <2>2, <2>3
<1>3. /\ DOMAIN TCPExtra = TCPExtraNames
      /\ TCPExtra["tcpdataOffset"] = Nibble /\ TCPExtra["tcpoptions"] = OptionBytes
  BY DEF TCPExtra, TCPExtraNames
<1> HIDE DEF U
<1>4. DOMAIN J = TCPNames \cup TCPExtraNames /\ Extends(J, U) /\ Extends(J, TCPExtra)
  BY <1>1, <1>2, <1>3, JoinedIs, JoinedExtends
<1> HIDE DEF J
<1>5. /\ IPIn(TCPTypes) /\ Extends(TCPTypes, J)
      /\ "class" \in DOMAIN TCPTypes /\ TCPTypes["class"] = {"UnknownTCP"}
  BY <1>2, <1>4, OnIPHas DEF TCPTypes, U, J
<1>6. Extends(TCPTypes, U) /\ Extends(TCPTypes, TCPExtra)
  BY <1>4, <1>5, ExtendsSteps
<1>7. /\ TCPNames \cup TCPExtraNames \subseteq DOMAIN TCPTypes
      /\ TCPTypes["tcpflags"] = Short /\ TCPTypes["tcpchecksum"] = Short
  BY <1>1, <1>3, <1>6 DEF Extends, TCPNames
<1>8. TCPTypes["tcpdataOffset"] = Nibble /\ TCPTypes["tcpoptions"] = OptionBytes
  BY <1>3, <1>6 DEF Extends, TCPExtraNames
<1>9. Laid(TCPHead, 8, TCPTypes)
  BY <1>1, <1>6, ExtendsLaid DEF U
<1>10. QED
  BY <1>1, <1>2, <1>4, <1>5, <1>7, <1>8, <1>9 DEF U, J

(***************************************************************************)
(* What their values are.                                                  *)
(***************************************************************************)
LEMMA TCPFields ==
  ASSUME NEW p, Of(p, TCPTypes)
  PROVE  /\ p.tcpdataOffset \in Nibble /\ p.tcpoptions \in OptionBytes /\ p.tcpflags \in Short
         /\ p.tcpoptions \in Seq(Byte) /\ Len(p.tcpoptions) \in Nat /\ Len(p.tcpoptions) <= 40
<1>1. p["tcpdataOffset"] \in Nibble /\ p["tcpoptions"] \in OptionBytes /\ p["tcpflags"] \in Short
  BY TCPTypesHave DEF Of, TCPNames, TCPExtraNames
<1> DEFINE b == p.tcpoptions
<1>2. b \in Seq(Byte) /\ Len(b) <= 40
  BY <1>1 DEF OptionBytes
<1>3. Len(b) \in Nat
  BY <1>2
<1>4. QED
  BY <1>1, <1>2, <1>3

(***************************************************************************)
(* A new TCP packet has them, and no options.                              *)
(***************************************************************************)
LEMMA NewUnknownTCPOf == Of(NewUnknownTCP, TCPTypes) /\ TCPShape(NewUnknownTCP)
                         /\ NewUnknownTCP["tcpoptions"] = <<>>
<1> DEFINE s == [tcpdataOffset |-> 0, tcpoptions |-> <<>>]
           c == Cleared(TCPHead)
           q == Joined(c, s)
           U == LayoutTypes(TCPHead)
           J == Joined(U, TCPExtra)
<1>1. 0 \in Byte /\ 0 \in Nibble
  BY DEF Byte, Nibble
<1>2. <<>> \in OptionBytes
  BY DEF OptionBytes
<1>3. Of(c, U) /\ DOMAIN U = TCPNames /\ DOMAIN J = TCPNames \cup TCPExtraNames /\
      DOMAIN J \cap IPNames = {}
  BY TCPHeadIs, ClearedOf, TCPTypesHave
<1>4. s["tcpdataOffset"] = 0 /\ s["tcpoptions"] = <<>> /\ DOMAIN s = TCPExtraNames
  BY DEF TCPExtraNames
<1>5. Of(s, TCPExtra)
  <2>1. Function(s, TCPExtraNames)
    BY Zenon DEF Function, TCPExtraNames
  <2> HIDE DEF s
  <2>2. /\ DOMAIN TCPExtra = TCPExtraNames
        /\ TCPExtra["tcpdataOffset"] = Nibble /\ TCPExtra["tcpoptions"] = OptionBytes
    BY DEF TCPExtra, TCPExtraNames
  <2>3. \A x \in TCPExtraNames : s[x] \in TCPExtra[x]
    BY <1>1, <1>2, <1>4, <2>2 DEF TCPExtraNames
  <2>4. QED
    BY <2>1, <2>2, <2>3 DEF Of
<1> HIDE DEF s, c, U
<1>6. Of(q, J)
  BY <1>3, <1>5, OfJoined
<1>7. DOMAIN c = TCPNames
  BY <1>3, OfDomain
<1>8. q["tcpdataOffset"] = 0 /\ q["tcpoptions"] = <<>>
  <2>1. \A x \in DOMAIN s \ DOMAIN c : q[x] = s[x]
    BY JoinedIs
  <2> HIDE DEF q
  <2>2. \A x \in TCPExtraNames : x \in DOMAIN s \ DOMAIN c
    BY <1>4, <1>7 DEF TCPExtraNames, TCPNames
  <2>3. QED
    BY <1>4, <2>1, <2>2 DEF TCPExtraNames
<1>9. NewUnknownTCP = Joined(NewIP("UnknownTCP", 0), q)
  BY Zenon DEF NewUnknownTCP, q, s, c
<1> HIDE DEF q, J
<1>10. /\ Of(Joined(NewIP("UnknownTCP", 0), q), OnIP("UnknownTCP", J))
       /\ \A x \in DOMAIN J : Joined(NewIP("UnknownTCP", 0), q)[x] = q[x]
  BY <1>1, <1>3, <1>6, NewOnIPOf
<1>11. NewUnknownTCP["tcpdataOffset"] = 0 /\ NewUnknownTCP["tcpoptions"] = <<>>
  BY <1>3, <1>8, <1>9, <1>10, SMTT(30) DEF TCPExtraNames
<1>12. Of(NewUnknownTCP, TCPTypes)
  BY <1>9, <1>10 DEF TCPTypes, J, U
<1>13. TCPShape(NewUnknownTCP)
  BY <1>11 DEF TCPShape, TCPPad
<1>14. QED
  BY <1>11, <1>12, <1>13

(***************************************************************************)
(* Setting a field of TCP keeps the IP header and the payload.             *)
(***************************************************************************)
LEMMA TCPPutOf ==
  ASSUME NEW p, Of(p, TCPTypes), NEW x \in TCPNames \cup TCPExtraNames, NEW v \in TCPTypes[x]
  PROVE  /\ Of(Put(p, x, v), TCPTypes) /\ IPLen(Put(p, x, v)) = IPLen(p)
         /\ Put(p, x, v).etherpayload = p.etherpayload /\ Put(p, x, v)[x] = v
         /\ \A y \in DOMAIN TCPTypes \ {x} : Put(p, x, v)[y] = p[y]
<1> DEFINE q == Put(p, x, v)
<1>1. Room(TCPTypes, x, v) /\ x \notin IPNames
  BY TCPTypesHave DEF Room
<1>2. Of(q, TCPTypes) /\ q[x] = v /\ \A y \in DOMAIN TCPTypes \ {x} : q[y] = p[y]
  BY <1>1, PutOf
<1> HIDE DEF q
<1>3. \A y \in EtherFields \cup {"options", "etherpayload"} : y \in DOMAIN TCPTypes \ {x}
  BY <1>1, TCPTypesHave DEF IPNames, IPRestNames, IPIn, EtherIn
<1>4. \A y \in EtherFields \cup {"options"} : q[y] = p[y]
  BY <1>2, <1>3
<1>5. q.etherpayload = p.etherpayload
  BY <1>2, <1>3
<1>6. IPLen(q) = IPLen(p)
  BY <1>4, SameIPLen
<1>7. QED
  BY <1>2, <1>5, <1>6 DEF q

(***************************************************************************)
(* The data offset leaves 40 bytes at most.                                *)
(***************************************************************************)
LEMMA TCPPadOf ==
  ASSUME NEW p, Of(p, TCPTypes)
  PROVE  /\ TCPPad(p) \in Nat /\ TCPPad(p) <= 40
         /\ p.tcpdataOffset > 5 => TCPPad(p) = 4 * p.tcpdataOffset - 20
         /\ p.tcpdataOffset <= 5 => TCPPad(p) = 0
         /\ p.tcpdataOffset <= 5 <=> ~(p.tcpdataOffset > 5)
<1> DEFINE k == p.tcpdataOffset
<1>1. k \in Nat /\ k < 16
  BY TCPFields DEF Nibble
<1>2. TCPPad(p) = IF k <= 5 THEN 0 ELSE 4 * k - 20
  BY Zenon DEF TCPPad
<1> HIDE DEF k
<1>3. (k <= 5 <=> ~(k > 5)) /\ (k > 5 => 4 * k - 20 \in Nat /\ 4 * k - 20 <= 40)
  BY <1>1
<1>4. QED
  BY <1>2, <1>3 DEF k

-----------------------------------------------------------------------------
(***************************************************************************)
(* Options that fill the words are those whose length is a multiple of     *)
(* four.                                                                   *)
(***************************************************************************)
LEMMA TCPShapes ==
  ASSUME NEW p, Of(p, TCPTypes)
  PROVE  /\ TCPFull(p) => TCPShape(p)
         /\ TCPShape(p) /\ Len(p.tcpoptions) % 4 = 0 => TCPFull(p)
         /\ TCPFull(p) => Len(p.tcpoptions) % 4 = 0
<1> DEFINE n == Len(p.tcpoptions)
           k == p.tcpdataOffset
           m == TCPPad(p)
<1>1. n \in Nat /\ m \in Nat /\ k \in Nat
  BY TCPFields, TCPPadOf DEF Nibble
<1>2. m = 0 \/ (m = 4 * k - 20 /\ k > 5)
  BY TCPPadOf
<1>3. (TCPFull(p) <=> n = m) /\ (TCPShape(p) <=> n <= m /\ m < n + 4)
  BY Zenon DEF TCPFull, TCPShape
<1> HIDE DEF n, k, m
<1>4. m % 4 = 0
  <2>1. CASE m = 0
    BY <2>1
  <2>2. CASE m = 4 * k - 20 /\ k > 5
    <3>1. m = 4 * (k - 5) /\ k - 5 \in Nat
      BY <1>1, <2>2
    <3>2. \A i \in Nat : (4 * i) % 4 = 0
      BY SMT
    <3>3. QED
      BY <3>1, <3>2
  <2>3. QED
    BY <1>2, <2>1, <2>2
<1>5. n = m => n <= m /\ m < n + 4
  BY <1>1
<1>6. n <= m /\ m < n + 4 /\ n % 4 = 0 => n = m
  BY <1>1, <1>4
<1>7. n = m => n % 4 = 0
  BY <1>4
<1>8. QED
  BY <1>3, <1>5, <1>6, <1>7 DEF n

(***************************************************************************)
(* Taking the data offset and the flags apart leaves the fields of TCP.    *)
(***************************************************************************)
LEMMA TCPSplitOf ==
  ASSUME NEW p, Of(p, TCPTypes)
  PROVE  /\ Of(TCPSplit(p), TCPTypes)
         /\ \A x \in DOMAIN TCPTypes \ {"tcpdataOffset", "tcpflags"} : TCPSplit(p)[x] = p[x]
<1> DEFINE f == p.tcpflags
           v == f \div 4096
           w == f % 512
           a == Put(p, "tcpdataOffset", v)
           b == Put(a, "tcpflags", w)
<1>1. v \in Nibble /\ w \in Short
  <2>1. f \in Short
    BY TCPFields
  <2> HIDE DEF f
  <2>2. QED
    BY <2>1, PartsOfShort
<1>2. TCPSplit(p) = b
  <2>1. TCPSplit(p) = [p EXCEPT !.tcpdataOffset = v, !.tcpflags = w]
    BY SMT DEF TCPSplit
  <2> HIDE DEF v, w
  <2>2. QED
    BY <2>1, Zenon DEF Put
<1> HIDE DEF v, w
<1>3. /\ "tcpdataOffset" \in TCPNames \cup TCPExtraNames /\
           "tcpflags" \in TCPNames \cup TCPExtraNames
      /\ v \in TCPTypes["tcpdataOffset"] /\ w \in TCPTypes["tcpflags"]
  BY <1>1, TCPTypesHave DEF TCPNames, TCPExtraNames
<1>4. Of(a, TCPTypes) /\ \A x \in DOMAIN TCPTypes \ {"tcpdataOffset"} : a[x] = p[x]
  BY <1>3, TCPPutOf
<1> HIDE DEF a
<1>5. Of(b, TCPTypes) /\ \A x \in DOMAIN TCPTypes \ {"tcpflags"} : b[x] = a[x]
  BY <1>3, <1>4, TCPPutOf
<1> HIDE DEF b
<1>6. QED
  BY <1>2, <1>4, <1>5

(***************************************************************************)
(* Where the options are read well they fill what the data offset leaves.  *)
(***************************************************************************)
LEMMA TCPOptionsMove ==
  ASSUME NEW r, Reads(r, TCPTypes), r.p.tcpoptions = <<>>
  PROVE  /\ Moves(r, ReadTCPOptions(r), {"tcpoptions"}, TCPTypes) /\
              Reads(ReadTCPOptions(r), TCPTypes)
         /\ ReadTCPOptions(r).good => TCPFull(ReadTCPOptions(r).p)
<1> DEFINE T == TCPTypes
           q == r.p
           k == q.tcpdataOffset
           n == 4 * k - 20
           s == ReadBytes(r, "tcpoptions", n)
<1>1. ReadTCPOptions(r) = IF k > 5 THEN s ELSE r
  BY Zenon DEF ReadTCPOptions
<1>2. Of(q, T)
  BY DEF Reads
<1>3. CASE k > 5
  <2>1. n \in Nat /\ n <= 40 /\ TCPPad(q) = n
    <3> HIDE DEF q
    <3>1. TCPPad(q) \in Nat /\ TCPPad(q) <= 40 /\ (q.tcpdataOffset > 5 =>
          TCPPad(q) = 4 * q.tcpdataOffset - 20)
      BY <1>2, TCPPadOf
    <3>2. QED
      BY <1>3, <3>1
  <2> HIDE DEF n
  <2>2. "tcpoptions" \in DOMAIN T /\ \A b \in Seq(Byte) : Len(b) = n => b \in T["tcpoptions"]
    BY <2>1, TCPTypesHave DEF OptionBytes, TCPExtraNames
  <2> HIDE DEF s
  <2>3. /\ Moves(r, s, {"tcpoptions"}, T)
        /\ s.good => s.p["tcpoptions"] \in Seq(Byte) /\ Len(s.p["tcpoptions"]) = n
    BY <2>1, <2>2, BytesMove DEF s
  <2>4. s.p["tcpdataOffset"] = q["tcpdataOffset"]
    <3>1. "tcpdataOffset" \in DOMAIN T \ {"tcpoptions"}
      BY TCPTypesHave DEF TCPExtraNames
    <3>2. QED
      BY <2>3, <3>1 DEF Moves
  <2>5. TCPPad(s.p) = TCPPad(q)
    BY <2>4, Zenon DEF TCPPad
  <2>6. s.good => TCPFull(s.p)
    BY <2>1, <2>3, <2>5 DEF TCPFull
  <2>7. ReadTCPOptions(r) = s
    BY <1>1, <1>3
  <2>8. QED
    BY <2>3, <2>6, <2>7 DEF Moves
<1>4. CASE ~(k > 5)
  <2>1. ReadTCPOptions(r) = r
    BY <1>1, <1>4
  <2>2. TCPPad(q) = 0
    <3> HIDE DEF q
    <3>1. (q.tcpdataOffset <= 5 =>
          TCPPad(q) = 0) /\ (q.tcpdataOffset <= 5 <=> ~(q.tcpdataOffset > 5))
      BY <1>2, TCPPadOf
    <3>2. QED
      BY <1>4, <3>1
  <2>3. Len(q.tcpoptions) = 0
    BY DEF q
  <2>4. TCPFull(r.p)
    BY <2>2, <2>3 DEF TCPFull
  <2>5. Moves(r, r, {"tcpoptions"}, T)
    BY MovesNone
  <2>6. QED
    BY <2>1, <2>4, <2>5
<1>5. QED
  BY <1>3, <1>4

(***************************************************************************)
(* What is read from any bytes has the fields of TCP, a payload, and       *)
(* options that fill the header.                                           *)
(***************************************************************************)
LEMMA TCPReads ==
  ASSUME NEW r, Reads(r, TCPTypes), r.p.tcpoptions = <<>>
  PROVE  /\ Reads(UnknownTCPStreamFrom(r), TCPTypes)
         /\ UnknownTCPStreamFrom(r).good =>
              Paid(UnknownTCPStreamFrom(r).p) /\ TCPFull(UnknownTCPStreamFrom(r).p)
<1> DEFINE T == TCPTypes
           s == ReadFields(IPStreamFrom(r), TCPHead)
           q == TCPSplit(s.p)
           a == With(s, q)
           b == ReadTCPOptions(a)
           size == b.p.totalLength - 40 - Len(b.p.options) - Len(b.p.tcpoptions)
           c == ReadPayload(b, size)
<1>1. Moves(r, s, IPTouched \cup Names(TCPHead), T) /\ Reads(s, T)
  BY TCPTypesHave, IPAndFields
<1>2. UnknownTCPStreamFrom(r) = c
  BY Zenon DEF UnknownTCPStreamFrom, ReadTCPPayload, TCPStreamFrom, ReadTCPHead
<1>3. "tcpoptions" \in DOMAIN T \ (IPTouched \cup Names(TCPHead))
  BY TCPTypesHave, TCPHeadIs DEF IPTouched, EtherFields, IPHeadNames, IPRestNames, TCPExtraNames
<1>4. s.p["tcpoptions"] = <<>>
  BY <1>1, <1>3 DEF Moves
<1> HIDE DEF s
<1> DEFINE p == s.p
<1>5. Of(p, T)
  BY <1>1 DEF Reads
<1>6. Of(q, T) /\ q["tcpoptions"] = <<>>
  <2> HIDE DEF p
  <2>1. Of(TCPSplit(p), T) /\ \A x \in DOMAIN T \ {"tcpdataOffset", "tcpflags"} :
        TCPSplit(p)[x] = p[x]
    BY <1>5, TCPSplitOf
  <2>2. "tcpoptions" \in DOMAIN T \ {"tcpdataOffset", "tcpflags"}
    BY <1>3
  <2>3. p["tcpoptions"] = <<>>
    BY <1>4 DEF p
  <2>4. q = TCPSplit(p)
    BY DEF p
  <2> HIDE DEF q
  <2>5. QED
    BY <2>1, <2>2, <2>3, <2>4
<1> HIDE DEF p, q
<1>7. Reads(a, T) /\ a.p = q
  BY <1>1, <1>6, WithOf
<1> HIDE DEF a
<1>8. Reads(b, T) /\ (b.good => TCPFull(b.p))
  BY <1>6, <1>7, TCPOptionsMove
<1> HIDE DEF b
<1>9. size \in Int
  <2> DEFINE n == b.p.totalLength
             m == Len(b.p.options)
             l == Len(b.p.tcpoptions)
             e == b.p
  <2>1. Of(e, T)
    BY <1>8 DEF Reads
  <2> HIDE DEF e
  <2>2. e.totalLength \in Short /\ Len(e.options) \in Nat /\ Len(e.tcpoptions) \in Nat
    BY <2>1, TCPTypesHave, IPFields, IPHeaderWritten, TCPFields
  <2>3. n \in Int /\ m \in Int /\ l \in Int
    BY <2>2, ShortBytes DEF e
  <2> HIDE DEF n, m, l
  <2>4. n - 40 - m - l \in Int
    BY <2>3
  <2>5. QED
    BY <2>4 DEF n, m, l
<1> HIDE DEF size
<1>10. /\ Moves(b, c, {"etherpayload"}, T) /\ Reads(c, T)
       /\ c.good => Paid(c.p) /\ b.good
  BY <1>8, <1>9, TCPTypesHave, ReadPayloadOf
<1> HIDE DEF c
<1>11. c.p["tcpoptions"] = b.p["tcpoptions"] /\ c.p["tcpdataOffset"] = b.p["tcpdataOffset"]
  <2>1. "tcpoptions" \in DOMAIN T \ {"etherpayload"} /\
        "tcpdataOffset" \in DOMAIN T \ {"etherpayload"}
    BY TCPTypesHave DEF TCPExtraNames
  <2>2. QED
    BY <1>10, <2>1 DEF Moves
<1>12. TCPFull(b.p) => TCPFull(c.p)
  BY <1>11, Zenon DEF TCPFull, TCPPad
<1>13. QED
  BY <1>2, <1>8, <1>10, <1>12

-----------------------------------------------------------------------------
(***************************************************************************)
(* The header takes 20 bytes and what the data offset leaves.              *)
(***************************************************************************)
LEMMA TCPHeaderWritten ==
  ASSUME NEW p, Of(p, TCPTypes), TCPShape(p)
  PROVE  Exactly(TCPHeader(p), 20 + TCPPad(p))
<1> DEFINE v == p.tcpflags + 4096 * p.tcpdataOffset
           a == Put(p, "tcpflags", v)
           h == WriteFields(a, TCPHead)
           k == p.tcpdataOffset
           b == p.tcpoptions
           z == Zeros(4 * k - 20 - Len(b))
           m == TCPPad(p)
<1>1. TCPHeader(p) = h \o (IF k <= 5 THEN <<>> ELSE b \o z)
  <2>1. TCPHeader(p) = WriteFields([p EXCEPT !.tcpflags =
        v], TCPHead) \o (IF k <= 5 THEN <<>> ELSE b \o z)
    BY SMT DEF TCPHeader
  <2> HIDE DEF v, k, b, z
  <2>2. [p EXCEPT !.tcpflags = v] = a
    BY Zenon DEF Put
  <2> HIDE DEF a
  <2>3. QED
    BY <2>1, <2>2
<1>2. k \in Nat /\ b \in Seq(Byte) /\ Len(b) \in Nat
  BY TCPFields DEF Nibble
<1>3. v \in Int
  <2> DEFINE i == p.tcpflags
  <2>1. i \in Int
    BY TCPFields, ShortBytes
  <2> HIDE DEF i, k
  <2>2. i + 4096 * k \in Int
    BY <1>2, <2>1
  <2>3. QED
    BY <2>2 DEF i, k
<1> HIDE DEF v
<1>4. h \in Seq(Byte) /\ Len(h) = 20
  <2>1. 5 \in 1..8 /\ TCPHead[5][1] = "tcpflags" /\ TCPHead[5][2] = 2
    BY DEF TCPHead
  <2>2. Laid(TCPHead, 8, TCPTypes)
    BY TCPTypesHave
  <2>3. Exactly(WriteFields(Put(p, TCPHead[5][1], v), TCPHead), Width(TCPHead))
    BY <1>3, <2>1, <2>2, LaidLoosely
  <2>4. QED
    BY <2>1, <2>3, TCPHeadIs DEF Exactly
<1>5. m \in Nat /\ (k <= 5 => m = 0) /\ (~(k <= 5) => m = 4 * k - 20)
  BY TCPPadOf
<1>6. Len(b) <= m
  BY DEF TCPShape
<1> HIDE DEF h, a, m
<1>7. CASE k <= 5
  <2>1. TCPHeader(p) = h \o <<>>
    BY <1>1, <1>7
  <2>2. <<>> \in Seq(Byte) /\ Len(<<>>) = 0
    OBVIOUS
  <2>3. h \o <<>> \in Seq(Byte) /\ Len(h \o <<>>) = Len(h) + Len(<<>>)
    BY <1>4, <2>2, BytesAndBytes
  <2>4. Len(h \o <<>>) = 20 + m
    BY <1>4, <1>5, <1>7, <2>2, <2>3
  <2>5. QED
    BY <2>1, <2>3, <2>4 DEF Exactly, m
<1>8. CASE ~(k <= 5)
  <2> DEFINE n == 4 * k - 20 - Len(b)
             c == b \o z
  <2>1. n \in Nat /\ n = m - Len(b)
    <3> HIDE DEF b, k
    <3>1. QED
      BY <1>2, <1>5, <1>6, <1>8
  <2>2. z \in Seq(Byte) /\ Len(z) = n
    <3> HIDE DEF n, b, k
    <3>1. Zeros(n) \in Seq(Byte) /\ Len(Zeros(n)) = n
      BY <2>1, ZerosBytes
    <3>2. QED
      BY <3>1 DEF n
  <2> HIDE DEF z, b, n
  <2>3. c \in Seq(Byte) /\ Len(c) = Len(b) + Len(z)
    BY <1>2, <2>2, BytesAndBytes
  <2>4. TCPHeader(p) = h \o c
    BY <1>1, <1>8
  <2> HIDE DEF c
  <2>5. h \o c \in Seq(Byte) /\ Len(h \o c) = Len(h) + Len(c)
    BY <1>4, <2>3, BytesAndBytes
  <2>6. Len(h \o c) = 20 + m
    BY <1>2, <1>4, <1>5, <2>1, <2>2, <2>3, <2>5
  <2>7. QED
    BY <2>4, <2>5, <2>6 DEF Exactly, m
<1>9. QED
  BY <1>7, <1>8

(***************************************************************************)
(* TCP writes at least the bytes its GetEncodeSpace counts, and these      *)
(* where the options fill the words: the padding is not counted.           *)
(***************************************************************************)
LEMMA TCPWritten ==
  ASSUME NEW p, Of(p, TCPTypes), Paid(p), TCPShape(p)
  PROVE  /\ UnknownTCPStreamTo(p) \in Seq(Byte) /\ UnknownTCPLen(p) \in Nat
         /\ Len(UnknownTCPStreamTo(p)) >= UnknownTCPLen(p)
         /\ TCPFull(p) => Exactly(UnknownTCPStreamTo(p), UnknownTCPLen(p))
<1> DEFINE a == IPStreamTo(p)
           b == TCPHeader(p)
           c == p.etherpayload
           i == IPLen(p)
           m == TCPPad(p)
           o == Len(p.tcpoptions)
           l == UnknownTCPLen(p)
<1>1. a \in Seq(Byte) /\ Len(a) = i /\ i \in Nat
  BY TCPTypesHave, IPWritten DEF Exactly
<1>2. b \in Seq(Byte) /\ Len(b) = 20 + m
  BY TCPHeaderWritten DEF Exactly
<1>3. c \in Seq(Byte) /\ Len(c) \in Nat
  BY PaidBytes
<1>4. m \in Nat /\ o \in Nat /\ o <= m
  BY TCPPadOf, TCPFields DEF TCPShape
<1>5. UnknownTCPStreamTo(p) = a \o b \o c /\ l = i + 20 + o + Len(c)
  BY Zenon DEF UnknownTCPStreamTo, UnknownTCPLen, TCPLen
<1>6. TCPFull(p) => o = m
  BY DEF TCPFull
<1> HIDE DEF a, b, c, i, m, o, l
<1>7. a \o b \in Seq(Byte) /\ Len(a \o b) = Len(a) + Len(b)
  BY <1>1, <1>2, BytesAndBytes
<1> DEFINE d == a \o b
           e == d \o c
<1> HIDE DEF d
<1>8. e \in Seq(Byte) /\ Len(e) = Len(d) + Len(c)
  BY <1>3, <1>7, BytesAndBytes DEF d
<1> HIDE DEF e
<1>9. Len(e) = i + (20 + m) + Len(c)
  BY <1>1, <1>2, <1>7, <1>8 DEF d
<1>10. l \in Nat /\ Len(e) >= l /\ (o = m => Len(e) = l)
  <2> DEFINE k == Len(c)
             f == Len(e)
  <2>1. k \in Nat /\ l = i + 20 + o + k /\ f = i + (20 + m) + k
    BY <1>3, <1>5, <1>9
  <2> HIDE DEF k, f
  <2>2. l \in Nat /\ f >= l /\ (o = m => f = l)
    BY <1>1, <1>4, <2>1
  <2>3. QED
    BY <2>2 DEF f
<1>11. UnknownTCPStreamTo(p) = e
  BY <1>5 DEF d, e
<1>12. UnknownTCPLen(p) = l
  BY DEF l
<1>13. TCPFull(p) => Exactly(e, l)
  BY <1>6, <1>8, <1>10 DEF Exactly
<1>14. QED
  BY <1>8, <1>10, <1>11, <1>12, <1>13

(***************************************************************************)
(* The checksum fits 16 bits.                                              *)
(***************************************************************************)
LEMMA TCPCheckSumOf ==
  ASSUME NEW p, Of(p, TCPTypes), Paid(p), TCPShape(p)
  PROVE  TCPCheckSum(p) \in Short
<1> DEFINE b == p.etherpayload
           h == TCPHeader(p)
           length == 20 + Len(b)
           s == PseudoSum(p, length)
           g == h \o b
<1>1. TCPCheckSum(p) = Complement(s + SumOfWords(g))
  BY Zenon DEF TCPCheckSum
<1>2. b \in Seq(Byte) /\ Len(b) \in Nat
  BY PaidBytes
<1>3. h \in Seq(Byte)
  BY TCPHeaderWritten DEF Exactly
<1> HIDE DEF b, h
<1>4. length \in Int
  BY <1>2
<1> HIDE DEF length
<1>5. s \in Int
  BY <1>4, TCPTypesHave, PseudoSumOf
<1>6. g \in Seq(Byte)
  BY <1>2, <1>3, BytesAndBytes
<1> HIDE DEF s, g
<1>7. QED
  BY <1>1, <1>5, <1>6, SumInShort

(***************************************************************************)
(* q differs from p in no field that decides how many bytes are written.   *)
(***************************************************************************)
TCPLike(q, p) ==
  /\ Of(q, TCPTypes) /\ IPLen(q) = IPLen(p) /\ q.etherpayload = p.etherpayload
  /\ q.tcpoptions = p.tcpoptions /\ TCPPad(q) = TCPPad(p)

(***************************************************************************)
(* So it takes as many, and its options are as good.                       *)
(***************************************************************************)
LEMMA TCPLikeKeeps ==
  ASSUME NEW p, NEW q, TCPLike(q, p)
  PROVE  /\ UnknownTCPLen(q) = UnknownTCPLen(p) /\ (Paid(p) => Paid(q))
         /\ (TCPShape(p) => TCPShape(q)) /\ (TCPFull(p) => TCPFull(q))
<1>1. /\ IPLen(q) = IPLen(p) /\ q.etherpayload = p.etherpayload
      /\ q.tcpoptions = p.tcpoptions /\ TCPPad(q) = TCPPad(p)
  BY DEF TCPLike
<1>2. UnknownTCPLen(q) = UnknownTCPLen(p)
  BY <1>1, Zenon DEF UnknownTCPLen, TCPLen
<1>3. Paid(p) => Paid(q)
  BY <1>1 DEF Paid
<1>4. TCPShape(p) => TCPShape(q)
  BY <1>1, Zenon DEF TCPShape
<1>5. TCPFull(p) => TCPFull(q)
  BY <1>1, Zenon DEF TCPFull
<1>6. QED
  BY <1>2, <1>3, <1>4, <1>5

(***************************************************************************)
(* One such change behind another.                                         *)
(***************************************************************************)
LEMMA TCPLikeOn ==
  ASSUME NEW p, NEW q, NEW s, TCPLike(q, p), TCPLike(s, q)
  PROVE  TCPLike(s, p)
BY DEF TCPLike

(***************************************************************************)
(* Setting the checksum is one.                                            *)
(***************************************************************************)
LEMMA TCPChecked ==
  ASSUME NEW p, Of(p, TCPTypes), NEW v \in Short
  PROVE  TCPLike(Put(p, "tcpchecksum", v), p)
<1> DEFINE q == Put(p, "tcpchecksum", v)
           T == TCPTypes
<1>1. "tcpchecksum" \in TCPNames \cup TCPExtraNames /\ v \in T["tcpchecksum"]
  BY TCPTypesHave DEF TCPNames
<1>2. /\ Of(q, T) /\ IPLen(q) = IPLen(p) /\ q.etherpayload = p.etherpayload
      /\ \A y \in DOMAIN T \ {"tcpchecksum"} : q[y] = p[y]
  BY <1>1, TCPPutOf
<1> HIDE DEF q
<1>3. "tcpoptions" \in DOMAIN T \ {"tcpchecksum"} /\ "tcpdataOffset" \in DOMAIN T \ {"tcpchecksum"}
  BY TCPTypesHave DEF TCPExtraNames
<1>4. q.tcpoptions = p.tcpoptions /\ q.tcpdataOffset = p.tcpdataOffset
  BY <1>2, <1>3
<1>5. TCPPad(q) = TCPPad(p)
  BY <1>4, Zenon DEF TCPPad
<1>6. QED
  BY <1>2, <1>4, <1>5 DEF TCPLike, q

(***************************************************************************)
(* Setting a data offset of 0 to 5 is one.                                 *)
(***************************************************************************)
LEMMA TCPOffset ==
  ASSUME NEW p, Of(p, TCPTypes), NEW v \in Nibble, v = p.tcpdataOffset \/
           (p.tcpdataOffset = 0 /\ v = 5)
  PROVE  TCPLike(Put(p, "tcpdataOffset", v), p)
<1> DEFINE q == Put(p, "tcpdataOffset", v)
           T == TCPTypes
<1>1. "tcpdataOffset" \in TCPNames \cup TCPExtraNames /\ v \in T["tcpdataOffset"]
  BY TCPTypesHave DEF TCPExtraNames
<1>2. /\ Of(q, T) /\ IPLen(q) = IPLen(p) /\ q.etherpayload = p.etherpayload
      /\ q["tcpdataOffset"] = v /\ \A y \in DOMAIN T \ {"tcpdataOffset"} : q[y] = p[y]
  BY <1>1, TCPPutOf
<1> HIDE DEF q
<1>3. "tcpoptions" \in DOMAIN T \ {"tcpdataOffset"}
  BY TCPTypesHave DEF TCPExtraNames
<1>4. q.tcpoptions = p.tcpoptions /\ q.tcpdataOffset = v
  BY <1>2, <1>3
<1>5. TCPPad(q) = TCPPad(p)
  <2>1. CASE v = p.tcpdataOffset
    BY <1>4, <2>1, Zenon DEF TCPPad
  <2>2. CASE p.tcpdataOffset = 0 /\ v = 5
    BY <1>4, <2>2 DEF TCPPad
  <2>3. QED
    BY <2>1, <2>2
<1>6. QED
  BY <1>2, <1>4, <1>5 DEF TCPLike, q

(***************************************************************************)
(* What Encode sets is one.                                                *)
(***************************************************************************)
LEMMA TCPPreparedOf ==
  ASSUME NEW p, Of(p, TCPTypes), Paid(p), TCPShape(p)
  PROVE  TCPLike(UnknownTCPPrepared(p), p)
<1> DEFINE n == Len(p.etherpayload)
           o == Len(p.tcpoptions)
           i == IPLen(p)
           j == 20 + o + n
           l == UnknownTCPLen(p)
           q == IPPrepared(p, l)
           v == IF q.tcpdataOffset = 0 THEN 5 ELSE q.tcpdataOffset
           a == Put(q, "tcpdataOffset", v)
           c == TCPCheckSum(a)
           b == Put(a, "tcpchecksum", c)
           T == TCPTypes
<1>1. n \in Nat /\ n <= ETHERNET_MAX_SIZE /\ o \in Nat /\ o <= 40
  BY PaidBytes, TCPFields
<1>2. l = i + 20 + o + n
  BY Zenon DEF UnknownTCPLen, TCPLen
<1>3. i \in Nat
  BY TCPTypesHave, IPWritten
<1>4. UnknownTCPPrepared(p) \in {a, b}
  <2> DEFINE z == [q EXCEPT !.tcpdataOffset = IF @ = 0 THEN 5 ELSE @]
  <2>1. UnknownTCPPrepared(p) = IF p.tcpchecksum = 0 THEN [z EXCEPT !.tcpchecksum =
        TCPCheckSum(z)] ELSE z
    BY Zenon DEF UnknownTCPPrepared
  <2>2. z = a
    BY Zenon DEF Put
  <2> HIDE DEF z, a
  <2>3. [z EXCEPT !.tcpchecksum = TCPCheckSum(z)] = Put(z, "tcpchecksum", TCPCheckSum(z))
    BY Zenon DEF Put
  <2>4. QED
    BY <2>1, <2>2, <2>3
<1> HIDE DEF n, o, l, i
<1>5. l = i + j /\ j \in Nat /\ j <= ETHERNET_MAX_SIZE + 60
  BY <1>1, <1>2, <1>3, SizeAssumption
<1> HIDE DEF j
<1>6. l = IPLen(p) + j
  BY <1>5 DEF i
<1>7. /\ Of(q, T) /\ IPLen(q) = IPLen(p) /\ q.etherpayload = p.etherpayload
      /\ \A x \in DOMAIN T \ IPSet : q[x] = p[x]
  BY <1>5, <1>6, TCPTypesHave, IPPreparedKeeps
<1> HIDE DEF q
<1>8. \A x \in TCPExtraNames : x \in DOMAIN T \ IPSet
  BY TCPTypesHave DEF TCPExtraNames, IPSet
<1>9. q.tcpoptions = p.tcpoptions /\ q.tcpdataOffset = p.tcpdataOffset
  BY <1>7, <1>8 DEF TCPExtraNames
<1>10. TCPPad(q) = TCPPad(p)
  BY <1>9, Zenon DEF TCPPad
<1>11. TCPLike(q, p)
  BY <1>7, <1>9, <1>10 DEF TCPLike
<1>12. v \in Nibble /\ (v = q.tcpdataOffset \/ (q.tcpdataOffset = 0 /\ v = 5))
  <2>1. q.tcpdataOffset \in Nibble
    BY <1>7, TCPFields
  <2>2. 5 \in Nibble
    BY DEF Nibble
  <2>3. QED
    BY <2>1, <2>2
<1> HIDE DEF v
<1>13. TCPLike(a, q)
  BY <1>7, <1>12, TCPOffset
<1> HIDE DEF a
<1>14. TCPLike(a, p)
  BY <1>11, <1>13, TCPLikeOn
<1>15. Of(a, T) /\ Paid(a) /\ TCPShape(a)
  BY <1>14, TCPLikeKeeps DEF TCPLike
<1>16. c \in Short
  BY <1>15, TCPCheckSumOf
<1> HIDE DEF c
<1>17. TCPLike(b, a)
  BY <1>15, <1>16, TCPChecked
<1> HIDE DEF b
<1>18. TCPLike(b, p)
  BY <1>14, <1>17, TCPLikeOn
<1>19. QED
  BY <1>4, <1>14, <1>18

(***************************************************************************)
(* The sum is one.                                                         *)
(***************************************************************************)
LEMMA TCPSummedOf ==
  ASSUME NEW p, Of(p, TCPTypes), Paid(p), TCPShape(p)
  PROVE  TCPLike([p EXCEPT !.tcpchecksum = TCPCheckSum(p)], p)
<1> DEFINE c == TCPCheckSum(p)
<1>1. c \in Short
  BY TCPCheckSumOf
<1>2. [p EXCEPT !.tcpchecksum = TCPCheckSum(p)] = Put(p, "tcpchecksum", c)
  BY Zenon DEF Put
<1> HIDE DEF c
<1>3. QED
  BY <1>1, <1>2, TCPChecked

-----------------------------------------------------------------------------
(***************************************************************************)
(* q is p with other values in the fields X.                               *)
(***************************************************************************)
Sets(p, q, X, T) == Of(q, T) /\ \A x \in DOMAIN T \ X : q[x] = p[x]

(***************************************************************************)
(* IPPacket::SetOption sets the options.                                   *)
(***************************************************************************)
LEMMA SetOptionOf ==
  ASSUME NEW T, IPIn(T), NEW p, Of(p, T), NEW data \in OptionBytes
  PROVE  Sets(p, SetOption(p, data), {"options"}, T)
<1>1. Room(T, "options", data)  BY IPRoom
<1>2. SetOption(p, data) = Put(p, "options", data)  BY Zenon DEF SetOption, Put
<1> QED  BY <1>1, <1>2, PutOf DEF Sets

(***************************************************************************)
(* DSCP and ECN make a byte.                                               *)
(***************************************************************************)
LEMMA ServiceBytes ==
  \A s \in Nat, d \in Byte : 4 * (s % 64) + (d % 4) \in Byte /\ 4 * (d \div 4) + (s % 4) \in Byte
  BY SMT DEF Byte

(***************************************************************************)
(* setDscp and setEcn set it.                                              *)
(***************************************************************************)
LEMMA ServiceOf ==
  ASSUME NEW T, IPIn(T), NEW p, Of(p, T), NEW s \in Nat
  PROVE  Sets(p, setDscp(p, s), {"diffServ"}, T) /\ Sets(p, setEcn(p, s), {"diffServ"}, T)
<1> DEFINE d == p.diffServ
           a == 4 * (s % 64) + (d % 4)
           b == 4 * (d \div 4) + (s % 4)
<1>1. d \in Byte  BY IPFields
<1>2. a \in Byte /\ b \in Byte  BY <1>1, ServiceBytes
<1>3. setDscp(p, s) = Put(p, "diffServ", a) /\ setEcn(p, s) = Put(p, "diffServ", b)
  BY Zenon DEF setDscp, setEcn, Put
<1> HIDE DEF d, a, b
<1>4. Room(T, "diffServ", a) /\ Room(T, "diffServ", b)  BY <1>2, IPRoom
<1> QED  BY <1>3, <1>4, PutOf DEF Sets

(***************************************************************************)
(* SetAppPayload sets the payload.                                         *)
(***************************************************************************)
LEMMA PayloadSets ==
  ASSUME NEW T, PayloadIn(T), NEW p, Of(p, T), NEW data \in Seq(Byte)
  PROVE  Sets(p, SetAppPayload(p, data), {"etherpayload"}, T)
  BY SetAppPayloadOf DEF Sets

(***************************************************************************)
(* An IP packet has room for one.                                          *)
(***************************************************************************)
LEMMA IPPayloadIn ==
  ASSUME NEW T, IPIn(T)
  PROVE  PayloadIn(T)
  BY DEF IPIn, PayloadIn, IPRestNames

(***************************************************************************)
(* TCP options                                                             *)
(***************************************************************************)

(***************************************************************************)
(* What changes other fields keeps the options of TCP as good as they are. *)
(***************************************************************************)
LEMMA ShapeKept ==
  ASSUME NEW p, NEW q, NEW X, Sets(p, q, X, TCPTypes), X \cap TCPExtraNames = {}, TCPShape(p)
  PROVE  TCPShape(q)
<1>1. TCPExtraNames \subseteq DOMAIN TCPTypes  BY TCPTypesHave
<1>2. q["tcpoptions"] = p["tcpoptions"] /\ q["tcpdataOffset"] = p["tcpdataOffset"]
  BY <1>1 DEF Sets, TCPExtraNames
<1>3. TCPPad(q) = TCPPad(p)  BY <1>2 DEF TCPPad
<1> QED  BY <1>2, <1>3 DEF TCPShape

(***************************************************************************)
(* The data offset that SetOption rounds up to leaves less than a word.    *)
(***************************************************************************)
LEMMA OptionOffsets ==
  \A n \in Nat : n > 0 /\ n <= 40 =>
    /\ (23 + n) \div 4 \in Nibble /\ (23 + n) \div 4 > 5
    /\ n <= 4 * ((23 + n) \div 4) - 20 /\ 4 * ((23 + n) \div 4) - 20 < n + 4
  BY SMT DEF Nibble

(***************************************************************************)
(* So the options fit there, with less than a word left.                   *)
(***************************************************************************)
LEMMA SetTCPOptionOf ==
  ASSUME NEW p, Of(p, TCPTypes), NEW data \in OptionBytes, data # <<>>
  PROVE  /\ Of([SetTCPOption(p, data) EXCEPT !.tcpchecksum = 1], TCPTypes)
         /\ TCPShape([SetTCPOption(p, data) EXCEPT !.tcpchecksum = 1])
<1> DEFINE n == Len(data)
           o == (23 + n) \div 4
           a == Put(p, "tcpoptions", data)
           b == Put(a, "tcpdataOffset", o)
           c == Put(b, "tcpchecksum", 1)
<1>1. n \in Nat /\ n > 0 /\ n <= 40  BY DEF OptionBytes
<1>2. [SetTCPOption(p, data) EXCEPT !.tcpchecksum = 1] = c
  BY Zenon DEF SetTCPOption, Put
<1> HIDE DEF n
<1>3. o \in Nibble /\ o > 5 /\ n <= 4 * o - 20 /\ 4 * o - 20 < n + 4  BY <1>1, OptionOffsets
<1> HIDE DEF o
<1>4. TCPTypes["tcpoptions"] = OptionBytes /\ TCPTypes["tcpdataOffset"] = Nibble
      /\ TCPTypes["tcpchecksum"] = Short /\ TCPNames \cup TCPExtraNames \subseteq DOMAIN TCPTypes
  BY TCPTypesHave
<1>5. 1 \in Short  BY DEF Short
<1>6. Of(a, TCPTypes) /\ a["tcpoptions"] = data  BY <1>4, TCPPutOf DEF TCPExtraNames
<1> HIDE DEF a
<1>7. Of(b, TCPTypes) /\ b["tcpdataOffset"] = o /\ b["tcpoptions"] = data
  BY <1>3, <1>4, <1>6, TCPPutOf DEF TCPExtraNames
<1> HIDE DEF b
<1>8. Of(c, TCPTypes) /\ c["tcpdataOffset"] = o /\ c["tcpoptions"] = data
  BY <1>4, <1>5, <1>7, TCPPutOf DEF TCPExtraNames, TCPNames
<1> HIDE DEF c
<1>9. TCPPad(c) = 4 * o - 20  BY <1>3, <1>8, TCPPadOf
<1>10. Len(c.tcpoptions) = n  BY <1>8 DEF n
<1>11. TCPShape(c)  BY <1>3, <1>9, <1>10 DEF TCPShape
<1> QED  BY <1>2, <1>8, <1>11
=============================================================================
