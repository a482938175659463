---------------------------- MODULE CodecsProofs ----------------------------
(***************************************************************************)
(* Proofs about Codecs, for all frames, payloads, options, TLVs, tags,     *)
(* datapaths and costs: nothing changes the class of a packet, the links   *)
(* of a discovery packet are a path wherever it goes, a packet that is     *)
(* encoded fills the bytes that were counted for it, and what JSON says of *)
(* one is what it said.                                                    *)
(***************************************************************************)
EXTENDS Codecs, PacketsProofs

(***************************************************************************)
(* q has the class that p has, if p has one.                               *)
(***************************************************************************)
Alike(p, q) == "class" \in DOMAIN p => "class" \in DOMAIN q /\ q.class = p.class

(***************************************************************************)
(* The class is kept over two steps.                                       *)
(***************************************************************************)
LEMMA AlikeSteps ==
  ASSUME NEW p, NEW q, NEW s, Alike(p, q), Alike(q, s)
  PROVE  Alike(p, s)
BY DEF Alike

(***************************************************************************)
(* It is kept when another field is set.                                   *)
(***************************************************************************)
LEMMA AlikePut ==
  ASSUME NEW p, NEW q, Alike(p, q), NEW x, x # "class", NEW v
  PROVE  Alike(p, Put(q, x, v))
<1>1. DOMAIN Put(q, x, v) = DOMAIN q
  BY Zenon DEF Put
<1>2. ASSUME "class" \in DOMAIN q PROVE Put(q, x, v).class = q.class
  BY <1>2 DEF Put
<1>3. QED
  BY <1>1, <1>2 DEF Alike

(***************************************************************************)
(* It is kept where nothing happens.                                       *)
(***************************************************************************)
LEMMA AlikeItself == \A p : Alike(p, p)
BY DEF Alike

(***************************************************************************)
(* It is kept when a field takes a value from the stream, and when the     *)
(* stream fails.                                                           *)
(***************************************************************************)
LEMMA AlikeTaken ==
  ASSUME NEW r, NEW name, name # "class", NEW value, NEW size
  PROVE  Alike(r.p, Taken(r, name, value, size).p) /\ Alike(r.p, Failed(r).p)
<1>1. Failed(r).p = r.p
  BY DEF Failed
<1>2. Taken(r, name, value, size).p = Put(r.p, name, value)
  BY DEF Taken, Put
<1>3. Alike(r.p, Put(r.p, name, value))
  BY AlikeItself, AlikePut
<1>4. QED
  BY <1>1, <1>2, <1>3, AlikeItself

(***************************************************************************)
(* It is kept when a field or bytes are read.                              *)
(***************************************************************************)
LEMMA AlikeRead ==
  ASSUME NEW r
  PROVE  /\ \A field : field[1] # "class" => Alike(r.p, ReadField(r, field).p)
         /\ \A name, size : name # "class" => Alike(r.p, ReadBytes(r, name, size).p)
<1>1. ASSUME NEW field, field[1] # "class" PROVE Alike(r.p, ReadField(r, field).p)
  <2>1. ReadField(r, field) = Failed(r) \/
        ReadField(r, field) = Taken(r, field[1], ValueAt(r.rest, field[2]), field[2])
    BY Zenon DEF ReadField
  <2>2. QED
    BY <1>1, <2>1, AlikeTaken
<1>2. ASSUME NEW name, NEW size, name # "class" PROVE Alike(r.p, ReadBytes(r, name, size).p)
  <2>1. ReadBytes(r, name, size) = Failed(r) \/
        ReadBytes(r, name, size) = Taken(r, name, SubSeq(r.rest, 1, size), size)
    BY Zenon DEF ReadBytes
  <2>2. QED
    BY <1>2, <2>1, AlikeTaken
<1>3. QED
  BY <1>1, <1>2

(***************************************************************************)
(* No field of the layout is the class.                                    *)
(***************************************************************************)
Classless(L) == \E n \in Nat : DOMAIN L = 1..n /\ \A i \in 1..n : L[i][1] # "class"

(***************************************************************************)
(* Reading such a layout keeps the class.                                  *)
(***************************************************************************)
LEMMA AlikeFields ==
  ASSUME NEW r, NEW L, Classless(L)
  PROVE  Alike(r.p, ReadFields(r, L).p)
<1>1. PICK n \in Nat : DOMAIN L = 1..n /\ \A i \in 1..n : L[i][1] # "class"
  BY DEF Classless
<1>2. PICK h : Readings(h, r, L, n)
  BY <1>1, ReadFieldsSteps
<1>3. h[0] = r /\ (\A k \in 1..n : h[k] = ReadField(h[k - 1], L[k])) /\ ReadFields(r, L) = h[n]
  BY <1>2 DEF Readings
<1> DEFINE T == {k \in 0..n : Alike(r.p, h[k].p)}
<1>4. 0 \in T
  BY <1>3, AlikeItself
<1>5. ASSUME NEW k \in 0..(n - 1), k \in T PROVE k + 1 \in T
  <2>1. k + 1 \in 1..n /\ (k + 1) - 1 = k /\ k + 1 \in 0..n
    BY <1>1
  <2>2. h[k + 1] = ReadField(h[k], L[k + 1]) /\ L[k + 1][1] # "class"
    BY <1>1, <1>3, <2>1
  <2>3. Alike(h[k].p, ReadField(h[k], L[k + 1]).p)
    BY <2>2, AlikeRead
  <2>4. Alike(r.p, h[k + 1].p)
    BY <1>5, <2>2, <2>3, AlikeSteps
  <2>5. QED
    BY <2>1, <2>4
<1>6. Alike(r.p, h[n].p)
  <2> HIDE DEF T
  <2>1. n \in T
    BY <1>4, <1>5, Climb
  <2>2. QED
    BY <2>1 DEF T
<1>7. QED
  BY <1>3, <1>6

(***************************************************************************)
(* None of the layouts reads the class: it is what the object was made as. *)
(***************************************************************************)
LEMMA Layouts ==
  /\ Classless(EtherHead) /\ Classless(ARPFields) /\ Classless(DataSize)
  /\ Classless(LinkHead \o DataSize) /\ Classless(DSFields)
  /\ Classless(IPHead) /\ Classless(TCPHead) /\ Classless(UDPHead) /\ Classless(ICMPHead)
  /\ Classless(<< <<"tci", 2>>, <<"ethtype", 2>> >>)
<1>1. Classless(EtherHead)
  <2>1. DOMAIN EtherHead = 1..3 /\ \A i \in 1..3 : EtherHead[i][1] # "class"
    BY DEF EtherHead
  <2>2. QED
    BY <2>1 DEF Classless
<1>2. Classless(ARPFields)
  <2>1. DOMAIN ARPFields = 1..9 /\ \A i \in 1..9 : ARPFields[i][1] # "class"
    BY DEF ARPFields
  <2>2. QED
    BY <2>1 DEF Classless
<1>3. Classless(DataSize)
  <2>1. DOMAIN DataSize = 1..1 /\ \A i \in 1..1 : DataSize[i][1] # "class"
    BY DEF DataSize
  <2>2. QED
    BY <2>1 DEF Classless
<1>4. Classless(LinkHead \o DataSize)
  <2>1. DOMAIN (LinkHead \o DataSize) = 1..7 /\
                 \A i \in 1..7 : (LinkHead \o DataSize)[i][1] # "class"
    BY DEF LinkHead, DataSize
  <2>2. QED
    BY <2>1 DEF Classless
<1>5. Classless(DSFields)
  <2>1. DOMAIN DSFields = 1..11 /\ \A i \in 1..11 : DSFields[i][1] # "class"
    BY DEF DSFields
  <2>2. QED
    BY <2>1 DEF Classless
<1>6. Classless(IPHead)
  <2>1. DOMAIN IPHead = 1..10 /\ \A i \in 1..10 : IPHead[i][1] # "class"
    BY DEF IPHead
  <2>2. QED
    BY <2>1 DEF Classless
<1>7. Classless(TCPHead)
  <2>1. DOMAIN TCPHead = 1..8 /\ \A i \in 1..8 : TCPHead[i][1] # "class"
    BY DEF TCPHead
  <2>2. QED
    BY <2>1 DEF Classless
<1>8. Classless(UDPHead)
  <2>1. DOMAIN UDPHead = 1..4 /\ \A i \in 1..4 : UDPHead[i][1] # "class"
    BY DEF UDPHead
  <2>2. QED
    BY <2>1 DEF Classless
<1>9. Classless(ICMPHead)
  <2>1. DOMAIN ICMPHead = 1..5 /\ \A i \in 1..5 : ICMPHead[i][1] # "class"
    BY DEF ICMPHead
  <2>2. QED
    BY <2>1 DEF Classless
<1>10. Classless(<< <<"tci", 2>>, <<"ethtype", 2>> >>)
  <2> DEFINE L == << <<"tci", 2>>, <<"ethtype", 2>> >>
  <2>1. DOMAIN L = 1..2 /\ \A i \in 1..2 : L[i][1] # "class"
    OBVIOUS
  <2> HIDE DEF L
  <2>2. Classless(L)
    BY <2>1 DEF Classless
  <2>3. QED
    BY <2>2 DEF L
<1>11. QED
  BY <1>1, <1>2, <1>3, <1>4, <1>5, <1>6, <1>7, <1>8, <1>9, <1>10

(***************************************************************************)
(* The readers of tags keep the class.                                     *)
(***************************************************************************)
LEMMA AlikeTags ==
  ASSUME NEW r
  PROVE  /\ Alike(r.p, ReadTag(r).p) /\ Alike(r.p, AsInner(r).p)
         /\ \A tpid : Alike(r.p, AsOuter(r, tpid).p)
<1>1. \A s, p : With(s, p).p = p
  BY DEF With
<1>2. Alike(r.p, ReadTag(r).p)
  <2> DEFINE L == << <<"tci", 2>>, <<"ethtype", 2>> >>
             s == With(r, [r.p EXCEPT !.tci = 0])
  <2>1. s.p = Put(r.p, "tci", 0)
    BY <1>1 DEF Put
  <2>2. Alike(r.p, s.p)
    BY <2>1, AlikeItself, AlikePut
  <2>3. Alike(s.p, ReadFields(s, L).p)
    BY Layouts, AlikeFields
  <2>4. ReadTag(r) = ReadFields(s, L)
    BY Zenon DEF ReadTag
  <2>5. QED
    BY <2>2, <2>3, <2>4, AlikeSteps
<1>3. Alike(r.p, AsInner(r).p)
  <2> DEFINE a == Priority(r.p.tci)
             b == Vlan(r.p.tci)
             q == Put(r.p, "priorityCode", a)
             s == Put(q, "vlanID", b)
             t == Put(s, "tci", 0)
  <2> HIDE DEF a, b
  <2>1. Alike(r.p, q)
    BY AlikeItself, AlikePut
  <2> HIDE DEF q
  <2>2. Alike(r.p, s)
    BY <2>1, AlikePut
  <2> HIDE DEF s
  <2>3. Alike(r.p, t)
    BY <2>2, AlikePut
  <2>4. AsInner(r) = With(r, t)
    BY Zenon DEF AsInner, Put, a, b, q, s
  <2>5. QED
    BY <1>1, <2>3, <2>4
<1>4. ASSUME NEW tpid PROVE Alike(r.p, AsOuter(r, tpid).p)
  <2> DEFINE a == Priority(r.p.tci)
             b == Vlan(r.p.tci)
             q == Put(r.p, "qInQPriorityCode", a)
             s == Put(q, "qinqVID", b)
             t == Put(s, "qinqTPID", tpid)
             u == Put(t, "tci", 0)
  <2> HIDE DEF a, b
  <2>1. Alike(r.p, q)
    BY AlikeItself, AlikePut
  <2> HIDE DEF q
  <2>2. Alike(r.p, s)
    BY <2>1, AlikePut
  <2> HIDE DEF s
  <2>3. Alike(r.p, t)
    BY <2>2, AlikePut
  <2> HIDE DEF t
  <2>4. Alike(r.p, u)
    BY <2>3, AlikePut
  <2>5. AsOuter(r, tpid) = With(r, u)
    BY Zenon DEF AsOuter, Put, a, b, q, s, t
  <2>6. QED
    BY <1>1, <2>4, <2>5
<1>5. QED
  BY <1>2, <1>3, <1>4

(***************************************************************************)
(* CEthernet::StreamFrom keeps the class.                                  *)
(***************************************************************************)
LEMMA AlikeEthernet ==
  ASSUME NEW r
  PROVE  Alike(r.p, EthernetStreamFrom(r).p)
<1> DEFINE s == ReadFields(r, EtherHead)
           t == ReadOuterTag(s)
<1>1. Alike(r.p, s.p)
  BY Layouts, AlikeFields
<1>2. ASSUME NEW q PROVE Alike(q.p, ReadOuterTag(q).p)
  <2> DEFINE u == ReadTag(q)
  <2>1. ReadOuterTag(q) = q \/ \E tpid : ReadOuterTag(q) = AsOuter(u, tpid)
    BY Zenon DEF ReadOuterTag
  <2>2. Alike(q.p, u.p)
    BY AlikeTags
  <2> HIDE DEF u
  <2>3. ASSUME NEW tpid PROVE Alike(q.p, AsOuter(u, tpid).p)
    <3>1. Alike(u.p, AsOuter(u, tpid).p)
      BY AlikeTags
    <3>2. QED
      BY <2>2, <3>1, AlikeSteps
  <2>4. QED
    BY <2>1, <2>3, AlikeItself
<1>3. ASSUME NEW q PROVE Alike(q.p, LastTag(q).p)
  <2>1. LastTag(q) = AsInner(q) \/ \E tpid : LastTag(q) = AsInner(ReadTag(AsOuter(q, tpid)))
    BY Zenon DEF LastTag
  <2>2. ASSUME NEW tpid PROVE Alike(q.p, AsInner(ReadTag(AsOuter(q, tpid))).p)
    <3> DEFINE u == AsOuter(q, tpid)
               v == ReadTag(u)
    <3>1. Alike(q.p, u.p)
      BY AlikeTags
    <3> HIDE DEF u
    <3>2. Alike(u.p, v.p)
      BY AlikeTags
    <3>3. Alike(q.p, v.p)
      BY <3>1, <3>2, AlikeSteps
    <3> HIDE DEF v
    <3>4. Alike(v.p, AsInner(v).p)
      BY AlikeTags
    <3>5. Alike(q.p, AsInner(v).p)
      BY <3>3, <3>4, AlikeSteps
    <3>6. QED
      BY <3>5 DEF u, v
  <2>3. Alike(q.p, AsInner(q).p)
    BY AlikeTags
  <2>4. QED
    BY <2>1, <2>2, <2>3
<1>4. ASSUME NEW q PROVE Alike(q.p, ReadInnerTag(q).p)
  <2>1. ReadInnerTag(q) = With(q, Put(q.p, "vlanID", NoVlan)) \/
        ReadInnerTag(q) = LastTag(ReadTag(q))
    BY Zenon DEF ReadInnerTag, Put
  <2>2. Alike(q.p, LastTag(ReadTag(q)).p)
    <3> DEFINE u == ReadTag(q)
    <3>1. Alike(q.p, u.p)
      BY AlikeTags
    <3> HIDE DEF u
    <3>2. Alike(u.p, LastTag(u).p)
      BY <1>3
    <3>3. Alike(q.p, LastTag(u).p)
      BY <3>1, <3>2, AlikeSteps
    <3>4. QED
      BY <3>3 DEF u
  <2>3. Alike(q.p, With(q, Put(q.p, "vlanID", NoVlan)).p)
    <3>1. Alike(q.p, Put(q.p, "vlanID", NoVlan))
      BY AlikeItself, AlikePut
    <3>2. QED
      BY <3>1 DEF With
  <2>4. QED
    BY <2>1, <2>2, <2>3
<1>5. EthernetStreamFrom(r) = ReadInnerTag(t)
  BY Zenon DEF EthernetStreamFrom
<1> HIDE DEF s
<1>6. Alike(s.p, t.p)
  BY <1>2
<1>7. Alike(r.p, t.p)
  BY <1>1, <1>6, AlikeSteps
<1> HIDE DEF t
<1>8. Alike(t.p, ReadInnerTag(t).p)
  BY <1>4
<1>9. QED
  BY <1>5, <1>7, <1>8, AlikeSteps

-----------------------------------------------------------------------------
(***************************************************************************)
(* Taking the bits of the IP and TCP heads apart keeps the class.          *)
(***************************************************************************)
LEMMA AlikeIPHead ==
  ASSUME NEW p
  PROVE  Alike(p, IPSplit(p)) /\ Alike(p, TCPSplit(p))
<1>1. Alike(p, IPSplit(p))
  BY DEF Alike, IPSplit
<1>2. Alike(p, TCPSplit(p))
  BY DEF Alike, TCPSplit
<1>3. QED
  BY <1>1, <1>2

(***************************************************************************)
(* The readers of data, payload, options and heads keep it.                *)
(***************************************************************************)
LEMMA AlikeParts ==
  ASSUME NEW r
  PROVE  /\ Alike(r.p, ReadData(r).p) /\ Alike(r.p, ReadRest(r).p)
         /\ \A size : Alike(r.p, ReadPayload(r, size).p)
         /\ Alike(r.p, ReadIPOptions(r).p) /\ Alike(r.p, ReadTCPOptions(r).p)
         /\ Alike(r.p, ReadIPHead(r).p) /\ Alike(r.p, ReadTCPHead(r).p)
<1>1. Alike(r.p, ReadData(r).p)
  <2>1. ReadData(r) = r \/ ReadData(r) = ReadBytes(r, "data", r.p.datasize)
    BY Zenon DEF ReadData
  <2>2. QED
    BY <2>1, AlikeItself, AlikeRead
<1>2. Alike(r.p, ReadRest(r).p)
  <2>1. ReadRest(r) = Failed(r) \/ \E size : ReadRest(r) = ReadBytes(r, "etherpayload", size)
    BY Zenon DEF ReadRest
  <2>2. Alike(r.p, Failed(r).p)
    BY AlikeItself DEF Failed
  <2>3. ASSUME NEW size PROVE Alike(r.p, ReadBytes(r, "etherpayload", size).p)
    BY AlikeRead
  <2>4. QED
    BY <2>1, <2>2, <2>3, Zenon
<1>3. ASSUME NEW size PROVE Alike(r.p, ReadPayload(r, size).p)
  <2>1. ReadPayload(r, size) = Failed(r) \/
        ReadPayload(r, size) = ReadBytes(r, "etherpayload", size)
    BY Zenon DEF ReadPayload
  <2>2. QED
    BY <2>1, AlikeTaken, AlikeRead
<1>4. Alike(r.p, ReadIPOptions(r).p)
  <2> DEFINE size == 4 * (r.p.headerLength - 5)
             q == Put(r.p, "options", Zeros(size))
  <2>1. \/ ReadIPOptions(r) = r \/ ReadIPOptions(r) = ReadBytes(r, "options", size)
        \/ ReadIPOptions(r) = CutOptions(r, size)
    BY Zenon DEF ReadIPOptions
  <2> HIDE DEF size
  <2>2. CutOptions(r, size).p = q
    BY DEF CutOptions, Failed, With, Put
  <2>3. Alike(r.p, q)
    BY AlikeItself, AlikePut
  <2>4. Alike(r.p, ReadBytes(r, "options", size).p)
    BY AlikeRead
  <2> HIDE DEF q
  <2>5. CASE ReadIPOptions(r) = r
    BY <2>5, AlikeItself
  <2>6. CASE ReadIPOptions(r) = ReadBytes(r, "options", size)
    BY <2>4, <2>6
  <2>7. CASE ReadIPOptions(r) = CutOptions(r, size)
    BY <2>2, <2>3, <2>7
  <2>8. QED
    BY <2>1, <2>5, <2>6, <2>7
<1>5. Alike(r.p, ReadTCPOptions(r).p)
  <2>1. ReadTCPOptions(r) = r \/ ReadTCPOptions(r) =
        ReadBytes(r, "tcpoptions", 4 * r.p.tcpdataOffset - 20)
    BY Zenon DEF ReadTCPOptions
  <2>2. QED
    BY <2>1, AlikeItself, AlikeRead
<1>6. Alike(r.p, ReadIPHead(r).p)
  BY AlikeIPHead DEF ReadIPHead, With
<1>7. Alike(r.p, ReadTCPHead(r).p)
  BY AlikeIPHead DEF ReadTCPHead, With
<1>8. QED
  BY <1>1, <1>2, <1>3, <1>4, <1>5, <1>6, <1>7

(***************************************************************************)
(* The readers of TLVs keep it.                                            *)
(***************************************************************************)
LEMMA AlikeTLVs ==
  ASSUME NEW r
  PROVE  /\ \A i \in 1..3 : Alike(r.p, ReadMandatory(r, Mandatory[i]).p)
         /\ Alike(r.p, ReadOthers(r).p) /\ Alike(r.p, ReadEnd(r).p)
<1>1. ASSUME NEW i \in 1..3 PROVE Alike(r.p, ReadMandatory(r, Mandatory[i]).p)
  <2> DEFINE field == Mandatory[i]
  <2>1. field[1] # "class"
    BY DEF Mandatory
  <2> HIDE DEF field
  <2>2. \/ ReadMandatory(r, field) = Failed(r)
        \/ \E value, size : ReadMandatory(r, field) = Taken(r, field[1], value, size)
    BY Zenon DEF ReadMandatory
  <2>3. Alike(r.p, ReadMandatory(r, field).p)
    BY <2>1, <2>2, AlikeTaken
  <2>4. QED
    BY <2>3 DEF field
<1>2. Alike(r.p, ReadOthers(r).p)
  <2> DEFINE list == r.p.optionalTLVList \o OptionalTLVs(r.rest).list
  <2>1. ReadOptional(r).p = Put(r.p, "optionalTLVList", list)
    BY Zenon DEF ReadOptional, Put
  <2> HIDE DEF list
  <2>2. Alike(r.p, ReadOptional(r).p)
    BY <2>1, AlikeItself, AlikePut
  <2>3. ReadOthers(r) = r \/ ReadOthers(r) = ReadOptional(r)
    BY Zenon DEF ReadOthers
  <2>4. QED
    BY <2>2, <2>3, AlikeItself
<1>3. Alike(r.p, ReadEnd(r).p)
  <2>1. \/ ReadEnd(r) = Failed(r)
        \/ ReadEnd(r) = Taken(r, "len", SumOfLens(r.p.optionalTLVList) + MandatoryLen(r.p), 2)
    BY Zenon DEF ReadEnd
  <2>2. QED
    BY <2>1, AlikeTaken
<1>4. QED
  BY <1>1, <1>2, <1>3

(***************************************************************************)
(* So does reading the three TLVs that must be there.                      *)
(***************************************************************************)
LEMMA AlikeThree ==
  ASSUME NEW r
  PROVE  Alike(r.p, ReadThree(r).p)
<1> DEFINE s == ReadMandatory(r, Mandatory[1])
           t == ReadMandatory(s, Mandatory[2])
           u == ReadMandatory(t, Mandatory[3])
<1>1. ReadThree(r) = u
  BY Zenon DEF ReadThree
<1>2. Alike(r.p, s.p)
  BY AlikeTLVs
<1> HIDE DEF s
<1>3. Alike(s.p, t.p)
  BY AlikeTLVs
<1> HIDE DEF t
<1>4. Alike(t.p, u.p)
  BY AlikeTLVs
<1> HIDE DEF u
<1>5. Alike(r.p, t.p)
  BY <1>2, <1>3, AlikeSteps
<1>6. QED
  BY <1>1, <1>4, <1>5, AlikeSteps

(***************************************************************************)
(* So does reading what ICMP carries.                                      *)
(***************************************************************************)
LEMMA AlikeICMP ==
  ASSUME NEW r
  PROVE  Alike(r.p, ReadICMPPayload(r).p)
<1> DEFINE size == r.p.totalLength - 28 - Len(r.p.options)
           read == ICMPPayload(r, size)
<1>1. ReadICMPPayload(r) = Failed(r) \/
      ReadICMPPayload(r) = [p |-> read.p, rest |-> read.rest, good |-> TRUE]
  BY Zenon DEF ReadICMPPayload
<1> HIDE DEF size
<1>2. read = ReadBytes(r, "etherpayload", size) \/
      read = With(r, Put(r.p, "etherpayload", Zeros(size)))
  BY Zenon DEF ICMPPayload, Put
<1> HIDE DEF read
<1>3. Alike(r.p, read.p)
  <2>1. With(r, Put(r.p, "etherpayload", Zeros(size))).p = Put(r.p, "etherpayload", Zeros(size))
    BY DEF With
  <2>2. Alike(r.p, Put(r.p, "etherpayload", Zeros(size)))
    BY AlikeItself, AlikePut
  <2>3. Alike(r.p, ReadBytes(r, "etherpayload", size).p)
    BY AlikeRead
  <2>4. QED
    BY <1>2, <2>1, <2>2, <2>3, SMTT(30)
<1>4. Failed(r).p = r.p /\ Alike(r.p, r.p)
  BY AlikeItself DEF Failed
<1>5. CASE ReadICMPPayload(r) = Failed(r)
  BY <1>4, <1>5, Zenon
<1>6. CASE ReadICMPPayload(r) = [p |-> read.p, rest |-> read.rest, good |-> TRUE]
  <2>1. ReadICMPPayload(r).p = read.p
    BY <1>6
  <2>2. QED
    BY <1>3, <2>1
<1>7. QED
  BY <1>1, <1>5, <1>6

(***************************************************************************)
(* CIPPacket::StreamFrom keeps the class.                                  *)
(***************************************************************************)
LEMMA AlikeIP ==
  ASSUME NEW r
  PROVE  Alike(r.p, IPStreamFrom(r).p)
<1> DEFINE s == EthernetStreamFrom(r)
           t == ReadFields(s, IPHead)
           u == ReadIPHead(t)
<1>1. IPStreamFrom(r) = ReadIPOptions(u)
  BY Zenon DEF IPStreamFrom
<1>2. Alike(r.p, s.p)
  BY AlikeEthernet
<1> HIDE DEF s
<1>3. Alike(s.p, t.p)
  BY Layouts, AlikeFields
<1> HIDE DEF t
<1>4. Alike(t.p, u.p)
  BY AlikeParts
<1> HIDE DEF u
<1>5. Alike(u.p, ReadIPOptions(u).p)
  BY AlikeParts
<1>6. Alike(r.p, t.p)
  BY <1>2, <1>3, AlikeSteps
<1>7. Alike(r.p, u.p)
  BY <1>4, <1>6, AlikeSteps
<1>8. QED
  BY <1>1, <1>5, <1>7, AlikeSteps

(***************************************************************************)
(* So do those of TCP and UDP.                                             *)
(***************************************************************************)
LEMMA AlikeTransport ==
  ASSUME NEW r
  PROVE  Alike(r.p, TCPStreamFrom(r).p) /\ Alike(r.p, UDPStreamFrom(r).p)
<1> DEFINE s == IPStreamFrom(r)
           t == ReadFields(s, TCPHead)
           u == ReadTCPHead(t)
<1>1. TCPStreamFrom(r) = ReadTCPOptions(u) /\ UDPStreamFrom(r) = ReadFields(s, UDPHead)
  BY Zenon DEF TCPStreamFrom, UDPStreamFrom
<1>2. Alike(r.p, s.p)
  BY AlikeIP
<1> HIDE DEF s
<1>3. Alike(s.p, t.p) /\ Alike(s.p, ReadFields(s, UDPHead).p)
  BY Layouts, AlikeFields
<1> HIDE DEF t
<1>4. Alike(t.p, u.p)
  BY AlikeParts
<1> HIDE DEF u
<1>5. Alike(u.p, ReadTCPOptions(u).p)
  BY AlikeParts
<1>6. Alike(r.p, t.p)
  BY <1>2, <1>3, AlikeSteps
<1>7. Alike(r.p, u.p)
  BY <1>4, <1>6, AlikeSteps
<1>8. Alike(r.p, TCPStreamFrom(r).p)
  BY <1>1, <1>5, <1>7, AlikeSteps
<1>9. Alike(r.p, UDPStreamFrom(r).p)
  BY <1>1, <1>2, <1>3, AlikeSteps
<1>10. QED
  BY <1>8, <1>9

(***************************************************************************)
(* StreamFrom of every class but discovery keeps the class, whatever the   *)
(* frame holds.                                                            *)
(***************************************************************************)
THEOREM AlikeStreamFrom ==
  ASSUME NEW r, r.p.class \in Classes, r.p.class # "Discovery"
  PROVE  Alike(r.p, StreamFrom(r).p)
<1> DEFINE e == EthernetStreamFrom(r)
           i == IPStreamFrom(r)
           t == TCPStreamFrom(r)
           u == UDPStreamFrom(r)
<1>1. Alike(r.p, e.p) /\ Alike(r.p, i.p) /\ Alike(r.p, t.p) /\ Alike(r.p, u.p)
  BY AlikeEthernet, AlikeIP, AlikeTransport
<1>2. CASE r.p.class = "ARP"
  <2>1. StreamFrom(r) = ReadFields(e, ARPFields)
    BY <1>2 DEF StreamFrom, ARPStreamFrom
  <2> HIDE DEF e, i, t, u
  <2>2. Alike(e.p, ReadFields(e, ARPFields).p)
    BY Layouts, AlikeFields
  <2>3. QED
    BY <1>1, <2>1, <2>2, AlikeSteps
<1>3. CASE r.p.class = "STP"
  <2> DEFINE f == ReadFields(e, DataSize)
  <2>1. StreamFrom(r) = ReadData(f)
    BY <1>3 DEF StreamFrom, STPStreamFrom
  <2> HIDE DEF e, i, t, u
  <2>2. Alike(e.p, f.p)
    BY Layouts, AlikeFields
  <2> HIDE DEF f
  <2>3. Alike(f.p, ReadData(f).p)
    BY AlikeParts
  <2>4. Alike(r.p, f.p)
    BY <1>1, <2>2, AlikeSteps
  <2>5. QED
    BY <2>1, <2>3, <2>4, AlikeSteps
<1>4. CASE r.p.class = "LinkData"
  <2> DEFINE f == ReadFields(e, LinkHead \o DataSize)
  <2>1. StreamFrom(r) = ReadData(f)
    BY <1>4 DEF StreamFrom, LinkDataStreamFrom
  <2> HIDE DEF e, i, t, u
  <2>2. Alike(e.p, f.p)
    BY Layouts, AlikeFields
  <2> HIDE DEF f
  <2>3. Alike(f.p, ReadData(f).p)
    BY AlikeParts
  <2>4. Alike(r.p, f.p)
    BY <1>1, <2>2, AlikeSteps
  <2>5. QED
    BY <2>1, <2>3, <2>4, AlikeSteps
<1>5. CASE r.p.class = "DS"
  <2>1. StreamFrom(r) = ReadFields(e, DSFields)
    BY <1>5 DEF StreamFrom, DSStreamFrom
  <2> HIDE DEF e, i, t, u
  <2>2. Alike(e.p, ReadFields(e, DSFields).p)
    BY Layouts, AlikeFields
  <2>3. QED
    BY <1>1, <2>1, <2>2, AlikeSteps
<1>6. CASE r.p.class = "LLDP"
  <2> DEFINE f == ReadThree(e)
             g == ReadOthers(f)
  <2>1. StreamFrom(r) = ReadEnd(g)
    BY <1>6 DEF StreamFrom, LLDPStreamFrom
  <2> HIDE DEF e, i, t, u
  <2>2. Alike(e.p, f.p)
    BY AlikeThree
  <2> HIDE DEF f
  <2>3. Alike(f.p, g.p)
    BY AlikeTLVs
  <2> HIDE DEF g
  <2>4. Alike(g.p, ReadEnd(g).p)
    BY AlikeTLVs
  <2>5. Alike(r.p, f.p)
    BY <1>1, <2>2, AlikeSteps
  <2>6. Alike(r.p, g.p)
    BY <2>3, <2>5, AlikeSteps
  <2>7. QED
    BY <2>1, <2>4, <2>6, AlikeSteps
<1>7. CASE r.p.class = "UnknownEthernet"
  <2>1. StreamFrom(r) = ReadRest(e)
    BY <1>7 DEF StreamFrom, UnknownEthernetStreamFrom
  <2> HIDE DEF e, i, t, u
  <2>2. Alike(e.p, ReadRest(e).p)
    BY AlikeParts
  <2>3. QED
    BY <1>1, <2>1, <2>2, AlikeSteps
<1>8. CASE r.p.class = "UnknownIP"
  <2>1. \E size : StreamFrom(r) = ReadPayload(i, size)
    BY <1>8 DEF StreamFrom, UnknownIPStreamFrom, ReadIPPayload
  <2> HIDE DEF e, i, t, u
  <2>2. \A size : Alike(i.p, ReadPayload(i, size).p)
    BY AlikeParts
  <2>3. QED
    BY <1>1, <2>1, <2>2, AlikeSteps
<1>9. CASE r.p.class = "UnknownTCP"
  <2>1. \E size : StreamFrom(r) = ReadPayload(t, size)
    BY <1>9 DEF StreamFrom, UnknownTCPStreamFrom, ReadTCPPayload
  <2> HIDE DEF e, i, t, u
  <2>2. \A size : Alike(t.p, ReadPayload(t, size).p)
    BY AlikeParts
  <2>3. QED
    BY <1>1, <2>1, <2>2, AlikeSteps
<1>10. CASE r.p.class = "UnknownUDP"
  <2>1. \E size : StreamFrom(r) = ReadPayload(u, size)
    BY <1>10 DEF StreamFrom, UnknownUDPStreamFrom, ReadUDPPayload
  <2> HIDE DEF e, i, t, u
  <2>2. \A size : Alike(u.p, ReadPayload(u, size).p)
    BY AlikeParts
  <2>3. QED
    BY <1>1, <2>1, <2>2, AlikeSteps
<1>11. CASE r.p.class = "ICMP"
  <2> DEFINE f == ReadFields(i, ICMPHead)
  <2>1. StreamFrom(r) = ReadICMPPayload(f)
    BY <1>11 DEF StreamFrom, ICMPStreamFrom
  <2> HIDE DEF e, i, t, u
  <2>2. Alike(i.p, f.p)
    BY Layouts, AlikeFields
  <2> HIDE DEF f
  <2>3. Alike(f.p, ReadICMPPayload(f).p)
    BY AlikeICMP
  <2>4. Alike(r.p, f.p)
    BY <1>1, <2>2, AlikeSteps
  <2>5. QED
    BY <2>1, <2>3, <2>4, AlikeSteps
<1>12. QED
  BY <1>2, <1>3, <1>4, <1>5, <1>6, <1>7, <1>8, <1>9, <1>10, <1>11 DEF Classes

-----------------------------------------------------------------------------
(***************************************************************************)
(* p is of class c.                                                        *)
(***************************************************************************)
HasClass(p, c) == "class" \in DOMAIN p /\ p.class = c

(***************************************************************************)
(* What is alike has the same class.                                       *)
(***************************************************************************)
LEMMA ClassKept ==
  ASSUME NEW p, NEW q, NEW c, HasClass(p, c), Alike(p, q)
  PROVE  HasClass(q, c)
BY DEF HasClass, Alike

(***************************************************************************)
(* Setting another field keeps the class.                                  *)
(***************************************************************************)
LEMMA ClassPut ==
  ASSUME NEW p, NEW c, HasClass(p, c), NEW x, x # "class", NEW v
  PROVE  HasClass(Put(p, x, v), c)
BY AlikeItself, AlikePut, ClassKept

(***************************************************************************)
(* A class that is in either part of a record is in the whole.             *)
(***************************************************************************)
LEMMA ClassJoined ==
  ASSUME NEW f, NEW g, NEW c, HasClass(f, c) \/ ("class" \notin DOMAIN f /\ HasClass(g, c))
  PROVE  HasClass(Joined(f, g), c)
BY Zenon DEF HasClass, Joined

(***************************************************************************)
(* What the constructor of CEthernet makes has the class it was made for.  *)
(***************************************************************************)
LEMMA NewEthernetClass ==
  ASSUME NEW c, NEW type
  PROVE  HasClass(NewEthernet(c, type), c)
BY DEF HasClass, NewEthernet

(***************************************************************************)
(* So has what the constructor of every class makes.                       *)
(***************************************************************************)
LEMMA NewClass ==
  ASSUME NEW c \in Classes, c # "Discovery"
  PROVE  HasClass(New(c), c)
<1>1. ASSUME NEW d, NEW type, NEW g PROVE HasClass(Joined(NewEthernet(d, type), g), d)
  BY NewEthernetClass, ClassJoined
<1>2. ASSUME NEW d, NEW type, NEW v, NEW g
               PROVE HasClass(Joined([NewEthernet(d, type) EXCEPT !.dmac = v], g), d)
  <2>1. [NewEthernet(d, type) EXCEPT !.dmac = v] = Put(NewEthernet(d, type), "dmac", v)
    BY DEF Put
  <2>2. HasClass(Put(NewEthernet(d, type), "dmac", v), d)
    BY NewEthernetClass, ClassPut
  <2>3. QED
    BY <2>1, <2>2, ClassJoined
<1>3. ASSUME NEW d, NEW protocol PROVE HasClass(NewIP(d, protocol), d)
  BY <1>1, Zenon DEF NewIP
<1>4. CASE c = "ARP"
  <2>1. New(c) = NewARP
    BY <1>4 DEF New
  <2>2. QED
    BY <1>1, <1>4, <2>1, Zenon DEF NewARP
<1>5. CASE c = "STP"
  <2>1. New(c) = NewSTP
    BY <1>5 DEF New
  <2>2. QED
    BY <1>2, <1>5, <2>1, Zenon DEF NewSTP
<1>6. CASE c = "LinkData"
  <2>1. New(c) = NewLinkData
    BY <1>6 DEF New
  <2>2. QED
    BY <1>1, <1>6, <2>1, Zenon DEF NewLinkData
<1>7. CASE c = "DS"
  <2>1. New(c) = NewDS
    BY <1>7 DEF New
  <2> DEFINE m == <<\h01, \h80, \hC2, \h00, \h00, \h03>>
             k == <<\h02, \heb, \h9f, \h66, \hc8, \h44>>
             e == NewEthernet("DS", DSType)
             f == [e EXCEPT !.dmac = m, !.smac = k]
  <2>2. NewDS = Joined(f, Cleared(DSFields))
    BY DEF NewDS
  <2> HIDE DEF m, k
  <2>3. HasClass(e, "DS")
    BY NewEthernetClass
  <2> HIDE DEF e
  <2>4. f = Put(Put(e, "dmac", m), "smac", k)
    BY Zenon DEF Put
  <2> HIDE DEF f
  <2>5. HasClass(f, "DS")
    BY <2>3, <2>4, ClassPut
  <2>6. QED
    BY <1>7, <2>1, <2>2, <2>5, ClassJoined
<1>8. CASE c = "LLDP"
  <2>1. New(c) = NewLLDP
    BY <1>8 DEF New
  <2>2. QED
    BY <1>2, <1>8, <2>1, ZenonT(30) DEF NewLLDP
<1>9. CASE c = "UnknownEthernet"
  <2>1. New(c) = NewUnknownEthernet
    BY <1>9 DEF New
  <2>2. QED
    BY <1>1, <1>9, <2>1, Zenon DEF NewUnknownEthernet
<1>10. CASE c = "UnknownIP"
  <2>1. New(c) = NewUnknownIP
    BY <1>10 DEF New
  <2>2. QED
    BY <1>3, <1>10, <2>1, Zenon DEF NewUnknownIP
<1>11. CASE c = "UnknownTCP"
  <2>1. New(c) = NewUnknownTCP
    BY <1>11 DEF New
  <2>2. HasClass(NewIP("UnknownTCP", 0), "UnknownTCP")
    BY <1>3
  <2>3. QED
    BY <1>11, <2>1, <2>2, ClassJoined, Zenon DEF NewUnknownTCP
<1>12. CASE c = "UnknownUDP"
  <2>1. New(c) = NewUnknownUDP
    BY <1>12 DEF New
  <2>2. HasClass(NewIP("UnknownUDP", 17), "UnknownUDP")
    BY <1>3
  <2>3. QED
    BY <1>12, <2>1, <2>2, ClassJoined, Zenon DEF NewUnknownUDP
<1>13. CASE c = "ICMP"
  <2>1. New(c) = NewICMP
    BY <1>13 DEF New
  <2>2. HasClass(NewIP("ICMP", 1), "ICMP")
    BY <1>3
  <2>3. [NewIP("ICMP", 1) EXCEPT !.etherpayload = <<>>] =
        Put(NewIP("ICMP", 1), "etherpayload", <<>>)
    BY Zenon DEF Put
  <2>4. HasClass(Put(NewIP("ICMP", 1), "etherpayload", <<>>), "ICMP")
    BY <2>2, ClassPut
  <2>5. QED
    <3> DEFINE f == [NewIP("ICMP", 1) EXCEPT !.etherpayload = <<>>]
    <3>1. New(c) = Joined(f, Cleared(ICMPHead))
      BY <2>1, Zenon DEF NewICMP
    <3>2. HasClass(f, "ICMP")
      BY <2>3, <2>4
    <3> HIDE DEF f
    <3>3. QED
      BY <1>13, <3>1, <3>2, ClassJoined
<1>14. QED
  BY <1>4, <1>5, <1>6, <1>7, <1>8, <1>9, <1>10, <1>11, <1>12, <1>13 DEF Classes

(***************************************************************************)
(* DecodeEthernet and DecodeEthernetFromJson find a class for every frame  *)
(* and value, and never discovery.                                         *)
(***************************************************************************)
LEMMA ClassesFound ==
  /\ \A b : ClassOf(b) \in Classes /\ ClassOf(b) # "Discovery"
  /\ \A value : JsonClass(value) \in Classes /\ JsonClass(value) # "Discovery"
<1> DEFINE Found1 == Classes \ {"Discovery"}
<1>1. {"ARP", "DS", "LinkData", "STP", "LLDP", "UnknownEthernet", "UnknownTCP", "UnknownUDP",
      "ICMP", "UnknownIP"} \subseteq Found1
  BY DEF Classes
<1>2. \A n : IPClass(n) \in {"UnknownTCP", "UnknownUDP", "ICMP", "UnknownIP"}
  BY DEF IPClass
<1>3. \A b, type : UntaggedClass(b, type) \in Found1
  <2>1. ASSUME NEW b, NEW type PROVE UntaggedClass(b, type) \in {"ARP", "DS", "LinkData", "STP",
                 "LLDP", "UnknownEthernet", IPClass(b[24])}
    BY DEF UntaggedClass
  <2>2. QED
    BY <1>1, <1>2, <2>1
<1>4. \A b, type : TaggedClass(b, type) \in Found1
  BY <1>1, <1>3 DEF TaggedClass
<1>5. \A b : ClassOf(b) \in Found1
  BY <1>3, <1>4, Zenon DEF ClassOf
<1>6. \A value : JsonClass(value) \in Found1
  <2>1. ASSUME NEW value PROVE JsonClass(value) \in {"ARP", "UnknownIP", "UnknownEthernet",
                 IPClass(value.protocol)}
    BY DEF JsonClass
  <2>2. QED
    BY <1>1, <1>2, <2>1
<1>7. QED
  BY <1>5, <1>6

-----------------------------------------------------------------------------
(***************************************************************************)
(* Filling in the head of IP keeps the class.                              *)
(***************************************************************************)
LEMMA AlikeIPPrepared ==
  ASSUME NEW p, NEW streamlen
  PROVE  Alike(p, IPPrepared(p, streamlen))
<1> DEFINE u == 5 + (Len(p.options) \div 4)
           v == streamlen - EthernetLen(p)
           a == Put(p, "headerLength", u)
           b == Put(a, "totalLength", v)
<1> HIDE DEF u, v
<1>1. Alike(p, a)
  BY AlikeItself, AlikePut
<1> HIDE DEF a
<1>2. Alike(p, b)
  BY <1>1, AlikePut
<1> HIDE DEF b
<1>3. Alike(p, Put(b, "checksum", IPCheckSum(b)))
  BY <1>2, AlikePut
<1>4. IPPrepared(p, streamlen) = b \/ IPPrepared(p, streamlen) = Put(b, "checksum", IPCheckSum(b))
  BY Zenon DEF IPPrepared, Put, a, b, u, v
<1>5. QED
  BY <1>2, <1>3, <1>4

(***************************************************************************)
(* So does filling in those of what it carries.                            *)
(***************************************************************************)
LEMMA AlikeTransportPrepared ==
  ASSUME NEW p
  PROVE  /\ Alike(p, UnknownTCPPrepared(p)) /\ Alike(p, UnknownUDPPrepared(p))
         /\ Alike(p, ICMPPrepared(p)) /\ Alike(p, UnknownIPPrepared(p))
<1>1. Alike(p, UnknownTCPPrepared(p))
  <2> DEFINE q == IPPrepared(p, UnknownTCPLen(p))
             offset == IF q.tcpdataOffset = 0 THEN 5 ELSE q.tcpdataOffset
             a == Put(q, "tcpdataOffset", offset)
  <2>1. Alike(p, q)
    BY AlikeIPPrepared
  <2>2. UnknownTCPPrepared(p) = a \/ UnknownTCPPrepared(p) = Put(a, "tcpchecksum", TCPCheckSum(a))
    BY Zenon DEF UnknownTCPPrepared, Put
  <2> HIDE DEF q, offset
  <2>3. Alike(p, a)
    BY <2>1, AlikePut
  <2> HIDE DEF a
  <2>4. Alike(p, Put(a, "tcpchecksum", TCPCheckSum(a)))
    BY <2>3, AlikePut
  <2>5. QED
    BY <2>2, <2>3, <2>4
<1>2. Alike(p, UnknownUDPPrepared(p))
  <2> DEFINE q == IPPrepared(p, UnknownUDPLen(p))
             size == IF q.udplength = 0 THEN UnknownUDPLen(p) - IPLen(p) ELSE q.udplength
             a == Put(q, "udplength", size)
  <2>1. Alike(p, q)
    BY AlikeIPPrepared
  <2>2. UnknownUDPPrepared(p) = a \/ UnknownUDPPrepared(p) = Put(a, "udpchecksum", UDPCheckSum(a))
    BY Zenon DEF UnknownUDPPrepared, Put
  <2> HIDE DEF q, size
  <2>3. Alike(p, a)
    BY <2>1, AlikePut
  <2> HIDE DEF a
  <2>4. Alike(p, Put(a, "udpchecksum", UDPCheckSum(a)))
    BY <2>3, AlikePut
  <2>5. QED
    BY <2>2, <2>3, <2>4
<1>3. Alike(p, ICMPPrepared(p))
  <2> DEFINE a == Put(p, "icmpchecksum", ICMPCheckSum(p))
             size == ICMPLen(p)
  <2>1. ICMPPrepared(p) = IPPrepared(a, size)
    BY Zenon DEF ICMPPrepared, Put
  <2>2. Alike(p, a)
    BY AlikeItself, AlikePut
  <2> HIDE DEF a, size
  <2>3. Alike(a, IPPrepared(a, size))
    BY AlikeIPPrepared
  <2>4. QED
    BY <2>1, <2>2, <2>3, AlikeSteps
<1>4. Alike(p, UnknownIPPrepared(p))
  BY AlikeIPPrepared, Zenon DEF UnknownIPPrepared
<1>5. QED
  BY <1>1, <1>2, <1>3, <1>4

(***************************************************************************)
(* StreamTo and ToJson keep the class of a packet.                         *)
(***************************************************************************)
LEMMA AlikePrepared ==
  ASSUME NEW p, p.class # "Discovery"
  PROVE  Alike(p, Prepared(p)) /\ Alike(p, Summed(p))
<1>1. Alike(p, Prepared(p))
  <2> DEFINE d == Put(p, "length", <<0, 0, 0, DSSize>>)
  <2>1. Prepared(p) \in {UnknownTCPPrepared(p), UnknownUDPPrepared(p), ICMPPrepared(p),
        UnknownIPPrepared(p), p,
                         [p EXCEPT !.length = <<0, 0, 0, DSSize>>]}
    BY DEF Prepared
  <2>2. [p EXCEPT !.length = <<0, 0, 0, DSSize>>] = d
    BY Zenon DEF Put
  <2>3. Alike(p, d)
    BY AlikeItself, AlikePut
  <2> HIDE DEF d
  <2>4. QED
    BY <2>1, <2>2, <2>3, AlikeItself, AlikeTransportPrepared
<1>2. Alike(p, Summed(p))
  <2> DEFINE a == Put(p, "tcpchecksum", TCPCheckSum(p))
             b == Put(p, "udpchecksum", UDPCheckSum(p))
             c == Put(p, "icmpchecksum", ICMPCheckSum(p))
  <2>1. Summed(p) \in {a, b, c, p}
    BY DEF Summed, Put
  <2>2. Alike(p, a) /\ Alike(p, b) /\ Alike(p, c)
    BY AlikeItself, AlikePut
  <2> HIDE DEF a, b, c
  <2>3. QED
    BY <2>1, <2>2, AlikeItself
<1>3. QED
  BY <1>1, <1>2

(***************************************************************************)
(* Every setter keeps the class.                                           *)
(***************************************************************************)
LEMMA AlikeSet ==
  ASSUME NEW p
  PROVE  /\ \A data : Alike(p, SetPayload(p, data)) /\ Alike(p, SetAppPayload(p, data)) /\
              Alike(p, SetOption(p, data))
         /\ \A data : Alike(p, [SetTCPOption(p, data) EXCEPT !.tcpchecksum = 1])
         /\ \A s : Alike(p, setDscp(p, s)) /\ Alike(p, setEcn(p, s))
         /\ \A i \in 1..3 : \A tlv : Alike(p, SetMandatory(p, Mandatory[i][1], tlv))
         /\ \A tlv : Alike(p, addOptionalTLV(p, tlv))
<1>1. \A x, u : x # "class" => Alike(p, Put(p, x, u))
  BY AlikeItself, AlikePut
<1>2. \A x, y, u, v : x # "class" /\ y # "class" => Alike(p, Put(Put(p, x, u), y, v))
  <2>1. ASSUME NEW x, NEW y, NEW u, NEW v, x # "class", y # "class"
                 PROVE Alike(p, Put(Put(p, x, u), y, v))
    <3> DEFINE q == Put(p, x, u)
    <3>1. Alike(p, q)
      BY <1>1, <2>1
    <3> HIDE DEF q
    <3>2. Alike(p, Put(q, y, v))
      BY <2>1, <3>1, AlikePut
    <3>3. QED
      BY <3>2 DEF q
  <2>2. QED
    BY <2>1, Zenon
<1>3. ASSUME NEW data PROVE Alike(p, SetPayload(p, data))
  BY DEF Alike, SetPayload
<1>4. ASSUME NEW data PROVE Alike(p, SetAppPayload(p, data))
  <2>1. SetAppPayload(p, data) = p \/ \E u : SetAppPayload(p, data) = Put(p, "etherpayload", u)
    BY Zenon DEF SetAppPayload, Put
  <2>2. QED
    BY <1>1, <2>1, AlikeItself
<1>5. ASSUME NEW data PROVE Alike(p, SetOption(p, data))
  <2>1. SetOption(p, data) = Put(p, "options", data)
    BY Zenon DEF SetOption, Put
  <2>2. QED
    BY <1>1, <2>1
<1>6. ASSUME NEW data PROVE Alike(p, [SetTCPOption(p, data) EXCEPT !.tcpchecksum = 1])
  <2> DEFINE q == SetTCPOption(p, data)
  <2>1. \E v : q = Put(Put(p, "tcpoptions", data), "tcpdataOffset", v)
    BY Zenon DEF SetTCPOption, Put
  <2>2. Alike(p, q)
    BY <1>2, <2>1
  <2> HIDE DEF q
  <2>3. [q EXCEPT !.tcpchecksum = 1] = Put(q, "tcpchecksum", 1)
    BY Zenon DEF Put
  <2>4. Alike(p, Put(q, "tcpchecksum", 1))
    BY <2>2, AlikePut
  <2>5. QED
    BY <2>3, <2>4 DEF q
<1>7. ASSUME NEW s PROVE Alike(p, setDscp(p, s)) /\ Alike(p, setEcn(p, s))
  <2>1. /\ \E u : setDscp(p, s) = Put(p, "diffServ", u)
        /\ \E u : setEcn(p, s) = Put(p, "diffServ", u)
    BY Zenon DEF setDscp, setEcn, Put
  <2>2. QED
    BY <1>1, <2>1
<1>8. ASSUME NEW i \in 1..3, NEW tlv PROVE Alike(p, SetMandatory(p, Mandatory[i][1], tlv))
  <2> DEFINE name == Mandatory[i][1]
  <2>1. name # "class"
    BY DEF Mandatory
  <2> HIDE DEF name
  <2>2. \E v : SetMandatory(p, name, tlv) = Put(Put(p, name, tlv), "len", v)
    BY Zenon DEF SetMandatory, Put
  <2>3. Alike(p, SetMandatory(p, name, tlv))
    BY <1>2, <2>1, <2>2
  <2>4. QED
    BY <2>3 DEF name
<1>9. ASSUME NEW tlv PROVE Alike(p, addOptionalTLV(p, tlv))
  <2>1. \E u, v : addOptionalTLV(p, tlv) = Put(Put(p, "optionalTLVList", u), "len", v)
    BY Zenon DEF addOptionalTLV, Put
  <2>2. QED
    BY <1>2, <2>1
<1>10. QED
  BY <1>3, <1>4, <1>5, <1>6, <1>7, <1>8, <1>9

(***************************************************************************)
(* Assignment of the head and of data keeps the class of the object        *)
(* assigned to.                                                            *)
(***************************************************************************)
LEMMA AlikeEthernetAssign ==
  ASSUME NEW to, NEW p
  PROVE  Alike(to, EthernetAssign(to, p)) /\ Alike(to, DataAssign(to, p))
<1>1. Alike(to, EthernetAssign(to, p))
  BY DEF Alike, EthernetAssign
<1>2. Alike(to, DataAssign(to, p))
  BY DEF Alike, DataAssign
<1>3. QED
  BY <1>1, <1>2

(***************************************************************************)
(* A copy has the class of the packet it was made of.                      *)
(***************************************************************************)
LEMMA CopiesKeepClass ==
  ASSUME NEW p, p.class # "Discovery", NEW q \in Copies(p)
  PROVE  HasClass(q, p.class)
<1>1. \A c \in {"STP", "LinkData", "DS", "LLDP", "UnknownEthernet"} :
      HasClass(EthernetAssign(New(c), p), c)
  <2>1. \A c \in {"STP", "LinkData", "DS", "LLDP", "UnknownEthernet"} : c \in Classes /\
        c # "Discovery"
    BY DEF Classes
  <2>2. \A c \in {"STP", "LinkData", "DS", "LLDP", "UnknownEthernet"} : HasClass(New(c), c)
    BY <2>1, NewClass
  <2>3. QED
    BY <2>2, AlikeEthernetAssign, ClassKept
<1>2. CASE p.class = "STP"
  <2> DEFINE e == EthernetAssign(NewSTP, p)
  <2>1. New("STP") = NewSTP
    BY DEF New
  <2>2. q = DataAssign(e, p)
    BY <1>2 DEF Copies, STPAssign
  <2>3. HasClass(e, "STP")
    BY <1>1, <2>1
  <2> HIDE DEF e
  <2>4. QED
    BY <1>2, <2>2, <2>3, AlikeEthernetAssign, ClassKept
<1>3. CASE p.class = "LinkData"
  <2> DEFINE e == EthernetAssign(NewLinkData, p)
             d == DataAssign(e, p)
  <2>1. New("LinkData") = NewLinkData
    BY DEF New
  <2>2. q = LinkDataAssign(p)
    BY <1>3 DEF Copies
  <2>3. HasClass(e, "LinkData")
    BY <1>1, <2>1
  <2>4. q = [d EXCEPT !.dstport = p.dstport, !.srcport = p.srcport, !.dstdpid = p.dstdpid,
                      !.srcdpid = p.srcdpid, !.xid = p.xid, !.flags = p.flags]
    BY <2>2, Zenon DEF LinkDataAssign
  <2> HIDE DEF e
  <2>5. HasClass(d, "LinkData")
    BY <2>3, AlikeEthernetAssign, ClassKept
  <2> HIDE DEF d
  <2>6. HasClass(q, "LinkData")
    BY <2>4, <2>5 DEF HasClass
  <2>7. QED
    BY <1>3, <2>6
<1>4. CASE p.class = "DS"
  <2> DEFINE e == EthernetAssign(NewDS, p)
  <2>1. New("DS") = NewDS
    BY DEF New
  <2>2. q = DSAssign(p)
    BY <1>4 DEF Copies
  <2>3. HasClass(e, "DS")
    BY <1>1, <2>1
  <2>4. q = [e EXCEPT
               !.length = p.length, !.flags = p.flags, !.senderport = p.senderport,
               !.peerport = p.peerport, !.senderdp = p.senderdp, !.peerdp = p.peerdp,
               !.sendcost = p.sendcost, !.fromclusterid = p.fromclusterid,
               !.fromdatacenterid = p.fromdatacenterid, !.toclusterid = p.toclusterid,
               !.todatacenterid = p.todatacenterid]
    BY <2>2, Zenon DEF DSAssign
  <2> HIDE DEF e
  <2>5. HasClass(q, "DS")
    BY <2>3, <2>4 DEF HasClass
  <2>6. QED
    BY <1>4, <2>5
<1>5. CASE p.class = "LLDP"
  <2> DEFINE e == EthernetAssign(NewLLDP, p)
             n == SumOfLens(p.optionalTLVList)
             d == [e EXCEPT !.chassisId = p.chassisId, !.portId = p.portId, !.ttl = p.ttl,
                            !.optionalTLVList = p.optionalTLVList, !.len = n]
  <2>1. New("LLDP") = NewLLDP
    BY DEF New
  <2>2. q = LLDPAssign(p) \/ q = LLDPCopy(p)
    BY <1>5 DEF Copies
  <2>3. HasClass(e, "LLDP")
    BY <1>1, <2>1
  <2>4. LLDPAssign(p) = d
    BY Zenon DEF LLDPAssign
  <2>5. \E u : LLDPCopy(p) = Put(LLDPAssign(p), "len", u)
    BY Zenon DEF LLDPCopy, Put
  <2> HIDE DEF e, n
  <2>6. HasClass(d, "LLDP")
    BY <2>3 DEF HasClass
  <2> HIDE DEF d
  <2>7. QED
    BY <1>5, <2>2, <2>4, <2>5, <2>6, ClassPut
<1>6. CASE p.class = "UnknownEthernet"
  <2> DEFINE e == EthernetAssign(NewUnknownEthernet, p)
  <2>1. New("UnknownEthernet") = NewUnknownEthernet
    BY DEF New
  <2>2. q = UnknownEthernetAssign(p)
    BY <1>6 DEF Copies
  <2>3. q = Put(e, "etherpayload", p.etherpayload)
    BY <2>2, Zenon DEF UnknownEthernetAssign, Put
  <2>4. HasClass(e, "UnknownEthernet")
    BY <1>1, <2>1
  <2> HIDE DEF e
  <2>5. QED
    BY <1>6, <2>3, <2>4, ClassPut
<1>7. p.class \in {"STP", "LinkData", "DS", "LLDP", "UnknownEthernet"}
  BY DEF Copies
<1>8. QED
  BY <1>2, <1>3, <1>4, <1>5, <1>6, <1>7

(***************************************************************************)
(* FromJson keeps the class of the object that reads.                      *)
(***************************************************************************)
LEMMA AlikeFromJson ==
  ASSUME NEW p, HasClass(p, p.class), p.class \in Classes, p.class # "Discovery", NEW value
  PROVE  HasClass(FromJson(p, value), p.class)
<1>1. "class" \notin Names(EthernetJson) /\ "class" \notin Names(ARPJson) /\
      "class" \notin Names(DSJson)
  BY DEF Names, EthernetJson, ARPJson, DSJson
<1>2. "class" \notin Names(IPJson) /\ "class" \notin Names(TCPJson)
  BY DEF Names, IPJson, TCPJson
<1>3. "class" \notin Names(UDPJson) /\ "class" \notin Names(ICMPJson)
  BY DEF Names, UDPJson, ICMPJson
<1>4. \A c \in Classes \ {"Discovery"} : \A s \in DOMAIN SectionsOf(c) :
      "class" \notin Names(SectionsOf(c)[s])
  <2>1. ASSUME NEW c \in Classes \ {"Discovery"}
                 PROVE \A s \in DOMAIN SectionsOf(c) : "class" \notin Names(SectionsOf(c)[s])
    <3> HIDE DEF EthernetJson
    <3>1. CASE c \in {"STP", "LinkData", "UnknownEthernet"}
      BY <1>1, <3>1 DEF SectionsOf
    <3>2. CASE c \in {"ARP", "DS", "LLDP"}
      BY <1>1, <3>2 DEF SectionsOf
    <3>3. CASE c \in {"UnknownIP", "UnknownTCP"}
      BY <1>1, <1>2, <3>3 DEF SectionsOf
    <3>4. CASE c \in {"UnknownUDP", "ICMP"}
      BY <1>1, <1>2, <1>3, <3>4 DEF SectionsOf
    <3>5. QED
      BY <3>1, <3>2, <3>3, <3>4 DEF Classes
  <2>2. QED
    BY <2>1
<1>5. ASSUME NEW q, HasClass(q, p.class), NEW s PROVE HasClass(InSection(q, value, s), p.class)
  <2> DEFINE F == SectionsOf(q.class)[s]
  <2>1. CASE s \in DOMAIN SectionsOf(q.class) \cap DOMAIN value
    <3>1. InSection(q, value, s) = Assigned(q, value[s], F)
      BY <2>1, Zenon DEF InSection
    <3>2. "class" \notin Names(F)
      BY <1>4, <1>5, <2>1 DEF HasClass
    <3> HIDE DEF F
    <3>3. QED
      BY <1>5, <3>1, <3>2, Zenon DEF HasClass, Assigned
  <2>2. CASE s \notin DOMAIN SectionsOf(q.class) \cap DOMAIN value
    BY <1>5, <2>2, Zenon DEF InSection
  <2>3. QED
    BY <2>1, <2>2
<1>6. FromJson(p, value) = InTransport(InSection(InSection(InEthernet(p, value), value, "arp"),
      value, "ip"), value)
  BY Zenon DEF FromJson
<1>7. HasClass(InEthernet(p, value), p.class)
  BY <1>5, Zenon DEF InEthernet
<1>8. HasClass(InSection(InSection(InEthernet(p, value), value, "arp"), value, "ip"), p.class)
  BY <1>5, <1>7
<1>9. QED
  BY <1>5, <1>6, <1>8, Zenon DEF InTransport

-----------------------------------------------------------------------------
(***************************************************************************)
(* A discovery packet whose links are a path, and not too many.            *)
(***************************************************************************)
OfPath(p) == DPacket(p) /\ Connected(p.m_links) /\ Len(p.m_links) <= MaxLinks

(***************************************************************************)
(* One that was read from JSON: its links are a path.                      *)
(***************************************************************************)
OfPaths(p) == Connected(p.m_links) /\ \E S : p.m_links \in Seq(S)

(***************************************************************************)
(* An object has a class.                                                  *)
(***************************************************************************)
Classed(p) == "class" \in DOMAIN p

(***************************************************************************)
(* The frame is what a discovery packet wrote, whose length counts its     *)
(* links.                                                                  *)
(***************************************************************************)
OnTheWire(p, b) == Travels(p) /\ b = DiscoveryStreamTo(p) /\ p.linklength = 32 * Len(p.m_links)

(***************************************************************************)
(* The inductive invariant: where a discovery packet is, at every stage of *)
(* its life.  While it is built its links are a path; the frame and the    *)
(* JSON value are those of the object, so that what is read from them is   *)
(* the object again; and no other packet turns into a discovery packet,    *)
(* because every object has a class and nothing changes it.                *)
(***************************************************************************)
PathInv ==
  /\ Classed(object) /\ Classed(origin)
  /\ stage # "read" /\ Travels(object) => OfPath(object)
  /\ stage \in {"built", "copied"} /\ Travels(origin) => Travels(object)
  /\ stage = "wire" /\ Travels(origin) => OnTheWire(object, frame)
  /\ stage = "json" /\ Travels(object) => json.paths = PathsOf(object)
  /\ stage = "read" /\ Travels(object) => OfPaths(object)

(***************************************************************************)
(* Such a path can be counted in 16 bits.                                  *)
(***************************************************************************)
LEMMA PathsAreFew ==
  ASSUME NEW p, OfPath(p)
  PROVE  FewLinks(p)
<1>1. Len(p.m_links) \in Nat
  BY DEF OfPath, DPacket
<1>2. QED
  BY <1>1, LinkAssumption DEF OfPath, FewLinks

(***************************************************************************)
(* What is alike a packet that does not travel does not travel.            *)
(***************************************************************************)
LEMMA ClassedOtherwise ==
  ASSUME NEW p, NEW q, Classed(p), ~Travels(p), Alike(p, q)
  PROVE  Classed(q) /\ ~Travels(q)
BY DEF Classed, Travels, Alike

(***************************************************************************)
(* A new packet of another class does not travel.                          *)
(***************************************************************************)
LEMMA NewOtherwise ==
  ASSUME NEW c \in Classes, c # "Discovery"
  PROVE  Classed(New(c)) /\ ~Travels(New(c)) /\ New(c).class = c
BY NewClass DEF Classed, Travels, HasClass

(***************************************************************************)
(* A path that is encoded is a path, and the frame is what it wrote.       *)
(***************************************************************************)
LEMMA PathPrepared ==
  ASSUME NEW p, Travels(p), OfPath(p)
  PROVE  Prepared(p) = DiscoveryPrepared(p) /\ OfPath(Prepared(p)) /\
           OnTheWire(Prepared(p), StreamTo(Prepared(p)))
<1> DEFINE q == DiscoveryPrepared(p)
<1>1. Prepared(p) = q
  BY DEF Prepared, Travels
<1>2. DPacket(q) /\ q.m_links = p.m_links /\ q.linklength = 32 * Len(p.m_links)
  BY PathsAreFew, DiscoveryPreparedFits DEF OfPath
<1>3. OfPath(q)
  BY <1>2 DEF OfPath
<1> HIDE DEF q
<1>4. q.class = "Discovery"
  BY <1>2 DEF DPacket
<1>5. StreamTo(q) = DiscoveryStreamTo(q)
  BY <1>4 DEF StreamTo
<1>6. OnTheWire(q, StreamTo(q))
  BY <1>2, <1>4, <1>5 DEF OnTheWire, Travels
<1>7. QED
  BY <1>1, <1>3, <1>6 DEF q

(***************************************************************************)
(* The next datapath reads the packet that the last one wrote.             *)
(***************************************************************************)
LEMMA PathRead ==
  ASSUME NEW p, NEW b, OfPath(p), OnTheWire(p, b)
  PROVE  /\ DiscoveryStreamFrom(Reading(NewDiscovery, b)).good
         /\ DiscoveryStreamFrom(Reading(NewDiscovery, b)).p = p
BY DiscoveryReadBack DEF OfPath, OnTheWire

(***************************************************************************)
(* Every packet starts with a class, and a discovery packet with a path:   *)
(* that of no links.                                                       *)
(***************************************************************************)
LEMMA StartedPath ==
  ASSUME NEW class \in Classes
  PROVE  /\ Classed(Started(class))
         /\ Travels(Started(class)) => OfPath(Started(class))
<1>1. CASE class # "Discovery"
  <2> DEFINE n == New(class)
  <2>1. HasClass(n, class)
    BY <1>1, NewClass
  <2>2. \/ Started(class) = [n EXCEPT !.protocol = 6, !.sourceAddress = <<10, 0, 0, 1>>]
        \/ Started(class) = [n EXCEPT !.protocol = 2, !.flags = 2]
        \/ \E v : Started(class) = [n EXCEPT !.ethtype = v]
        \/ Started(class) = n
    BY <1>1 DEF Started
  <2> HIDE DEF n
  <2>3. HasClass(Started(class), class)
    <3>1. CASE Started(class) = [n EXCEPT !.protocol = 6, !.sourceAddress = <<10, 0, 0, 1>>]
      BY <2>1, <3>1 DEF HasClass
    <3>2. CASE Started(class) = [n EXCEPT !.protocol = 2, !.flags = 2]
      BY <2>1, <3>2 DEF HasClass
    <3>3. CASE \E v : Started(class) = [n EXCEPT !.ethtype = v]
      BY <2>1, <3>3 DEF HasClass
    <3>4. CASE Started(class) = n
      BY <2>1, <3>4
    <3>5. QED
      BY <2>2, <3>1, <3>2, <3>3, <3>4
  <2>4. QED
    BY <1>1, <2>3 DEF HasClass, Classed, Travels
<1>2. CASE class = "Discovery"
  <2> DEFINE to == <<0, 0, 0, 0, 0, 0, 0, 2>>
             q == Put(NewDiscovery, "to", to)
  <2>1. New("Discovery") = NewDiscovery
    BY DEF New
  <2>2. Started(class) = [New("Discovery") EXCEPT !.to = to]
    BY <1>2 DEF Started
  <2>3. Started(class) = q
    BY <2>1, <2>2, Zenon DEF Put
  <2>4. to \in [1..8 -> Byte]
    BY DEF Byte
  <2> HIDE DEF to
  <2>5. DPacket(NewDiscovery) /\ NewDiscovery.m_links = <<>>
    BY NewDiscoveryFits
  <2>6. IsPut(q, NewDiscovery, "to", to, DiscoveryNames)
    <3>1. Function(NewDiscovery, DiscoveryNames) /\ "to" \in DiscoveryNames
      BY <2>5 DEF DPacket, DiscoveryNames
    <3>2. QED
      BY <3>1, PutIs
  <2> HIDE DEF q
  <2>7. /\ Function(q, DiscoveryNames) /\ q.to = to
        /\ q.class = NewDiscovery.class /\ q.m_links = NewDiscovery.m_links /\
             q.length = NewDiscovery.length
        /\ q.linklength = NewDiscovery.linklength /\ q.xid = NewDiscovery.xid /\
             q.from = NewDiscovery.from
    BY <2>6 DEF IsPut, DiscoveryNames
  <2>8. DPacket(q) /\ q.m_links = <<>>
    BY <2>4, <2>5, <2>7, DPacketBy
  <2>9. OfPath(q)
    BY <2>8, LinkAssumption DEF OfPath, Connected
  <2>10. DOMAIN q = DiscoveryNames
    BY <2>7, FunctionDomain
  <2>11. Classed(q)
    BY <2>10, NamesOfDiscovery DEF Classed
  <2>12. QED
    BY <2>3, <2>9, <2>11
<1>3. QED
  BY <1>1, <1>2

(***************************************************************************)
(* The invariant holds at first.                                           *)
(***************************************************************************)
LEMMA PathStarts == Init => PathInv
<1> SUFFICES ASSUME Init PROVE PathInv
  OBVIOUS
<1>1. CASE stage = "built" /\ object \in {Started(class) : class \in Classes} /\ origin = object
  <2>1. Classed(object) /\ (Travels(object) => OfPath(object))
    BY <1>1, StartedPath
  <2>2. QED
    BY <1>1, <2>1 DEF PathInv
<1>2. CASE stage = "wire" /\ object = Nothing /\ origin = Nothing
  <2>1. Classed(Nothing) /\ ~Travels(Nothing)
    BY DEF Nothing, Classed, Travels
  <2>2. QED
    BY <1>2, <2>1 DEF PathInv
<1>3. QED
  BY <1>1, <1>2 DEF Init

(***************************************************************************)
(* A setter of another packet keeps the invariant.                         *)
(***************************************************************************)
LEMMA PathBuilt ==
  ASSUME PathInv, stage = "built", ~Travels(object), NEW p, Built(p), Alike(object, p)
  PROVE  PathInv'
<1>1. Classed(p) /\ ~Travels(p)
  BY ClassedOtherwise DEF PathInv
<1>2. object' = p /\ origin' = p /\ stage' = "built"
  BY DEF Built
<1>3. QED
  BY <1>1, <1>2 DEF PathInv, Classed, Travels

(***************************************************************************)
(* Tags keep it.                                                           *)
(***************************************************************************)
LEMMA PathBuiltTags == PathInv /\ BuildTags => PathInv'
<1> SUFFICES ASSUME PathInv, BuildTags PROVE PathInv'
  OBVIOUS
<1>1. stage = "built" /\ ~Travels(object)
  BY DEF BuildTags, Travels
<1>2. PICK tags \in Tagged : Built(Joined(tags, object))
  BY DEF BuildTags
<1>3. "class" \notin DOMAIN tags
  BY TagAssumption DEF TagFields
<1>4. Alike(object, Joined(tags, object))
  BY <1>3, ClassJoined DEF Alike, HasClass
<1>5. QED
  BY <1>1, <1>2, <1>4, PathBuilt

(***************************************************************************)
(* So do payload, options, services and TLVs.                              *)
(***************************************************************************)
LEMMA PathBuiltFields == PathInv /\ (BuildPayload \/ BuildOption \/ BuildService \/
        BuildTLV) => PathInv'
<1>1. ASSUME PathInv, BuildPayload PROVE PathInv'
  <2>1. /\ stage = "built" /\ ~Travels(object)
        /\ \E data : Built(SetPayload(object, data)) \/ Built(SetAppPayload(object, data))
    BY <1>1 DEF BuildPayload, Travels, IsIP
  <2>2. QED
    BY <1>1, <2>1, AlikeSet, PathBuilt
<1>2. ASSUME PathInv, BuildOption PROVE PathInv'
  <2>1. /\ stage = "built" /\ ~Travels(object)
        /\ \E data : Built(SetOption(object, data)) \/
             Built([SetTCPOption(object, data) EXCEPT !.tcpchecksum = 1])
    BY <1>2 DEF BuildOption, Travels, IsIP
  <2>2. QED
    BY <1>2, <2>1, AlikeSet, PathBuilt
<1>3. ASSUME PathInv, BuildService PROVE PathInv'
  <2>1. /\ stage = "built" /\ ~Travels(object)
        /\ \E s : Built(setDscp(object, s)) \/ Built(setEcn(object, s))
    BY <1>3 DEF BuildService, Travels, IsIP
  <2>2. QED
    BY <1>3, <2>1, AlikeSet, PathBuilt
<1>4. ASSUME PathInv, BuildTLV PROVE PathInv'
  <2>1. /\ stage = "built" /\ ~Travels(object)
        /\ \/ \E i \in DOMAIN Mandatory : \E tlv : Built(SetMandatory(object, Mandatory[i][1], tlv))
           \/ \E tlv : Built(addOptionalTLV(object, tlv))
    BY <1>4, Zenon DEF BuildTLV, Travels
  <2>2. DOMAIN Mandatory = 1..3
    BY DEF Mandatory
  <2>3. QED
    BY <1>4, <2>1, <2>2, AlikeSet, PathBuilt
<1>5. QED
  BY <1>1, <1>2, <1>3, <1>4

(***************************************************************************)
(* So do links: the new one starts where the path ends.                    *)
(***************************************************************************)
LEMMA PathBuiltLink == PathInv /\ BuildLink => PathInv'
<1> SUFFICES ASSUME PathInv, BuildLink PROVE PathInv'
  OBVIOUS
<1>1. stage = "built" /\ Travels(object)
  BY DEF BuildLink, Travels
<1>2. OfPath(object)
  BY <1>1 DEF PathInv
<1>3. \E p : Built(p) /\ OfPath(p)
  <2>1. PICK dp \in Dps, port \in DpPorts :
          \/ Built(ModifyLastDpPort(object, port, dp))
          \/ Len(object.m_links) < MaxLinks /\
               \E cost \in Costs : Built(AddNewLink(object, port, dp, cost))
    BY DEF BuildLink
  <2>2. dp \in [1..8 -> Byte] /\ port \in [1..4 -> Byte] /\ MaxLinks \in Nat
    BY LinkAssumption
  <2>3. DPacket(object) /\ Connected(object.m_links) /\ Len(object.m_links) <= MaxLinks /\
        Len(object.m_links) \in Nat
    BY <1>2 DEF OfPath, DPacket
  <2>4. CASE Built(ModifyLastDpPort(object, port, dp))
    <3>1. OfPath(ModifyLastDpPort(object, port, dp))
      BY <2>2, <2>3, ModifyLastDpPortKeeps DEF OfPath
    <3>2. QED
      BY <2>4, <3>1
  <2>5. ASSUME Len(object.m_links) < MaxLinks,
                 NEW cost \in Costs, Built(AddNewLink(object, port, dp, cost))
        PROVE  \E p : Built(p) /\ OfPath(p)
    <3> DEFINE q == AddNewLink(object, port, dp, cost)
    <3>1. cost \in [1..4 -> Byte]
      BY LinkAssumption
    <3>2. DPacket(q) /\ Connected(q.m_links) /\ Len(q.m_links) <= Len(object.m_links) + 1
      BY <2>2, <2>3, <3>1, AddNewLinkKeeps
    <3>3. Len(q.m_links) \in Nat
      BY <3>2 DEF DPacket
    <3>4. Built(q)
      BY <2>5
    <3> HIDE DEF q
    <3>5. OfPath(q)
      BY <2>2, <2>3, <2>5, <3>2, <3>3 DEF OfPath
    <3>6. QED
      BY <3>4, <3>5
  <2>6. QED
    BY <2>1, <2>4, <2>5
<1>4. PICK p : Built(p) /\ OfPath(p)
  BY <1>3
<1>5. Classed(p) /\ Travels(p)
  <2>1. DOMAIN p = DiscoveryNames /\ p.class = "Discovery"
    BY <1>4, FunctionDomain DEF OfPath, DPacket
  <2>2. QED
    BY <2>1, NamesOfDiscovery DEF Classed, Travels
<1>6. object' = p /\ origin' = p /\ stage' = "built"
  BY <1>1, <1>4 DEF Built
<1>7. QED
  BY <1>4, <1>5, <1>6 DEF PathInv, Classed, Travels, OfPath

(***************************************************************************)
(* A copy is the packet it was made of.                                    *)
(***************************************************************************)
LEMMA PathCopied == PathInv /\ Copy => PathInv'
<1> SUFFICES ASSUME PathInv, Copy PROVE PathInv'
  OBVIOUS
<1>1. stage = "built" /\ stage' = "copied" /\ object' \in Copies(object) /\ origin' = origin
  BY DEF Copy
<1>2. CASE Travels(object)
  <2>1. Copies(object) = {AssignDiscovery(object)}
    BY <1>2 DEF Copies, Travels
  <2>2. OfPath(object)
    BY <1>1, <1>2 DEF PathInv
  <2>3. object' = object
    BY <1>1, <2>1, <2>2, AssignedIsSame DEF OfPath
  <2>4. QED
    BY <1>1, <1>2, <2>2, <2>3 DEF PathInv, Classed, Travels, OfPath
<1>3. CASE ~Travels(object)
  <2>1. object.class # "Discovery"
    BY <1>3 DEF Travels
  <2>2. HasClass(object', object.class)
    BY <1>1, <2>1, CopiesKeepClass
  <2>3. Classed(object') /\ ~Travels(object')
    BY <2>1, <2>2 DEF HasClass, Classed, Travels
  <2>4. ~Travels(origin)
    BY <1>1, <1>3 DEF PathInv
  <2>5. QED
    BY <1>1, <2>3, <2>4 DEF PathInv, Classed, Travels
<1>4. QED
  BY <1>2, <1>3

(***************************************************************************)
(* Encode writes the frame of the path.                                    *)
(***************************************************************************)
LEMMA PathEncoded == PathInv /\ Encode => PathInv'
<1> SUFFICES ASSUME PathInv, Encode PROVE PathInv'
  OBVIOUS
<1> DEFINE p == Prepared(object)
<1>1. stage \in {"built", "copied"} /\ object' = p /\ origin' = Prepared(origin)
  BY DEF Encode
<1>2. stage' = "failed" \/ (stage' = "wire" /\ frame' = StreamTo(p))
  BY DEF Encode
<1>3. CASE Travels(object)
  <2>1. OfPath(object)
    BY <1>1, <1>3 DEF PathInv
  <2>2. OfPath(p) /\ OnTheWire(p, StreamTo(p))
    BY <1>3, <2>1, PathPrepared
  <2>3. Classed(Prepared(origin))
    <3>1. CASE Travels(origin)
      <4>1. Prepared(origin) = DiscoveryPrepared(origin)
        BY <3>1 DEF Prepared, Travels
      <4>2. DOMAIN DiscoveryPrepared(origin) = DOMAIN origin
        BY Zenon DEF DiscoveryPrepared
      <4>3. QED
        BY <4>1, <4>2 DEF PathInv, Classed
    <3>2. CASE ~Travels(origin)
      BY <3>2, AlikePrepared, ClassedOtherwise DEF PathInv, Travels
    <3>3. QED
      BY <3>1, <3>2
  <2>4. Classed(p)
    <3>1. DOMAIN p = DiscoveryNames
      BY <2>2, FunctionDomain DEF OfPath, DPacket
    <3>2. QED
      BY <3>1, NamesOfDiscovery DEF Classed
  <2> HIDE DEF p
  <2>5. QED
    BY <1>1, <1>2, <2>2, <2>3, <2>4 DEF PathInv, Classed, Travels, OfPath, OnTheWire
<1>4. CASE ~Travels(object)
  <2>1. ~Travels(origin)
    BY <1>1, <1>4 DEF PathInv
  <2>2. Alike(object, p) /\ Alike(origin, Prepared(origin))
    BY <1>4, <2>1, AlikePrepared DEF Travels
  <2>3. Classed(p) /\ ~Travels(p) /\ Classed(Prepared(origin)) /\ ~Travels(Prepared(origin))
    BY <1>4, <2>1, <2>2, ClassedOtherwise DEF PathInv
  <2> HIDE DEF p
  <2>4. QED
    BY <1>1, <1>2, <2>3 DEF PathInv, Classed, Travels
<1>5. QED
  BY <1>3, <1>4

(***************************************************************************)
(* Input makes no discovery packet of a frame.                             *)
(***************************************************************************)
LEMMA PathTakenIn == PathInv /\ Input => PathInv'
<1> SUFFICES ASSUME PathInv, Input PROVE PathInv'
  OBVIOUS
<1> DEFINE n == New(ClassOf(frame))
           r == StreamFrom(Reading(n, frame))
<1>1. stage = "wire" /\ ~Travels(origin) /\ origin' = origin
  BY DEF Input
<1>2. (stage' = "relayed" /\ object' = Prepared(r.p)) \/ (stage' = "dropped" /\ object' = object)
  BY Zenon DEF Input
<1>3. CASE stage' = "relayed" /\ object' = Prepared(r.p)
  <2>1. Classed(n) /\ ~Travels(n) /\ n.class \in Classes
    BY ClassesFound, NewOtherwise
  <2> HIDE DEF n
  <2>2. Reading(n, frame).p = n
    BY DEF Reading
  <2>3. Alike(n, r.p)
    BY <2>1, <2>2, AlikeStreamFrom DEF Travels
  <2>4. Classed(r.p) /\ ~Travels(r.p)
    BY <2>1, <2>3, ClassedOtherwise
  <2> HIDE DEF r
  <2>5. Alike(r.p, Prepared(r.p))
    BY <2>4, AlikePrepared DEF Travels
  <2>6. Classed(object') /\ ~Travels(object')
    BY <1>3, <2>4, <2>5, ClassedOtherwise
  <2>7. QED
    BY <1>1, <1>3, <2>6 DEF PathInv, Classed, Travels
<1>4. CASE stage' = "dropped" /\ object' = object
  BY <1>1, <1>4 DEF PathInv, Classed, Travels, OfPath
<1>5. QED
  BY <1>2, <1>3, <1>4

(***************************************************************************)
(* Discover reads the path that was written.                               *)
(***************************************************************************)
LEMMA PathDiscovered == PathInv /\ Discover => PathInv'
<1> SUFFICES ASSUME PathInv, Discover PROVE PathInv'
  OBVIOUS
<1> DEFINE r == DiscoveryStreamFrom(Reading(NewDiscovery, frame))
<1>1. stage = "wire" /\ Travels(origin) /\ origin' = origin
  BY DEF Discover
<1>2. (stage' = "relayed" /\ object' = r.p) \/ (stage' = "dropped" /\ object' = object)
  BY Zenon DEF Discover
<1>3. OnTheWire(object, frame) /\ OfPath(object)
  BY <1>1 DEF PathInv, OnTheWire
<1>4. r.p = object
  BY <1>3, PathRead
<1>5. object' = object
  BY <1>2, <1>4
<1> HIDE DEF r
<1>6. QED
  BY <1>1, <1>2, <1>3, <1>5 DEF PathInv, Classed, Travels, OfPath

(***************************************************************************)
(* The next datapath goes on with the path it has read.                    *)
(***************************************************************************)
LEMMA PathGoesOn == PathInv /\ GoesOn => PathInv'
<1> SUFFICES ASSUME PathInv, GoesOn PROVE PathInv'
  OBVIOUS
<1>1. stage = "relayed" /\ Travels(object) /\ stage' = "built" /\ origin' = object /\
      object' = object
  BY DEF GoesOn, Travels
<1>2. OfPath(object) /\ Classed(object)
  BY <1>1 DEF PathInv
<1>3. QED
  BY <1>1, <1>2 DEF PathInv, Classed, Travels, OfPath

(***************************************************************************)
(* Report writes the path into JSON.                                       *)
(***************************************************************************)
LEMMA PathReported == PathInv /\ Report => PathInv'
<1> SUFFICES ASSUME PathInv, Report PROVE PathInv'
  OBVIOUS
<1> DEFINE p == Summed(object)
<1>1. stage = "relayed" /\ stage' = "json" /\ object' = p /\ origin' = p
  BY DEF Report
<1>2. CASE ~Travels(object)
  <2>1. Alike(object, p)
    BY <1>2, AlikePrepared DEF Travels
  <2>2. Classed(p) /\ ~Travels(p)
    BY <1>2, <2>1, ClassedOtherwise DEF PathInv
  <2> HIDE DEF p
  <2>3. QED
    BY <1>1, <2>2 DEF PathInv, Classed, Travels
<1>3. CASE Travels(object)
  <2>1. p = object
    BY <1>3 DEF Summed, Travels
  <2>2. json' = ToJson(object)
    BY <1>3, <2>1 DEF Report, Travels
  <2>3. OfPath(object) /\ Classed(object)
    BY <1>1, <1>3 DEF PathInv
  <2>4. ToJson(object).paths = PathsOf(object)
    <3> DEFINE f == SectionsToJson(object)
               g == [paths |-> PathsOf(object)]
    <3>1. ToJson(object) = Joined(f, g)
      BY <1>3, Zenon DEF ToJson, Travels
    <3>2. DOMAIN f = {"top"}
      BY <1>3 DEF SectionsToJson, SectionsOf, Travels
    <3>3. DOMAIN g = {"paths"} /\ g.paths = PathsOf(object)
      OBVIOUS
    <3> HIDE DEF f, g
    <3>4. Joined(f, g).paths = g.paths
      BY <3>2, <3>3 DEF Joined
    <3>5. QED
      BY <3>1, <3>3, <3>4
  <2> HIDE DEF p
  <2>5. json'.paths = PathsOf(object') /\ object' = object /\ origin' = object
    BY <1>1, <2>1, <2>2, <2>4
  <2>6. QED
    BY <1>1, <1>3, <2>3, <2>5 DEF PathInv, Classed, Travels, OfPath
<1>4. QED
  BY <1>2, <1>3

(***************************************************************************)
(* ReadJson reads a path from it, and makes no discovery packet of other   *)
(* values.                                                                 *)
(***************************************************************************)
LEMMA PathReadJson == PathInv /\ ReadJson => PathInv'
<1> SUFFICES ASSUME PathInv, ReadJson PROVE PathInv'
  OBVIOUS
<1>1. stage = "json" /\ origin' = origin
  BY DEF ReadJson
<1>2. CASE Travels(object)
  <2> DEFINE q == DiscoveryFromJson(NewDiscovery, json)
  <2>1. stage' = "read" /\ object' = FromJson(NewDiscovery, json)
    BY <1>2 DEF ReadJson, Travels
  <2>2. NewDiscovery.class = "Discovery"
    BY NewDiscoveryFits DEF DPacket
  <2>3. object' = q
    BY <2>1, <2>2 DEF FromJson
  <2>4. OfPath(object) /\ json.paths = PathsOf(object)
    BY <1>1, <1>2 DEF PathInv
  <2>5. object.m_links \in Seq(AllLinks) /\ Connected(object.m_links)
    BY <2>4 DEF OfPath, DPacket
  <2>6. q.class = "Discovery" /\ Follows(q.m_links, object.m_links)
    BY <2>4, <2>5, DiscoveryFromJsonFollows
  <2>7. Classed(q)
    <3> DEFINE links == NewDiscovery.m_links \o LinksFromJson(json.paths)
    <3>1. DOMAIN q = DOMAIN NewDiscovery
      BY Zenon DEF DiscoveryFromJson, Assigned
    <3>2. DOMAIN NewDiscovery = DiscoveryNames
      BY NewDiscoveryFits, FunctionDomain DEF DPacket
    <3>3. QED
      BY <3>1, <3>2, NamesOfDiscovery DEF Classed
  <2> HIDE DEF q
  <2>8. OfPaths(q)
    BY <2>5, <2>6, FollowersConnected DEF OfPaths, Follows
  <2>9. QED
    BY <1>1, <2>1, <2>3, <2>7, <2>8 DEF PathInv, Classed, OfPaths
<1>3. CASE ~Travels(object) /\ "type" \notin DOMAIN json
  <2>1. stage' = "refused" /\ object' = object
    BY <1>3 DEF ReadJson, Travels
  <2>2. QED
    BY <1>1, <1>3, <2>1 DEF PathInv, Classed, Travels
<1>4. CASE ~Travels(object) /\ "type" \in DOMAIN json
  <2> DEFINE n == New(JsonClass(json))
  <2>1. stage' = "read" /\ object' = FromJson(n, json)
    BY <1>4 DEF ReadJson, Travels
  <2>2. Classed(n) /\ ~Travels(n) /\ n.class \in Classes
    BY ClassesFound, NewOtherwise
  <2> HIDE DEF n
  <2>3. HasClass(FromJson(n, json), n.class)
    BY <2>2, AlikeFromJson DEF HasClass, Classed, Travels
  <2>4. Classed(object') /\ ~Travels(object')
    BY <2>1, <2>2, <2>3 DEF HasClass, Classed, Travels
  <2>5. QED
    BY <1>1, <2>1, <2>4 DEF PathInv, Classed, Travels
<1>5. QED
  BY <1>2, <1>3, <1>4

(***************************************************************************)
(* A step that changes nothing keeps the invariant.                        *)
(***************************************************************************)
LEMMA PathStays == PathInv /\ UNCHANGED vars => PathInv'
BY Zenon DEF PathInv, vars, Classed, Travels, OfPath, OfPaths, OnTheWire

(***************************************************************************)
(* With the invariant the links are a path, and the loop at a datapath     *)
(* starts there.                                                           *)
(***************************************************************************)
LEMMA PathInvShows == PathInv => PathConnected
<1> SUFFICES ASSUME PathInv, Travels(object) PROVE PathConnected
  BY Zenon DEF PathConnected
<1>1. OfPaths(object)
  <2>1. CASE stage = "read"
    BY <2>1 DEF PathInv
  <2>2. CASE stage # "read"
    <3>1. OfPath(object)
      BY <2>2 DEF PathInv
    <3>2. QED
      BY <3>1 DEF OfPath, OfPaths, DPacket
  <2>3. QED
    BY <2>1, <2>2
<1>2. PICK S : object.m_links \in Seq(S)
  BY <1>1 DEF OfPaths
<1>3. \A dp \in Dps : GetLoopList(object, dp) # <<>> =>
        GetLoopList(object, dp)[1].src.dpit = dp /\ IsHaveTheDP(object, dp)
  BY <1>2, LoopStarts
<1>4. Connected(object.m_links)
  BY <1>1 DEF OfPaths
<1>5. QED
  BY <1>3, <1>4, Zenon DEF PathConnected, Connected

(***************************************************************************)
(* For packets of any datapaths, ports and costs, with any number of links *)
(* that 16 bits can count: the links of a discovery packet are a path at   *)
(* every datapath it comes to and at the controller, and the loop found at *)
(* a datapath starts there (PathConnected).                                *)
(***************************************************************************)
THEOREM PathsStayConnected == Spec => []PathConnected
<1>1. Init => PathInv
  BY PathStarts
<1>2. PathInv /\ [Next]_vars => PathInv'
  BY PathBuiltTags, PathBuiltFields, PathBuiltLink, PathCopied, PathEncoded, PathTakenIn,
       PathDiscovered,
     PathGoesOn, PathReported, PathReadJson, PathStays, Zenon DEF Next
<1>3. PathInv => PathConnected
  BY PathInvShows
<1>4. QED
  BY <1>1, <1>2, <1>3, PTL DEF Spec

-----------------------------------------------------------------------------
(***************************************************************************)
(* The classes of packets but for the discovery packet, whose proofs are   *)
(* about its path.                                                         *)
(***************************************************************************)
Others == Classes \ {"Discovery"}

(***************************************************************************)
(* Those derived from IPPacket.                                            *)
(***************************************************************************)
IPClasses == {"UnknownIP", "UnknownTCP", "UnknownUDP", "ICMP"}

(***************************************************************************)
(* The fields of each class, and their values.                             *)
(***************************************************************************)
FieldTypes(class) ==
  CASE class = "ARP" -> ARPTypes [] class = "STP" -> STPTypes [] class = "LinkData" -> LinkTypes
    [] class = "DS" -> DSTypes [] class = "LLDP" -> LLDPTypes
    [] class = "UnknownEthernet" -> UnknownTypes [] class = "UnknownIP" -> UnknownIPTypes
    [] class = "UnknownTCP" -> TCPTypes [] class = "UnknownUDP" -> UDPTypes
    [] class = "ICMP" -> ICMPTypes

(***************************************************************************)
(* Case by case.                                                           *)
(***************************************************************************)
LEMMA EachFieldTypes ==
  /\ FieldTypes("ARP") = ARPTypes /\ FieldTypes("STP") = STPTypes /\
       FieldTypes("LinkData") = LinkTypes
  /\ FieldTypes("DS") = DSTypes /\ FieldTypes("LLDP") = LLDPTypes
  /\ FieldTypes("UnknownEthernet") = UnknownTypes
  /\ FieldTypes("UnknownIP") = UnknownIPTypes /\ FieldTypes("UnknownTCP") = TCPTypes
  /\ FieldTypes("UnknownUDP") = UDPTypes /\ FieldTypes("ICMP") = ICMPTypes
  BY DEF FieldTypes

(***************************************************************************)
(* Each has the fields of EthernetPacket, and those derived from IPPacket  *)
(* have its fields.                                                        *)
(***************************************************************************)
LEMMA FieldTypesHave ==
  /\ \A c \in Others : /\ EtherIn(FieldTypes(c)) /\ "class" \in DOMAIN FieldTypes(c)
                       /\ FieldTypes(c)["class"] = {c}
  /\ \A c \in IPClasses : IPIn(FieldTypes(c)) /\ c \in Others
<1>1. \A c \in Others : c \in {"ARP", "STP", "LinkData", "DS", "LLDP", "UnknownEthernet"} \/
      c \in IPClasses
  BY DEF Others, Classes, IPClasses
<1>2. ASSUME NEW c \in {"ARP", "STP", "LinkData", "DS", "LLDP", "UnknownEthernet"}
      PROVE  EtherIn(FieldTypes(c)) /\ "class" \in DOMAIN FieldTypes(c) /\
               FieldTypes(c)["class"] = {c}
  BY EachFieldTypes, ARPTypesHave, STPTypesHave, LinkTypesHave, DSTypesHave, LLDPTypesHave,
       UnknownTypesHave
<1>3. ASSUME NEW c \in IPClasses
      PROVE  IPIn(FieldTypes(c)) /\ "class" \in DOMAIN FieldTypes(c) /\ FieldTypes(c)["class"] = {c}
  BY EachFieldTypes, UnknownIPTypesHave, TCPTypesHave, UDPTypesHave, ICMPTypesHave DEF IPClasses
<1>4. ASSUME NEW c \in IPClasses
      PROVE  EtherIn(FieldTypes(c)) /\ c \in Others
  BY <1>3 DEF IPIn, IPClasses, Others, Classes
<1> QED  BY <1>1, <1>2, <1>3, <1>4

(***************************************************************************)
(* p has the fields of its class, with values of their types: the size of  *)
(* a payload counts no more than it has, and the options of TCP fit their  *)
(* words.                                                                  *)
(***************************************************************************)
Made(p) ==
  /\ p.class \in Others /\ Of(p, FieldTypes(p.class))
  /\ p.class \in {"STP", "LinkData"} => DataHeld(p)
  /\ p.class = "UnknownTCP" => TCPShape(p)

(***************************************************************************)
(* An LLDP packet also counts what was set.                                *)
(***************************************************************************)
Counts(p) == Made(p) /\ (p.class = "LLDP" => Counted(p))

(***************************************************************************)
(* The fields that Made and Counted depend on.                             *)
(***************************************************************************)
OwnFields ==
  {"class", "datasize", "data", "tcpdataOffset", "tcpoptions",
   "chassisId", "portId", "ttl", "optionalTLVList", "len"}

(***************************************************************************)
(* The class of such a packet.                                             *)
(***************************************************************************)
LEMMA ClassOfTyped ==
  ASSUME NEW c \in Others, NEW p, Of(p, FieldTypes(c))
  PROVE  p.class = c /\ Classed(p)
<1>1. "class" \in DOMAIN FieldTypes(c) /\ FieldTypes(c)["class"] = {c}
  BY FieldTypesHave
<1>2. "class" \in DOMAIN p  BY <1>1, OfDomain
<1> QED  BY <1>1, <1>2 DEF Of, Classed

(***************************************************************************)
(* Setting other fields keeps it.                                          *)
(***************************************************************************)
LEMMA CountsKept ==
  ASSUME NEW p, Counts(p), NEW q, NEW X, Sets(p, q, X, FieldTypes(p.class)), X \cap OwnFields = {}
  PROVE  Counts(q) /\ q.class = p.class
<1> DEFINE T == FieldTypes(p.class)
<1>1. p.class \in Others /\ Of(p, T) /\ Of(q, T)  BY DEF Counts, Made, Sets
<1>2. q.class = p.class  BY <1>1, ClassOfTyped
<1>3. ASSUME NEW x \in OwnFields, x \in DOMAIN T
      PROVE  q[x] = p[x]
  BY <1>3 DEF Sets
<1>4. ASSUME p.class \in {"STP", "LinkData"}
      PROVE  DataHeld(q)
  <2>1. DataIn(T)  BY <1>4, EachFieldTypes, STPTypesHave, LinkTypesHave
  <2>2. q["datasize"] = p["datasize"] /\ q["data"] = p["data"]  BY <2>1, <1>3 DEF DataIn, OwnFields
  <2>3. DataHeld(p)  BY <1>4 DEF Counts, Made
  <2> QED  BY <2>2, <2>3 DEF DataHeld
<1>5. ASSUME p.class = "UnknownTCP"
      PROVE  TCPShape(q)
  <2>1. Sets(p, q, X, TCPTypes)  BY <1>5, EachFieldTypes
  <2>2. X \cap TCPExtraNames = {}  BY DEF OwnFields, TCPExtraNames
  <2> QED  BY <1>5, <2>1, <2>2, ShapeKept DEF Counts, Made
<1>6. ASSUME p.class = "LLDP"
      PROVE  Counted(q)
  <2>1. LLDPIn(T)  BY <1>6, EachFieldTypes, LLDPTypesHave
  <2>2. /\ q["chassisId"] = p["chassisId"] /\ q["portId"] = p["portId"] /\ q["ttl"] = p["ttl"]
        /\ q["optionalTLVList"] = p["optionalTLVList"] /\ q["len"] = p["len"]
    BY <2>1, <1>3 DEF LLDPIn, OwnFields, Three
  <2>3. Counted(p)  BY <1>6 DEF Counts
  <2> QED  BY <2>2, <2>3 DEF Counted
<1> QED  BY <1>1, <1>2, <1>4, <1>5, <1>6 DEF Counts, Made

-----------------------------------------------------------------------------

(***************************************************************************)
(* Tags set the fields of the tags.                                        *)
(***************************************************************************)
LEMMA TagsSet ==
  ASSUME NEW T, EtherIn(T), NEW p, Of(p, T), NEW tags \in Tagged
  PROVE  Sets(p, Joined(tags, p), TagFields, T)
<1> DEFINE j == Joined(tags, p)
<1>1. \A x \in DOMAIN tags : x \in TagFields /\ tags[x] \in IF x \in Priorities THEN Byte ELSE Short
  BY TagAssumption
<1>2. TagFields \subseteq DOMAIN T /\
      \A x \in TagFields : T[x] = IF x \in Priorities THEN Byte ELSE Short
  BY DEF TagFields, Priorities, EtherIn, EtherFields
<1>3. Function(p, DOMAIN T) /\ DOMAIN p = DOMAIN T  BY OfDomain DEF Of
<1>4. /\ Function(j, DOMAIN tags \cup DOMAIN p)
      /\ \A x \in DOMAIN tags : j[x] = tags[x]
      /\ \A x \in DOMAIN p \ DOMAIN tags : j[x] = p[x]
  BY JoinedIs
<1> HIDE DEF j
<1>5. DOMAIN tags \cup DOMAIN p = DOMAIN T  BY <1>1, <1>2, <1>3
<1>6. Function(j, DOMAIN T)  BY <1>4, <1>5
<1>7. \A x \in DOMAIN T : j[x] \in T[x]
  <2> TAKE x \in DOMAIN T
  <2>1. CASE x \in DOMAIN tags  BY <2>1, <1>1, <1>2, <1>4
  <2>2. CASE x \notin DOMAIN tags  BY <2>2, <1>3, <1>4 DEF Of
  <2> QED  BY <2>1, <2>2
<1>8. \A x \in DOMAIN T \ TagFields : j[x] = p[x]  BY <1>1, <1>3, <1>4
<1> QED  BY <1>6, <1>7, <1>8 DEF Sets, Of, j

(***************************************************************************)
(* A packet with other tags counts.                                        *)
(***************************************************************************)
LEMMA TagsCount ==
  ASSUME NEW p, Counts(p), NEW tags \in Tagged
  PROVE  Counts(Joined(tags, p))
<1>1. EtherIn(FieldTypes(p.class)) /\ Of(p, FieldTypes(p.class))  BY FieldTypesHave DEF Counts, Made
<1>2. TagFields \cap OwnFields = {}  BY DEF TagFields, OwnFields
<1> QED  BY <1>1, <1>2, TagsSet, CountsKept

(***************************************************************************)
(* So does one with another payload, of any length.                        *)
(***************************************************************************)
LEMMA PayloadCounts ==
  ASSUME NEW p, Counts(p), NEW data \in Seq(Byte)
  PROVE  /\ p.class \in {"STP", "LinkData"} => Counts(SetPayload(p, data))
         /\ p.class = "UnknownEthernet" \/ IsIP(p) => Counts(SetAppPayload(p, data))
<1> DEFINE T == FieldTypes(p.class)
<1>1. p.class \in Others /\ Of(p, T)  BY DEF Counts, Made
<1>2. ASSUME p.class \in {"STP", "LinkData"}
      PROVE  Counts(SetPayload(p, data))
  <2>1. DataIn(T)  BY <1>2, EachFieldTypes, STPTypesHave, LinkTypesHave
  <2>2. Of(SetPayload(p, data), T) /\ DataHeld(SetPayload(p, data))  BY <1>1, <2>1, SetPayloadOf
  <2>3. SetPayload(p, data).class = p.class  BY <1>1, <2>2, ClassOfTyped
  <2> QED  BY <1>1, <1>2, <2>2, <2>3 DEF Counts, Made
<1>3. ASSUME p.class = "UnknownEthernet" \/ IsIP(p)
      PROVE  Counts(SetAppPayload(p, data))
  <2>1. PayloadIn(T)
    BY <1>3, EachFieldTypes, UnknownTypesHave, FieldTypesHave, IPPayloadIn DEF IsIP, IPClasses
  <2>2. {"etherpayload"} \cap OwnFields = {}  BY DEF OwnFields
  <2> QED  BY <1>1, <2>1, <2>2, PayloadSets, CountsKept
<1> QED  BY <1>2, <1>3

(***************************************************************************)
(* So does one with options or another service.                            *)
(***************************************************************************)
LEMMA OptionsCount ==
  ASSUME NEW p, Counts(p), IsIP(p), NEW data \in OptionBytes
  PROVE  /\ Counts(SetOption(p, data))
         /\ p.class = "UnknownTCP" /\ data # <<>> =>
              Counts([SetTCPOption(p, data) EXCEPT !.tcpchecksum = 1])
         /\ \A s \in Nat : Counts(setDscp(p, s)) /\ Counts(setEcn(p, s))
<1> DEFINE T == FieldTypes(p.class)
<1>1. p.class \in Others /\ Of(p, T) /\ IPIn(T)
  BY FieldTypesHave DEF Counts, Made, IsIP, IPClasses
<1>2. Counts(SetOption(p, data))
  <2>1. {"options"} \cap OwnFields = {}  BY DEF OwnFields
  <2> QED  BY <1>1, <2>1, SetOptionOf, CountsKept
<1>3. ASSUME NEW s \in Nat
      PROVE  Counts(setDscp(p, s)) /\ Counts(setEcn(p, s))
  <2>1. {"diffServ"} \cap OwnFields = {}  BY DEF OwnFields
  <2> QED  BY <1>1, <2>1, ServiceOf, CountsKept
<1>4. ASSUME p.class = "UnknownTCP", data # <<>>
      PROVE  Counts([SetTCPOption(p, data) EXCEPT !.tcpchecksum = 1])
  <2> DEFINE q == [SetTCPOption(p, data) EXCEPT !.tcpchecksum = 1]
  <2>1. T = TCPTypes  BY <1>4, EachFieldTypes
  <2>2. Of(q, TCPTypes) /\ TCPShape(q)  BY <1>1, <1>4, <2>1, SetTCPOptionOf
  <2> HIDE DEF q
  <2>3. q.class = "UnknownTCP"  BY <1>1, <1>4, <2>1, <2>2, ClassOfTyped
  <2>4. Counts(q)  BY <1>1, <1>4, <2>1, <2>2, <2>3 DEF Counts, Made
  <2> QED  BY <2>4 DEF q
<1> QED  BY <1>2, <1>3, <1>4

(***************************************************************************)
(* So does one with a TLV more.                                            *)
(***************************************************************************)
LEMMA TLVsCount ==
  ASSUME NEW p, Counts(p), p.class = "LLDP"
  PROVE  /\ \A x \in Three, t \in TLVType : p[x].type = 0 /\ t.type # 0 =>
              Counts(SetMandatory(p, x, t))
         /\ \A t \in TLVType : Counts(addOptionalTLV(p, t))
<1>1. p.class \in Others /\ Of(p, LLDPTypes) /\ Counted(p)  BY EachFieldTypes DEF Counts, Made
<1>2. FieldTypes("LLDP") = LLDPTypes /\ "LLDP" \in Others  BY <1>1, EachFieldTypes
<1>3. ASSUME NEW q, Of(q, LLDPTypes), Counted(q)
      PROVE  Counts(q)
  <2>1. q.class = "LLDP"  BY <1>2, <1>3, ClassOfTyped
  <2> QED  BY <1>2, <1>3, <2>1 DEF Counts, Made
<1> QED  BY <1>1, <1>3, SetMandatoryOf, addOptionalTLVOf

-----------------------------------------------------------------------------
(***************************************************************************)
(* A new LinkData packet has no payload.                                   *)
(***************************************************************************)
LEMMA NewLinkDataHolds == DataHeld(NewLinkData)
<1> DEFINE e == NewEthernet("LinkData", LinkDataType)
           c == Cleared(LinkHead)
           j == Joined(c, NoData)
<1>1. DOMAIN e = EtherFields \cup {"class"}
  BY DEF NewEthernet, EtherFields
<1>2. DOMAIN c = LinkFields
  BY LinkHeadIs DEF Cleared, LinkFields
<1>3. NewLinkData = Joined(e, j)
  BY Zenon DEF NewLinkData
<1> HIDE DEF e, c
<1>4. DOMAIN NoData = {"datasize", "data"}
  BY DEF NoData
<1> HIDE DEF j
<1>5. DOMAIN j = DOMAIN c \cup DOMAIN NoData /\ \A x \in DOMAIN NoData \ DOMAIN c : j[x] = NoData[x]
  <2>1. DOMAIN Joined(c, NoData) = DOMAIN c \cup DOMAIN NoData
    BY JoinedIs
  <2>2. \A x \in DOMAIN NoData \ DOMAIN c : Joined(c, NoData)[x] = NoData[x]
    BY JoinedIs
  <2> QED  BY <2>1, <2>2 DEF j
<1>6. \A x \in DOMAIN j \ DOMAIN e : NewLinkData[x] = j[x]
  <2>1. \A x \in DOMAIN j \ DOMAIN e : Joined(e, j)[x] = j[x]
    BY JoinedIs
  <2> QED  BY <2>1, <1>3
<1>7. ASSUME NEW x \in {"datasize", "data"}
      PROVE  NewLinkData[x] = NoData[x]
  <2>1. x \in DOMAIN NoData \ DOMAIN c /\ x \notin DOMAIN e
    BY <1>1, <1>2, <1>4 DEF LinkFields, EtherFields
  <2> QED  BY <2>1, <1>5, <1>6
<1>8. NewLinkData["datasize"] = NoData["datasize"] /\ NewLinkData["data"] = NoData["data"]
  BY <1>7
<1> QED  BY <1>8, NoDataOf DEF DataHeld

(***************************************************************************)
(* What the constructor of each class makes.                               *)
(***************************************************************************)
LEMMA EachNew ==
  /\ New("ARP") = NewARP /\ New("STP") = NewSTP /\ New("LinkData") = NewLinkData
  /\ New("DS") = NewDS /\ New("LLDP") = NewLLDP /\ New("UnknownEthernet") = NewUnknownEthernet
  /\ New("UnknownIP") = NewUnknownIP /\ New("UnknownTCP") = NewUnknownTCP
  /\ New("UnknownUDP") = NewUnknownUDP /\ New("ICMP") = NewICMP
  BY DEF New

(***************************************************************************)
(* It has the fields of its class.                                         *)
(***************************************************************************)
LEMMA NewCounts ==
  ASSUME NEW c \in Others
  PROVE  /\ Counts(New(c)) /\ New(c).class = c
         /\ c = "UnknownTCP" => New(c).tcpoptions = <<>>
         /\ c = "ICMP" => Paid(New(c))
<1>1. c \in {"ARP", "STP", "LinkData", "DS", "LLDP", "UnknownEthernet", "UnknownIP", "UnknownTCP",
             "UnknownUDP", "ICMP"}
  BY DEF Others, Classes
<1>2. Of(New(c), FieldTypes(c))
  BY <1>1, EachNew, EachFieldTypes, NewARPOf, NewSTPOf, NewLinkDataOf, NewDSOf, NewLLDPOf,
     NewUnknownEthernetOf, NewUnknownIPOf, NewUnknownTCPOf, NewUnknownUDPOf, NewICMPOf
<1>3. New(c).class = c
  BY <1>2, ClassOfTyped
<1>4. /\ c \in {"STP", "LinkData"} => DataHeld(New(c))
      /\ c = "UnknownTCP" => TCPShape(New(c)) /\ New(c).tcpoptions = <<>>
      /\ c = "LLDP" => Counted(New(c))
      /\ c = "ICMP" => Paid(New(c))
  BY EachNew, NewSTPOf, NewLinkDataHolds, NewUnknownTCPOf, NewLLDPOf, NewICMPOf
<1> QED  BY <1>2, <1>3, <1>4 DEF Counts, Made

(***************************************************************************)
(* Put sets one field.                                                     *)
(***************************************************************************)
LEMMA PutSets ==
  ASSUME NEW T, NEW p, Of(p, T), NEW x, NEW v, Room(T, x, v)
  PROVE  Sets(p, Put(p, x, v), {x}, T)
  BY PutOf DEF Sets

(***************************************************************************)
(* One setting behind another.                                             *)
(***************************************************************************)
LEMMA SetsOn ==
  ASSUME NEW T, NEW p, NEW q, NEW s, NEW X, NEW Y, Sets(p, q, X, T), Sets(q, s, Y, T)
  PROVE  Sets(p, s, X \cup Y, T)
  BY DEF Sets

(***************************************************************************)
(* What the callers set behind the constructor leaves these fields.        *)
(***************************************************************************)
LEMMA StartedCounts ==
  ASSUME NEW c \in Others
  PROVE  Counts(Started(c)) /\ Started(c).class = c
<1> DEFINE n == New(c)
           T == FieldTypes(c)
<1>1. Counts(n) /\ n.class = c /\ Of(n, T)
  BY NewCounts DEF Counts, Made
<1>2. EtherIn(T) /\ (c \in IPClasses => IPIn(T))
  BY FieldTypesHave
<1>3. ASSUME NEW q, NEW X, Sets(n, q, X, T), X \cap OwnFields = {}
      PROVE  Counts(q) /\ q.class = c
  BY <1>1, <1>3, CountsKept
<1>4. CASE c = "UnknownTCP"
  <2> DEFINE a == Put(n, "protocol", 6)
             s == <<10, 0, 0, 1>>
  <2>1. Started(c) = Put(a, "sourceAddress", s)
    <3>1. Started("UnknownTCP") = [New("UnknownTCP") EXCEPT !.protocol = 6, !.sourceAddress = s]
      BY SMT DEF Started
    <3>2. Started(c) = [n EXCEPT !.protocol = 6, !.sourceAddress = s]
      BY <3>1, <1>4
    <3> HIDE DEF n, s
    <3> QED  BY <3>2, Zenon DEF Put
  <2>2. 6 \in Byte /\ s \in [1..4 -> Byte]
    BY DEF Byte
  <2> HIDE DEF n, s
  <2>3. Room(T, "protocol", 6) /\ Room(T, "sourceAddress", s)
    BY <1>2, <1>4, <2>2, IPRoom DEF IPClasses
  <2>4. Sets(n, a, {"protocol"}, T)
    BY <1>1, <2>3, PutSets
  <2>5. Sets(a, Put(a, "sourceAddress", s), {"sourceAddress"}, T)
    BY <2>3, <2>4, PutSets DEF Sets
  <2>6. Sets(n, Started(c), {"protocol"} \cup {"sourceAddress"}, T)
    BY <2>1, <2>4, <2>5, SetsOn
  <2>7. ({"protocol"} \cup {"sourceAddress"}) \cap OwnFields = {}
    BY DEF OwnFields
  <2> QED  BY <2>6, <2>7, <1>3
<1>5. CASE c = "UnknownIP"
  <2> DEFINE a == Put(n, "protocol", 2)
  <2>1. Started(c) = Put(a, "flags", 2)
    <3>1. Started("UnknownIP") = [New("UnknownIP") EXCEPT !.protocol = 2, !.flags = 2]
      BY SMT DEF Started
    <3>2. Started(c) = [n EXCEPT !.protocol = 2, !.flags = 2]
      BY <3>1, <1>5
    <3> HIDE DEF n
    <3> QED  BY <3>2, Zenon DEF Put
  <2>2. 2 \in Byte /\ 2 \in Nibble
    BY DEF Byte, Nibble
  <2> HIDE DEF n
  <2>3. Room(T, "protocol", 2) /\ Room(T, "flags", 2)
    BY <1>2, <1>5, <2>2, IPRoom DEF IPClasses
  <2>4. Sets(n, a, {"protocol"}, T)
    BY <1>1, <2>3, PutSets
  <2>5. Sets(a, Put(a, "flags", 2), {"flags"}, T)
    BY <2>3, <2>4, PutSets DEF Sets
  <2>6. Sets(n, Started(c), {"protocol"} \cup {"flags"}, T)
    BY <2>1, <2>4, <2>5, SetsOn
  <2>7. ({"protocol"} \cup {"flags"}) \cap OwnFields = {}
    BY DEF OwnFields
  <2> QED  BY <2>6, <2>7, <1>3
<1>6. CASE c = "UnknownEthernet"
  <2> DEFINE v == \h86dd
  <2>1. v \in Short
    BY SMT DEF Short
  <2>2. Started(c) = [n EXCEPT !.ethtype = v]
    BY <1>6, SMT DEF Started
  <2> HIDE DEF n, v
  <2>3. Started(c) = Put(n, "ethtype", v)
    BY <2>2, Zenon DEF Put
  <2>4. Room(T, "ethtype", v)
    BY <1>2, <2>1, EtherRoom
  <2>5. {"ethtype"} \cap OwnFields = {}
    BY DEF OwnFields
  <2> QED  BY <1>1, <1>3, <2>3, <2>4, <2>5, PutSets
<1>7. CASE c \notin {"UnknownTCP", "UnknownIP", "UnknownEthernet"}
  <2>1. Started(c) = n
    BY <1>7 DEF Started, Others
  <2> QED  BY <1>1, <2>1
<1> QED  BY <1>4, <1>5, <1>6, <1>7

-----------------------------------------------------------------------------
(***************************************************************************)
(* A packet that can be encoded: an IP packet has a payload.               *)
(***************************************************************************)
Ready(p) == Made(p) /\ (IsIP(p) => Paid(p))

(***************************************************************************)
(* Its options fill their words and its length counts all its TLVs, as     *)
(* those do that were read from bytes.                                     *)
(***************************************************************************)
Fills(p) ==
  /\ p.class = "UnknownTCP" => TCPFull(p)
  /\ p.class = "LLDP" => Full(p)

(***************************************************************************)
(* The length of an LLDP packet never counts more than it writes.          *)
(***************************************************************************)
Under(p) ==
  p.class = "LLDP" => p.len <= SumOfLens(p.optionalTLVList) + MandatoryLen(p)

(***************************************************************************)
(* Ready, for a class that is known.                                       *)
(***************************************************************************)
ReadyOf(c, p) ==
  /\ Of(p, FieldTypes(c))
  /\ c \in {"STP", "LinkData"} => DataHeld(p)
  /\ c = "UnknownTCP" => TCPShape(p)
  /\ c \in IPClasses => Paid(p)

(***************************************************************************)
(* The two agree.                                                          *)
(***************************************************************************)
LEMMA ReadyBy ==
  /\ \A c \in Others : \A p : ReadyOf(c, p) => Ready(p) /\ p.class = c
  /\ \A p : Ready(p) => p.class \in Others /\ ReadyOf(p.class, p)
  /\ \A p : Counts(p) => Made(p) /\ p.class \in Others
<1>1. ASSUME NEW c \in Others, NEW p, ReadyOf(c, p)
      PROVE  Ready(p) /\ p.class = c
  <2>1. p.class = c  BY <1>1, ClassOfTyped DEF ReadyOf
  <2> QED  BY <1>1, <2>1 DEF ReadyOf, Ready, Made, IsIP, IPClasses
<1>2. ASSUME NEW p, Ready(p)
      PROVE  p.class \in Others /\ ReadyOf(p.class, p)
  BY <1>2 DEF ReadyOf, Ready, Made, IsIP, IPClasses
<1> QED  BY <1>1, <1>2 DEF Counts, Made

(***************************************************************************)
(* The classes, one by one.                                                *)
(***************************************************************************)
LEMMA EachClass ==
  /\ Others = {"ARP", "STP", "LinkData", "DS", "LLDP", "UnknownEthernet"} \cup IPClasses
  /\ IPClasses = {"UnknownIP", "UnknownTCP", "UnknownUDP", "ICMP"}
  BY DEF Others, Classes, IPClasses

(***************************************************************************)
(* What the virtual StreamFrom of each class is.                           *)
(***************************************************************************)
LEMMA EachStreamFrom ==
  ASSUME NEW r
  PROVE  /\ r.p.class = "ARP" => StreamFrom(r) = ARPStreamFrom(r)
         /\ r.p.class = "STP" => StreamFrom(r) = STPStreamFrom(r)
         /\ r.p.class = "LinkData" => StreamFrom(r) = LinkDataStreamFrom(r)
         /\ r.p.class = "DS" => StreamFrom(r) = DSStreamFrom(r)
         /\ r.p.class = "LLDP" => StreamFrom(r) = LLDPStreamFrom(r)
         /\ r.p.class = "UnknownEthernet" => StreamFrom(r) = UnknownEthernetStreamFrom(r)
         /\ r.p.class = "UnknownIP" => StreamFrom(r) = UnknownIPStreamFrom(r)
         /\ r.p.class = "UnknownTCP" => StreamFrom(r) = UnknownTCPStreamFrom(r)
         /\ r.p.class = "UnknownUDP" => StreamFrom(r) = UnknownUDPStreamFrom(r)
         /\ r.p.class = "ICMP" => StreamFrom(r) = ICMPStreamFrom(r)
  BY DEF StreamFrom

(***************************************************************************)
(* Its StreamTo and its GetEncodeSpace.                                    *)
(***************************************************************************)
LEMMA EachStreamTo ==
  ASSUME NEW p
  PROVE  /\ p.class = "ARP" => StreamTo(p) = ARPStreamTo(p) /\ GetEncodeSpace(p) = ARPLen(p)
         /\ p.class = "STP" => StreamTo(p) = STPStreamTo(p) /\ GetEncodeSpace(p) = STPLen(p)
         /\ p.class = "LinkData" =>
              StreamTo(p) = LinkDataStreamTo(p) /\ GetEncodeSpace(p) = LinkDataLen(p)
         /\ p.class = "DS" => StreamTo(p) = DSStreamTo(p) /\ GetEncodeSpace(p) = DSLen(p)
         /\ p.class = "LLDP" => StreamTo(p) = LLDPStreamTo(p) /\ GetEncodeSpace(p) = LLDPLen(p)
         /\ p.class = "UnknownEthernet" =>
              StreamTo(p) = UnknownEthernetStreamTo(p) /\ GetEncodeSpace(p) = UnknownEthernetLen(p)
         /\ p.class = "UnknownIP" =>
              StreamTo(p) = UnknownIPStreamTo(p) /\ GetEncodeSpace(p) = UnknownIPLen(p)
         /\ p.class = "UnknownTCP" =>
              StreamTo(p) = UnknownTCPStreamTo(p) /\ GetEncodeSpace(p) = UnknownTCPLen(p)
         /\ p.class = "UnknownUDP" =>
              StreamTo(p) = UnknownUDPStreamTo(p) /\ GetEncodeSpace(p) = UnknownUDPLen(p)
         /\ p.class = "ICMP" => StreamTo(p) = ICMPStreamTo(p) /\ GetEncodeSpace(p) = ICMPLen(p)
  BY DEF StreamTo, GetEncodeSpace

(***************************************************************************)
(* What its Encode sets before it writes.                                  *)
(***************************************************************************)
LEMMA EachPrepared ==
  ASSUME NEW p
  PROVE  /\ p.class = "UnknownIP" => Prepared(p) = UnknownIPPrepared(p)
         /\ p.class = "UnknownTCP" => Prepared(p) = UnknownTCPPrepared(p)
         /\ p.class = "UnknownUDP" => Prepared(p) = UnknownUDPPrepared(p)
         /\ p.class = "ICMP" => Prepared(p) = ICMPPrepared(p)
         /\ p.class = "DS" => Prepared(p) = [p EXCEPT !.length = <<0, 0, 0, DSSize>>]
         /\ p.class \in {"ARP", "STP", "LinkData", "LLDP", "UnknownEthernet"} => Prepared(p) = p
<1>1. p.class = "DS" => Prepared(p) = [p EXCEPT !.length = <<0, 0, 0, DSSize>>]
  BY SMT DEF Prepared
<1> QED  BY <1>1 DEF Prepared

(***************************************************************************)
(* Whatever bytes a packet of any class is read from: where the stream     *)
(* stays good its fields have values of their types, it has a payload      *)
(* where one is written, its options fill the words of the header and its  *)
(* length counts its TLVs.                                                 *)
(***************************************************************************)
LEMMA ReadsReady ==
  ASSUME NEW c \in Others, NEW b \in Seq(Byte), StreamFrom(Reading(New(c), b)).good
  PROVE  /\ Ready(StreamFrom(Reading(New(c), b)).p) /\ StreamFrom(Reading(New(c), b)).p.class = c
         /\ Fills(StreamFrom(Reading(New(c), b)).p)
<1> DEFINE T == FieldTypes(c)
           r == Reading(New(c), b)
           s == StreamFrom(r)
<1>1. Of(New(c), T) /\ New(c).class = c /\ (c = "UnknownTCP" => New(c).tcpoptions = <<>>)
  BY NewCounts DEF Counts, Made
<1>2. Reads(r, T) /\ r.p = New(c)
  BY <1>1, ReadingOf
<1>3. s.good
  OBVIOUS
<1> HIDE DEF r
<1>4. /\ r.p.class = c
      /\ c = "UnknownTCP" => r.p.tcpoptions = <<>>
  BY <1>1, <1>2
<1> HIDE DEF s
<1>5. /\ Reads(s, T) /\ (c \in {"STP", "LinkData"} => DataHeld(s.p)) /\ (c = "LLDP" => Full(s.p))
      /\ (c \in IPClasses => Paid(s.p)) /\ (c = "UnknownTCP" => TCPFull(s.p))
  <2>1. CASE c = "ARP"
    <3>1. s = ARPStreamFrom(r) /\ T = ARPTypes  BY <1>4, <2>1, EachStreamFrom, EachFieldTypes DEF s
    <3> HIDE DEF T
    <3> QED  BY <1>2, <1>3, <1>4, <2>1, <3>1, ARPReads, EachClass
  <2>2. CASE c = "STP"
    <3>1. s = STPStreamFrom(r) /\ T = STPTypes  BY <1>4, <2>2, EachStreamFrom, EachFieldTypes DEF s
    <3> HIDE DEF T
    <3> QED  BY <1>2, <1>3, <1>4, <2>2, <3>1, STPReads, EachClass
  <2>3. CASE c = "LinkData"
    <3>1. s = LinkDataStreamFrom(r) /\
          T = LinkTypes  BY <1>4, <2>3, EachStreamFrom, EachFieldTypes DEF s
    <3> HIDE DEF T
    <3> QED  BY <1>2, <1>3, <1>4, <2>3, <3>1, LinkReads, EachClass
  <2>4. CASE c = "DS"
    <3>1. s = DSStreamFrom(r) /\ T = DSTypes  BY <1>4, <2>4, EachStreamFrom, EachFieldTypes DEF s
    <3> HIDE DEF T
    <3> QED  BY <1>2, <1>3, <1>4, <2>4, <3>1, DSReads, EachClass
  <2>5. CASE c = "LLDP"
    <3>1. s = LLDPStreamFrom(r) /\
          T = LLDPTypes  BY <1>4, <2>5, EachStreamFrom, EachFieldTypes DEF s
    <3> HIDE DEF T
    <3> QED  BY <1>2, <1>3, <1>4, <2>5, <3>1, LLDPReads, EachClass
  <2>6. CASE c = "UnknownEthernet"
    <3>1. s = UnknownEthernetStreamFrom(r) /\
          T = UnknownTypes  BY <1>4, <2>6, EachStreamFrom, EachFieldTypes DEF s
    <3> HIDE DEF T
    <3> QED  BY <1>2, <1>3, <1>4, <2>6, <3>1, UnknownReads, EachClass
  <2>7. CASE c = "UnknownIP"
    <3>1. s = UnknownIPStreamFrom(r) /\
          T = UnknownIPTypes  BY <1>4, <2>7, EachStreamFrom, EachFieldTypes DEF s
    <3> HIDE DEF T
    <3> QED  BY <1>2, <1>3, <1>4, <2>7, <3>1, UnknownIPReads, EachClass
  <2>8. CASE c = "UnknownTCP"
    <3>1. s = UnknownTCPStreamFrom(r) /\
          T = TCPTypes  BY <1>4, <2>8, EachStreamFrom, EachFieldTypes DEF s
    <3> HIDE DEF T
    <3> QED  BY <1>2, <1>3, <1>4, <2>8, <3>1, TCPReads, EachClass
  <2>9. CASE c = "UnknownUDP"
    <3>1. s = UnknownUDPStreamFrom(r) /\
          T = UDPTypes  BY <1>4, <2>9, EachStreamFrom, EachFieldTypes DEF s
    <3> HIDE DEF T
    <3> QED  BY <1>2, <1>3, <1>4, <2>9, <3>1, UDPReads, EachClass
  <2>10. CASE c = "ICMP"
    <3>1. s = ICMPStreamFrom(r) /\
          T = ICMPTypes  BY <1>4, <2>10, EachStreamFrom, EachFieldTypes DEF s
    <3> HIDE DEF T
    <3> QED  BY <1>2, <1>3, <1>4, <2>10, <3>1, ICMPReads, EachClass
  <2> QED  BY <2>1, <2>2, <2>3, <2>4, <2>5, <2>6, <2>7, <2>8, <2>9, <2>10, EachClass
<1>6. Of(s.p, T)  BY <1>5 DEF Reads
<1>7. c = "UnknownTCP" => TCPShape(s.p)
  BY <1>5, <1>6, TCPShapes, EachFieldTypes
<1>8. ReadyOf(c, s.p)  BY <1>5, <1>6, <1>7 DEF ReadyOf
<1>9. Ready(s.p) /\ s.p.class = c  BY <1>8, ReadyBy
<1>10. Fills(s.p)  BY <1>5, <1>9 DEF Fills
<1> QED  BY <1>9, <1>10 DEF s, r

-----------------------------------------------------------------------------
(***************************************************************************)
(* What Encode sets leaves a packet ready, and the space it takes.         *)
(***************************************************************************)
LEMMA PreparedReady ==
  ASSUME NEW p, Ready(p)
  PROVE  /\ Ready(Prepared(p)) /\ Prepared(p).class = p.class
         /\ GetEncodeSpace(Prepared(p)) = GetEncodeSpace(p)
         /\ Fills(p) => Fills(Prepared(p))
         /\ p.class = "UnknownTCP" => Prepared(p).tcpoptions = p.tcpoptions
         /\ p.class = "LLDP" => Prepared(p) = p
<1> DEFINE c == p.class
           T == FieldTypes(c)
           q == Prepared(p)
<1>1. c \in Others /\ ReadyOf(c, p) /\ Of(p, T)  BY ReadyBy DEF ReadyOf
<1>2. CASE c \in {"ARP", "STP", "LinkData", "LLDP", "UnknownEthernet"}
  <2>1. q = p  BY <1>2, EachPrepared
  <2> HIDE DEF q
  <2> QED  BY <2>1 DEF q
<1>3. CASE c = "DS"
  <2>1. Of(p, DSTypes) /\ T = DSTypes  BY <1>1, <1>3, EachFieldTypes
  <2> DEFINE d == [p EXCEPT !.length = <<0, 0, 0, DSSize>>]
  <2>2. Of(d, DSTypes) /\ EthernetLen(d) = EthernetLen(p)
    BY <2>1, DSPrepared
  <2>3. q = d  BY <1>3, EachPrepared
  <2> HIDE DEF d, q
  <2>4. ReadyOf(c, q)  BY <1>3, <2>1, <2>2, <2>3 DEF ReadyOf, IPClasses
  <2>5. Ready(q) /\ q.class = c  BY <1>1, <2>4, ReadyBy
  <2>6. GetEncodeSpace(q) = GetEncodeSpace(p)  BY <1>3, <2>2, <2>3, <2>5, EachStreamTo DEF DSLen
  <2>7. Fills(q)  BY <1>3, <2>5 DEF Fills
  <2> QED  BY <1>3, <2>5, <2>6, <2>7 DEF q
<1>4. CASE c = "UnknownIP"
  <2>1. Of(p, UnknownIPTypes) /\ T = UnknownIPTypes /\ Paid(p)
    BY <1>1, <1>4, EachFieldTypes DEF ReadyOf, IPClasses
  <2>2. q = UnknownIPPrepared(p)  BY <1>4, EachPrepared
  <2> HIDE DEF q
  <2>3. Of(q, UnknownIPTypes) /\ Paid(q) /\ UnknownIPLen(q) = UnknownIPLen(p)
    BY <2>1, <2>2, UnknownIPPreparedOf
  <2>4. ReadyOf(c, q)  BY <1>4, <2>1, <2>3 DEF ReadyOf
  <2>5. Ready(q) /\ q.class = c  BY <1>1, <2>4, ReadyBy
  <2>6. GetEncodeSpace(q) = GetEncodeSpace(p)  BY <1>4, <2>3, <2>5, EachStreamTo
  <2>7. Fills(q)  BY <1>4, <2>5 DEF Fills
  <2> QED  BY <1>4, <2>5, <2>6, <2>7 DEF q
<1>5. CASE c = "UnknownUDP"
  <2>1. Of(p, UDPTypes) /\ T = UDPTypes /\ Paid(p)
    BY <1>1, <1>5, EachFieldTypes DEF ReadyOf, IPClasses
  <2>2. q = UnknownUDPPrepared(p)  BY <1>5, EachPrepared
  <2> HIDE DEF q
  <2>3. Of(q, UDPTypes) /\ Paid(q) /\ UnknownUDPLen(q) = UnknownUDPLen(p)
    BY <2>1, <2>2, UDPPreparedOf DEF UDPLike
  <2>4. ReadyOf(c, q)  BY <1>5, <2>1, <2>3 DEF ReadyOf
  <2>5. Ready(q) /\ q.class = c  BY <1>1, <2>4, ReadyBy
  <2>6. GetEncodeSpace(q) = GetEncodeSpace(p)  BY <1>5, <2>3, <2>5, EachStreamTo
  <2>7. Fills(q)  BY <1>5, <2>5 DEF Fills
  <2> QED  BY <1>5, <2>5, <2>6, <2>7 DEF q
<1>6. CASE c = "ICMP"
  <2>1. Of(p, ICMPTypes) /\ T = ICMPTypes /\ Paid(p)
    BY <1>1, <1>6, EachFieldTypes DEF ReadyOf, IPClasses
  <2>2. q = ICMPPrepared(p)  BY <1>6, EachPrepared
  <2> HIDE DEF q
  <2>3. Of(q, ICMPTypes) /\ Paid(q) /\ ICMPLen(q) = ICMPLen(p)
    BY <2>1, <2>2, ICMPPreparedOf
  <2>4. ReadyOf(c, q)  BY <1>6, <2>1, <2>3 DEF ReadyOf
  <2>5. Ready(q) /\ q.class = c  BY <1>1, <2>4, ReadyBy
  <2>6. GetEncodeSpace(q) = GetEncodeSpace(p)  BY <1>6, <2>3, <2>5, EachStreamTo
  <2>7. Fills(q)  BY <1>6, <2>5 DEF Fills
  <2> QED  BY <1>6, <2>5, <2>6, <2>7 DEF q
<1>7. CASE c = "UnknownTCP"
  <2>1. Of(p, TCPTypes) /\ T = TCPTypes /\ Paid(p) /\ TCPShape(p)
    BY <1>1, <1>7, EachFieldTypes DEF ReadyOf, IPClasses
  <2>2. q = UnknownTCPPrepared(p)  BY <1>7, EachPrepared
  <2> HIDE DEF q
  <2>3. TCPLike(q, p)  BY <2>1, <2>2, TCPPreparedOf
  <2>4. Of(q, TCPTypes) /\ q.tcpoptions = p.tcpoptions  BY <2>3 DEF TCPLike
  <2>5. Paid(q) /\ TCPShape(q) /\ UnknownTCPLen(q) = UnknownTCPLen(p) /\ (TCPFull(p) => TCPFull(q))
    BY <2>1, <2>3, TCPLikeKeeps
  <2>6. ReadyOf(c, q)  BY <1>7, <2>1, <2>4, <2>5 DEF ReadyOf
  <2>7. Ready(q) /\ q.class = c  BY <1>1, <2>6, ReadyBy
  <2>8. GetEncodeSpace(q) = GetEncodeSpace(p)  BY <1>7, <2>5, <2>7, EachStreamTo
  <2>9. Fills(p) => Fills(q)  BY <1>7, <2>5, <2>7 DEF Fills
  <2> QED  BY <1>7, <2>4, <2>7, <2>8, <2>9 DEF q
<1> QED  BY <1>1, <1>2, <1>3, <1>4, <1>5, <1>6, <1>7, EachClass

(***************************************************************************)
(* A packet that fills what it counts is written in the bytes that         *)
(* GetEncodeSpace counts: no more, or the buffer would be too small, and   *)
(* no less, or the frame would end in bytes nobody wrote.                  *)
(***************************************************************************)
LEMMA SpaceFilled ==
  ASSUME NEW p, Ready(p), Fills(p)
  PROVE  Exactly(StreamTo(p), GetEncodeSpace(p))
<1> DEFINE c == p.class
<1>1. c \in Others /\ ReadyOf(c, p)  BY ReadyBy
<1>2. /\ Of(p, FieldTypes(c)) /\ (c \in {"STP", "LinkData"} => DataHeld(p))
      /\ (c = "UnknownTCP" => TCPShape(p) /\ TCPFull(p)) /\ (c = "LLDP" => Full(p))
      /\ (c \in IPClasses => Paid(p))
  BY <1>1 DEF ReadyOf, Fills
<1> HIDE DEF c
<1>3. c = p.class  BY DEF c
<1>4. CASE c = "ARP"
  <2>1. Of(p, ARPTypes)  BY <1>2, <1>4, EachFieldTypes
  <2> QED  BY <1>2, <1>3, <1>4, <2>1, ARPWritten, EachStreamTo, EachClass
<1>5. CASE c = "STP"
  <2>1. Of(p, STPTypes)  BY <1>2, <1>5, EachFieldTypes
  <2> QED  BY <1>2, <1>3, <1>5, <2>1, STPWritten, EachStreamTo, EachClass
<1>6. CASE c = "LinkData"
  <2>1. Of(p, LinkTypes)  BY <1>2, <1>6, EachFieldTypes
  <2> QED  BY <1>2, <1>3, <1>6, <2>1, LinkWritten, EachStreamTo, EachClass
<1>7. CASE c = "DS"
  <2>1. Of(p, DSTypes)  BY <1>2, <1>7, EachFieldTypes
  <2> QED  BY <1>2, <1>3, <1>7, <2>1, DSWritten, EachStreamTo, EachClass
<1>8. CASE c = "UnknownEthernet"
  <2>1. Of(p, UnknownTypes)  BY <1>2, <1>8, EachFieldTypes
  <2> QED  BY <1>2, <1>3, <1>8, <2>1, UnknownWritten, EachStreamTo, EachClass
<1>9. CASE c = "UnknownIP"
  <2>1. Of(p, UnknownIPTypes)  BY <1>2, <1>9, EachFieldTypes
  <2> QED  BY <1>2, <1>3, <1>9, <2>1, UnknownIPWritten, EachStreamTo, EachClass
<1>10. CASE c = "UnknownTCP"
  <2>1. Of(p, TCPTypes)  BY <1>2, <1>10, EachFieldTypes
  <2> QED  BY <1>2, <1>3, <1>10, <2>1, TCPWritten, EachStreamTo, EachClass
<1>11. CASE c = "UnknownUDP"
  <2>1. Of(p, UDPTypes)  BY <1>2, <1>11, EachFieldTypes
  <2> QED  BY <1>2, <1>3, <1>11, <2>1, UDPWritten, EachStreamTo, EachClass
<1>12. CASE c = "ICMP"
  <2>1. Of(p, ICMPTypes)  BY <1>2, <1>12, EachFieldTypes
  <2> QED  BY <1>2, <1>3, <1>12, <2>1, ICMPWritten, EachStreamTo, EachClass
<1>13. CASE c = "LLDP"
  <2>1. Of(p, LLDPTypes) /\ LLDPIn(LLDPTypes)  BY <1>2, <1>13, EachFieldTypes, LLDPTypesHave
  <2> DEFINE m == SumOfLens(p.optionalTLVList) + MandatoryLen(p)
             e == EthernetLen(p)
             b == LLDPStreamTo(p)
  <2>2. b \in Seq(Byte) /\ Len(b) = e + m + 2  BY <2>1, LLDPWritten
  <2>3. LLDPLen(p) = e + m + 2  BY <1>2, <1>13 DEF Full, LLDPLen
  <2> HIDE DEF b, e, m
  <2>4. Exactly(b, LLDPLen(p))  BY <2>2, <2>3 DEF Exactly
  <2> QED  BY <1>3, <1>13, <2>4, EachStreamTo DEF b
<1> QED  BY <1>1, <1>4, <1>5, <1>6, <1>7, <1>8, <1>9, <1>10, <1>11, <1>12, <1>13, EachClass DEF c

(***************************************************************************)
(* Any other that fits the buffer fills it, and one that does not fit      *)
(* lacks what Fills asks for.                                              *)
(***************************************************************************)
LEMMA SpaceAtLeast ==
  ASSUME NEW p, Ready(p), Under(p)
  PROVE  /\ StreamTo(p) \in Seq(Byte)
         /\ Len(StreamTo(p)) <= GetEncodeSpace(p) => Len(StreamTo(p)) = GetEncodeSpace(p)
         /\ ~(Len(StreamTo(p)) <= GetEncodeSpace(p)) => ~Fills(p)
<1> DEFINE n == Len(StreamTo(p))
           g == GetEncodeSpace(p)
           c == p.class
<1>1. c \in Others /\ ReadyOf(c, p)  BY ReadyBy
<1>2. CASE Fills(p)
  <2>1. StreamTo(p) \in Seq(Byte) /\ n = g  BY <1>2, SpaceFilled DEF Exactly
  <2>2. n \in Nat  BY <2>1
  <2> HIDE DEF n, g
  <2>3. n <= g  BY <2>1, <2>2
  <2> QED  BY <2>1, <2>3 DEF n, g
<1>3. CASE ~Fills(p)
  <2>1. StreamTo(p) \in Seq(Byte) /\ g \in Nat /\ n >= g
    <3>1. CASE c = "UnknownTCP"
      <4>1. Of(p, TCPTypes) /\ Paid(p) /\ TCPShape(p)
        BY <1>1, <3>1, EachFieldTypes DEF ReadyOf, IPClasses
      <4> QED  BY <3>1, <4>1, TCPWritten, EachStreamTo
    <3>2. CASE c = "LLDP"
      <4>1. Of(p, LLDPTypes) /\ LLDPIn(LLDPTypes)
        BY <1>1, <3>2, EachFieldTypes, LLDPTypesHave DEF ReadyOf
      <4> DEFINE m == SumOfLens(p.optionalTLVList) + MandatoryLen(p)
                 e == EthernetLen(p)
                 b == LLDPStreamTo(p)
                 k == p.len
      <4>2. b \in Seq(Byte) /\ Len(b) = e + m + 2  BY <4>1, LLDPWritten
      <4>3. LLDPLen(p) = e + k + 2  BY DEF LLDPLen
      <4>4. k <= m  BY <3>2 DEF Under
      <4>5. k \in Nat /\ e \in Nat
        BY <4>1, LLDPFields, LLDPTypesHave, EtherWritten
      <4>6. m \in Nat
        <5> DEFINE u == SumOfLens(p.optionalTLVList)
                   v == MandatoryLen(p)
        <5>1. u \in Nat /\ v \in Nat  BY <4>1, CountedIsFull
        <5> HIDE DEF u, v
        <5>2. u + v \in Nat  BY <5>1
        <5> QED  BY <5>2 DEF u, v
      <4> HIDE DEF b, e, m, k
      <4>7. b \in Seq(Byte) /\ LLDPLen(p) \in Nat /\ Len(b) >= LLDPLen(p)
        BY <4>2, <4>3, <4>4, <4>5, <4>6
      <4> QED  BY <3>2, <4>7, EachStreamTo DEF b
    <3> QED  BY <1>3, <3>1, <3>2 DEF Fills
  <2>2. n \in Nat  BY <2>1
  <2> HIDE DEF n, g
  <2>3. n <= g => n = g  BY <2>1, <2>2
  <2> QED  BY <1>3, <2>1, <2>3 DEF n, g
<1> QED  BY <1>2, <1>3

-----------------------------------------------------------------------------
(***************************************************************************)
(* When a packet cannot be encoded: options that are no multiple of four   *)
(* bytes, a copied LLDP packet or one that lacks a TLV.                    *)
(***************************************************************************)
Failure ==
  \/ object.class = "UnknownTCP" /\ Len(object.tcpoptions) % 4 # 0
  \/ object.class = "LLDP" /\ (object # origin \/ Lacks(object))

(***************************************************************************)
(* The inductive invariant.  A packet being built has the values of its    *)
(* class and counts what was set; a copy has too, but for the TLVs that    *)
(* operator= of LLDP does not count; what is on the wire is bytes, as many *)
(* as GetEncodeSpace counts; what was decoded is ready to be encoded       *)
(* again.                                                                  *)
(***************************************************************************)
FitsInv ==
  /\ stage = "built" /\ ~Travels(object) => Counts(object) /\ origin = object
  /\ stage = "copied" /\ ~Travels(object) =>
       Made(object) /\ Under(object) /\ Counts(origin) /\ origin.class = object.class
  /\ stage = "wire" /\ ~Travels(origin) => frame \in Seq(Byte)
  /\ stage = "wire" /\ origin # Nothing => Len(frame) = GetEncodeSpace(object)
  /\ stage = "relayed" => Len(again) = GetEncodeSpace(object)
  /\ stage \in {"relayed", "json"} /\ ~Travels(object) => Ready(object)
  /\ stage = "failed" => Failure

(***************************************************************************)
(* It gives FitsItsSpace.                                                  *)
(***************************************************************************)
LEMMA FitsInvShows == FitsInv => FitsItsSpace
<1>1. Lacks(object) => \E i \in DOMAIN Mandatory : object[Mandatory[i][1]].type = 0
  BY MandatoryFields DEF Lacks
<1> QED  BY <1>1 DEF FitsInv, FitsItsSpace, Failure

(***************************************************************************)
(* What counts what was set never counts more than is written.             *)
(***************************************************************************)
LEMMA CountedUnder ==
  ASSUME NEW p, Counts(p)
  PROVE  Under(p) /\ (p.class = "LLDP" => Full(p) \/ Lacks(p))
<1>1. SUFFICES ASSUME p.class = "LLDP" PROVE Under(p) /\ (Full(p) \/ Lacks(p))
  BY DEF Under
<1>2. Of(p, LLDPTypes) /\ LLDPIn(LLDPTypes) /\ Counted(p)
  BY <1>1, EachFieldTypes, LLDPTypesHave DEF Counts, Made
<1> QED  BY <1>2, CountedIsFull DEF Under

(***************************************************************************)
(* The copies of each class.                                               *)
(***************************************************************************)
LEMMA EachCopy ==
  ASSUME NEW p
  PROVE  /\ p.class = "STP" => Copies(p) = {STPAssign(p)}
         /\ p.class = "LinkData" => Copies(p) = {LinkDataAssign(p)}
         /\ p.class = "DS" => Copies(p) = {DSAssign(p)}
         /\ p.class = "LLDP" => Copies(p) = {LLDPAssign(p), LLDPCopy(p)}
         /\ p.class = "UnknownEthernet" => Copies(p) = {UnknownEthernetAssign(p)}
         /\ p.class \in {"ARP"} \cup IPClasses => Copies(p) = {}
  BY DEF Copies, IPClasses

(***************************************************************************)
(* They have the fields of the class, and never count more than is         *)
(* written.                                                                *)
(***************************************************************************)
LEMMA CopiesMade ==
  ASSUME NEW p, Counts(p), NEW q \in Copies(p)
  PROVE  Made(q) /\ Under(q) /\ q.class = p.class
<1>1. p.class \in Others /\ p.class # "Discovery" /\ Of(p, FieldTypes(p.class))
  BY DEF Counts, Made, Others
<1>2. q.class = p.class
  BY <1>1, CopiesKeepClass DEF HasClass
<1>3. CASE p.class = "STP"
  <2>1. Of(p, STPTypes) /\ DataHeld(p)  BY <1>1, <1>3, EachFieldTypes DEF Counts, Made
  <2>2. Of(q, STPTypes) /\ DataHeld(q)  BY <1>3, <2>1, EachCopy, STPAssigned
  <2> QED  BY <1>1, <1>2, <1>3, <2>2, EachFieldTypes DEF Made, Under
<1>4. CASE p.class = "LinkData"
  <2>1. Of(p, LinkTypes) /\ DataHeld(p)  BY <1>1, <1>4, EachFieldTypes DEF Counts, Made
  <2>2. Of(q, LinkTypes) /\ DataHeld(q)  BY <1>4, <2>1, EachCopy, LinkAssigned
  <2> QED  BY <1>1, <1>2, <1>4, <2>2, EachFieldTypes DEF Made, Under
<1>5. CASE p.class = "DS"
  <2>1. Of(p, DSTypes)  BY <1>1, <1>5, EachFieldTypes
  <2>2. Of(q, DSTypes)  BY <1>5, <2>1, EachCopy, DSAssigned
  <2> QED  BY <1>1, <1>2, <1>5, <2>2, EachFieldTypes DEF Made, Under
<1>6. CASE p.class = "UnknownEthernet"
  <2>1. Of(p, UnknownTypes)  BY <1>1, <1>6, EachFieldTypes
  <2>2. Of(q, UnknownTypes)  BY <1>6, <2>1, EachCopy, UnknownAssigned
  <2> QED  BY <1>1, <1>2, <1>6, <2>2, EachFieldTypes DEF Made, Under
<1>7. CASE p.class = "LLDP"
  <2>1. Of(p, LLDPTypes) /\ LLDPIn(LLDPTypes)  BY <1>1, <1>7, EachFieldTypes, LLDPTypesHave
  <2>2. /\ Of(q, LLDPTypes)
        /\ q.len = SumOfLens(q.optionalTLVList) \/
             q.len = SumOfLens(q.optionalTLVList) + MandatoryLen(q)
    BY <1>7, <2>1, EachCopy, LLDPAssigned DEF Full
  <2> DEFINE a == SumOfLens(q.optionalTLVList)
             b == MandatoryLen(q)
  <2>3. a \in Nat /\ b \in Nat  BY <2>1, <2>2, CountedIsFull
  <2> HIDE DEF a, b
  <2>4. a <= a + b /\ a + b <= a + b  BY <2>3
  <2>5. q.len <= a + b  BY <2>2, <2>4 DEF a, b
  <2> QED  BY <1>1, <1>2, <1>7, <2>2, <2>5, EachFieldTypes DEF Made, Under, a, b
<1>8. CASE p.class \in {"ARP"} \cup IPClasses
  BY <1>8, EachCopy
<1> QED  BY <1>1, <1>3, <1>4, <1>5, <1>6, <1>7, <1>8, EachClass

(***************************************************************************)
(* With a payload they are ready.                                          *)
(***************************************************************************)
LEMMA MadeAndPaid ==
  ASSUME NEW p, Made(p), HasPayload(p)
  PROVE  Ready(p)
<1>1. ASSUME IsIP(p) PROVE Paid(p)
  <2>1. IPIn(FieldTypes(p.class)) /\ Of(p, FieldTypes(p.class))
    BY <1>1, FieldTypesHave DEF IsIP, IPClasses, Made
  <2>2. p.etherpayload \in Payload \cup {Unset}  BY <2>1, IPFields
  <2> QED  BY <1>1, <2>2 DEF HasPayload, Paid
<1> QED  BY <1>1 DEF Ready
-----------------------------------------------------------------------------

(***************************************************************************)
(* The invariant holds at first.                                           *)
(***************************************************************************)
LEMMA FitsStarts == Init => FitsInv
<1> SUFFICES ASSUME Init PROVE FitsInv
  OBVIOUS
<1>1. CASE stage = "built" /\ object \in {Started(class) : class \in Classes} /\ origin = object
  <2>1. PICK c \in Classes : object = Started(c)  BY <1>1
  <2>2. ~Travels(object) => Counts(object)
    <3>1. CASE c = "Discovery"
      <4>1. object.class = "Discovery"
        <5>1. Classed(Started(c))  BY StartedPath
        <5>2. Started("Discovery") = [New("Discovery") EXCEPT !.to = <<0, 0, 0, 0, 0, 0, 0, 2>>]
          BY DEF Started
        <5>3. New("Discovery") = NewDiscovery  BY DEF New
        <5>4. NewDiscovery.class = "Discovery" /\ "class" \in DOMAIN NewDiscovery
          BY NewDiscoveryFits, NamesOfDiscovery DEF DPacket, Function
        <5>5. [NewDiscovery EXCEPT !.to = <<0, 0, 0, 0, 0, 0, 0, 2>>].class = NewDiscovery.class
          BY <5>4
        <5> QED  BY <2>1, <3>1, <5>2, <5>3, <5>4, <5>5
      <4> QED  BY <4>1 DEF Travels
    <3>2. CASE c # "Discovery"
      BY <2>1, <3>2, StartedCounts DEF Others
    <3> QED  BY <3>1, <3>2
  <2> QED  BY <1>1, <2>2 DEF FitsInv
<1>2. CASE stage = "wire" /\ frame \in Arrivals /\ origin = Nothing
  BY <1>2, BytesAssumption DEF FitsInv
<1> QED  BY <1>1, <1>2 DEF Init

(***************************************************************************)
(* A setter that leaves the fields of the class keeps it.                  *)
(***************************************************************************)
LEMMA BuiltFits ==
  ASSUME NEW p, Built(p), Counts(p)
  PROVE  FitsInv'
  BY DEF Built, FitsInv

(***************************************************************************)
(* Tags do.                                                                *)
(***************************************************************************)
LEMMA FitsBuiltTags == FitsInv /\ BuildTags => FitsInv'
<1> SUFFICES ASSUME FitsInv, BuildTags PROVE FitsInv'
  OBVIOUS
<1>1. Counts(object)  BY DEF FitsInv, BuildTags, Travels
<1> QED  BY <1>1, TagsCount, BuiltFits DEF BuildTags

(***************************************************************************)
(* So do payloads.                                                         *)
(***************************************************************************)
LEMMA FitsBuiltPayload == FitsInv /\ BuildPayload => FitsInv'
<1> SUFFICES ASSUME FitsInv, BuildPayload PROVE FitsInv'
  OBVIOUS
<1>1. Counts(object)
  BY DEF FitsInv, BuildPayload, Travels, IsIP
<1>2. \A data \in Payloads : data \in Seq(Byte)  BY BytesAssumption
<1>3. PICK data \in Payloads :
        \/ object.class \in {"STP", "LinkData"} /\ Built(SetPayload(object, data))
        \/ (object.class = "UnknownEthernet" \/ IsIP(object)) /\ Built(SetAppPayload(object, data))
  BY DEF BuildPayload
<1>4. data \in Seq(Byte)  BY <1>2
<1> QED  BY <1>1, <1>3, <1>4, PayloadCounts, BuiltFits

(***************************************************************************)
(* So do options and services.                                             *)
(***************************************************************************)
LEMMA FitsBuiltOption == FitsInv /\ (BuildOption \/ BuildService) => FitsInv'
<1>1. ASSUME FitsInv, BuildOption PROVE FitsInv'
  <2>1. PICK data \in Options :
          /\ stage = "built" /\ IsIP(object)
          /\ \/ Built(SetOption(object, data))
             \/ /\ object.class = "UnknownTCP" /\ data # <<>>
                /\ Built([SetTCPOption(object, data) EXCEPT !.tcpchecksum = 1])
    BY <1>1 DEF BuildOption
  <2>2. Counts(object)  BY <1>1, <2>1 DEF FitsInv, Travels, IsIP
  <2>3. data \in OptionBytes  BY BytesAssumption DEF OptionBytes
  <2> QED  BY <2>1, <2>2, <2>3, OptionsCount, BuiltFits
<1>2. ASSUME FitsInv, BuildService PROVE FitsInv'
  <2>1. PICK s \in Services : Built(setDscp(object, s)) \/ Built(setEcn(object, s))
    BY <1>2 DEF BuildService
  <2>2. Counts(object) /\ IsIP(object)  BY <1>2 DEF FitsInv, BuildService, Travels, IsIP
  <2>3. s \in Nat  BY BytesAssumption
  <2>4. <<>> \in OptionBytes  BY DEF OptionBytes
  <2> QED  BY <2>1, <2>2, <2>3, <2>4, OptionsCount, BuiltFits
<1> QED  BY <1>1, <1>2

(***************************************************************************)
(* So do TLVs.                                                             *)
(***************************************************************************)
LEMMA FitsBuiltTLV == FitsInv /\ BuildTLV => FitsInv'
<1> SUFFICES ASSUME FitsInv, BuildTLV PROVE FitsInv'
  OBVIOUS
<1>1. Counts(object) /\ object.class = "LLDP"  BY DEF FitsInv, BuildTLV, Travels
<1>2. CASE \E i \in DOMAIN Mandatory :
             /\ object[Mandatory[i][1]].type = 0
             /\ Built(SetMandatory(object, Mandatory[i][1], TLV(Mandatory[i][2], <<i, 0>>)))
  <2>1. PICK i \in {1, 2, 3} :
             /\ object[Mandatory[i][1]].type = 0
             /\ Built(SetMandatory(object, Mandatory[i][1], TLV(Mandatory[i][2], <<i, 0>>)))
    BY <1>2, MandatoryFields
  <2> DEFINE t == TLV(Mandatory[i][2], <<i, 0>>)
             x == Mandatory[i][1]
  <2>2. x \in Three /\ Mandatory[i][2] \in Int /\ Mandatory[i][2] # 0
    BY MandatoryFields
  <2>3. <<i, 0>> \in Seq(Byte)
    <3>1. i \in Byte /\ 0 \in Byte
      BY DEF Byte
    <3>2. QED
      BY <3>1, SMTT(30)
  <2>4. t \in TLVType /\ t.type # 0  BY <2>2, <2>3, TLVTyped, ZenonT(30)
  <2> HIDE DEF t, x
  <2>5. object[x].type = 0 /\ Built(SetMandatory(object, x, t))  BY <2>1 DEF t, x
  <2> QED  BY <1>1, <2>2, <2>4, <2>5, TLVsCount, BuiltFits DEF x
<1>3. CASE \E tlv \in TLVs : \E length \in {2, Len(tlv.value) + 1} :
             Built(addOptionalTLV(object, SetValue(tlv, length, tlv.value)))
  <2>0. PICK tlv \in TLVs : \E length \in {2, Len(tlv.value) + 1} :
             Built(addOptionalTLV(object, SetValue(tlv, length, tlv.value)))
    BY <1>3
  <2>1. PICK length \in {2, Len(tlv.value) + 1} :
             Built(addOptionalTLV(object, SetValue(tlv, length, tlv.value)))
    BY <2>0
  <2>2. tlv \in [type : Short, value : Seq(Byte)]  BY BytesAssumption
  <2>3. tlv \in TLVType /\ tlv.value \in Seq(Byte)
    BY <2>2, ShortBytes DEF TLVType
  <2> DEFINE v == tlv.value
  <2>4. length \in Nat /\ (length <= Len(v) \/ length > Len(v))
    <3>1. Len(v) \in Nat  BY <2>3
    <3> QED  BY <3>1
  <2>5. SetValue(tlv, length, v) \in TLVType
    BY <2>3, <2>4, SetValueOf
  <2> QED  BY <1>1, <2>1, <2>5, TLVsCount, BuiltFits
<1> QED  BY <1>2, <1>3 DEF BuildTLV

-----------------------------------------------------------------------------
(***************************************************************************)
(* What the check of the sums writes back, class by class.                 *)
(***************************************************************************)
LEMMA EachSummed ==
  ASSUME NEW p
  PROVE  /\ p.class = "UnknownTCP" => Summed(p) \in {p, [p EXCEPT !.tcpchecksum = TCPCheckSum(p)]}
         /\ p.class = "UnknownUDP" => Summed(p) \in {p, [p EXCEPT !.udpchecksum = UDPCheckSum(p)]}
         /\ p.class = "ICMP" => Summed(p) = [p EXCEPT !.icmpchecksum = ICMPCheckSum(p)]
         /\ p.class \notin {"UnknownTCP", "UnknownUDP", "ICMP"} => Summed(p) = p
  BY DEF Summed

(***************************************************************************)
(* It leaves a packet ready.                                               *)
(***************************************************************************)
LEMMA SummedReady ==
  ASSUME NEW p, Ready(p)
  PROVE  Ready(Summed(p)) /\ Summed(p).class = p.class
<1> DEFINE c == p.class
           q == Summed(p)
<1>1. c \in Others /\ ReadyOf(c, p)  BY ReadyBy
<1>2. CASE c = "UnknownTCP" /\ q # p
  <2> DEFINE s == [p EXCEPT !.tcpchecksum = TCPCheckSum(p)]
  <2>1. q = s  BY <1>2, EachSummed
  <2>2. Of(p, TCPTypes) /\ Paid(p) /\ TCPShape(p)
    BY <1>1, <1>2, EachFieldTypes DEF ReadyOf, IPClasses
  <2>3. TCPLike(s, p)  BY <2>2, TCPSummedOf
  <2> HIDE DEF s, q
  <2>4. Of(s, TCPTypes) /\ Paid(s) /\ TCPShape(s)  BY <2>2, <2>3, TCPLikeKeeps DEF TCPLike
  <2>5. ReadyOf(c, q)  BY <1>2, <2>1, <2>4, EachFieldTypes DEF ReadyOf
  <2> QED  BY <1>1, <2>5, ReadyBy DEF q
<1>3. CASE c = "UnknownUDP" /\ q # p
  <2> DEFINE s == [p EXCEPT !.udpchecksum = UDPCheckSum(p)]
  <2>1. q = s  BY <1>3, EachSummed
  <2>2. Of(p, UDPTypes) /\ Paid(p)
    BY <1>1, <1>3, EachFieldTypes DEF ReadyOf, IPClasses
  <2>3. Of(s, UDPTypes)  BY <2>2, UDPSummedOf
  <2>4. s.etherpayload = p.etherpayload  OBVIOUS
  <2> HIDE DEF s, q
  <2>5. ReadyOf(c, q)  BY <1>3, <2>1, <2>2, <2>3, <2>4, EachFieldTypes DEF ReadyOf, Paid
  <2> QED  BY <1>1, <2>5, ReadyBy DEF q
<1>4. CASE c = "ICMP"
  <2> DEFINE s == [p EXCEPT !.icmpchecksum = ICMPCheckSum(p)]
  <2>1. q = s  BY <1>4, EachSummed
  <2>2. Of(p, ICMPTypes) /\ Paid(p)
    BY <1>1, <1>4, EachFieldTypes DEF ReadyOf, IPClasses
  <2>3. Of(s, ICMPTypes) /\ s.etherpayload = p.etherpayload  BY <2>2, ICMPSummedOf
  <2> HIDE DEF s, q
  <2>5. ReadyOf(c, q)  BY <1>4, <2>1, <2>2, <2>3, EachFieldTypes DEF ReadyOf, Paid
  <2> QED  BY <1>1, <2>5, ReadyBy DEF q
<1>5. CASE q = p
  <2> HIDE DEF q
  <2> QED  BY <1>5 DEF q
<1> QED  BY <1>2, <1>3, <1>4, <1>5, EachSummed

(***************************************************************************)
(* A link more keeps the invariant.                                        *)
(***************************************************************************)
LEMMA FitsBuiltLink == PathInv /\ FitsInv /\ BuildLink => FitsInv'
<1> SUFFICES ASSUME PathInv, FitsInv, BuildLink PROVE FitsInv'
  OBVIOUS
<1>1. PathInv' /\ stage = "built" /\ stage' = "built"
  BY PathBuiltLink DEF BuildLink, Built
<1>2. Travels(object)  BY DEF BuildLink, Travels
<1>3. OfPath(object)  BY <1>1, <1>2 DEF PathInv
<1>4. DPacket(object) /\ Connected(object.m_links)  BY <1>3 DEF OfPath
<1>5. PICK dp \in Dps, port \in DpPorts :
        \/ Built(ModifyLastDpPort(object, port, dp))
        \/ \E cost \in Costs : Built(AddNewLink(object, port, dp, cost))
  BY DEF BuildLink
<1>6. dp \in [1..8 -> Byte] /\ port \in [1..4 -> Byte] /\ Costs \subseteq [1..4 -> Byte]
  BY LinkAssumption
<1>7. \E p : DPacket(p) /\ Built(p)
  BY <1>4, <1>5, <1>6, AddNewLinkKeeps, ModifyLastDpPortKeeps
<1>8. Travels(object')  BY <1>7 DEF Built, Travels, DPacket
<1> QED  BY <1>1, <1>8 DEF FitsInv

(***************************************************************************)
(* So does a copy.                                                         *)
(***************************************************************************)
LEMMA FitsCopied == PathInv /\ FitsInv /\ Copy => FitsInv'
<1> SUFFICES ASSUME PathInv, FitsInv, Copy PROVE FitsInv'
  OBVIOUS
<1>1. stage = "built" /\ stage' = "copied" /\ object' \in Copies(object) /\ origin' = origin
  BY DEF Copy
<1>2. CASE ~Travels(object)
  <2>1. Counts(object) /\ origin = object  BY <1>1, <1>2 DEF FitsInv
  <2>2. Made(object') /\ Under(object') /\ object'.class = object.class  BY <1>1, <2>1, CopiesMade
  <2> QED  BY <1>1, <2>1, <2>2 DEF FitsInv
<1>3. CASE Travels(object)
  <2>1. DPacket(object)  BY <1>1, <1>3 DEF PathInv, OfPath
  <2>2. object' = object
    BY <1>1, <1>3, <2>1, AssignedIsSame DEF Copies, Travels
  <2> QED  BY <1>1, <1>3, <2>2 DEF FitsInv
<1> QED  BY <1>2, <1>3

(***************************************************************************)
(* What does not fit is a packet whose options are no multiple of four     *)
(* bytes, a copied LLDP packet or one that lacks a TLV.                    *)
(***************************************************************************)
LEMMA EncodedFails ==
  ASSUME NEW o, NEW p, NEW g, Ready(o), p = Prepared(o), ~Fills(p), Counts(g), g.class = o.class
  PROVE  \/ p.class = "UnknownTCP" /\ Len(p.tcpoptions) % 4 # 0
         \/ p.class = "LLDP" /\ (p # Prepared(g) \/ Lacks(p))
<1>1. Ready(p) /\ p.class = o.class /\ (o.class = "LLDP" => p = o)  BY PreparedReady
<1>2. p.class = "LLDP" => Prepared(g) = g  BY <1>1, EachPrepared
<1>3. CASE p.class = "UnknownTCP"
  <2>1. Of(p, TCPTypes) /\ TCPShape(p)  BY <1>1, <1>3, EachFieldTypes DEF Ready, Made
  <2>2. ~TCPFull(p)  BY <1>3 DEF Fills
  <2> QED  BY <1>3, <2>1, <2>2, TCPShapes
<1>4. CASE p.class = "LLDP"
  <2>1. ~Full(p)  BY <1>4 DEF Fills
  <2>2. p = g => Lacks(p)  BY <1>4, <2>1, CountedUnder
  <2> QED  BY <1>2, <1>4, <2>2
<1> QED  BY <1>3, <1>4 DEF Fills

(***************************************************************************)
(* Encode fills the frame, or fails for one of these reasons.              *)
(***************************************************************************)
LEMMA FitsEncoded == PathInv /\ FitsInv /\ Encode => FitsInv'
<1> SUFFICES ASSUME PathInv, FitsInv, Encode PROVE FitsInv'
  OBVIOUS
<1> DEFINE p == Prepared(object)
<1>1. /\ stage \in {"built", "copied"} /\ HasPayload(object) /\ object' = p /\
           origin' = Prepared(origin)
      /\ \/ Len(StreamTo(p)) <= GetEncodeSpace(object) /\ stage' = "wire" /\ frame' = StreamTo(p)
         \/ ~(Len(StreamTo(p)) <= GetEncodeSpace(object)) /\ stage' = "failed"
  BY DEF Encode
<1>2. CASE Travels(object)
  <2>1. OfPath(object)  BY <1>1, <1>2 DEF PathInv
  <2>2. /\ p = DiscoveryPrepared(object) /\ DPacket(object) /\ FewLinks(object)
        /\ OfPath(p) /\ Travels(p)
    BY <1>2, <2>1, PathPrepared, PathsAreFew DEF OfPath, OnTheWire
  <2> HIDE DEF p
  <2>3. /\ StreamTo(p) = DiscoveryStreamTo(p) /\ GetEncodeSpace(p) = DiscoveryLen(p)
        /\ GetEncodeSpace(object) = DiscoveryLen(object)
    BY <1>2, <2>2 DEF Travels, StreamTo, GetEncodeSpace
  <2>4. StreamTo(p) \in Seq(Byte) /\ Len(StreamTo(p)) = GetEncodeSpace(p)
    BY <2>2, <2>3, DiscoveryWritten DEF OfPath
  <2>5. GetEncodeSpace(p) = GetEncodeSpace(object)
    BY <2>2, <2>3, DiscoveryPreparedFits
  <2>6. Len(StreamTo(p)) <= GetEncodeSpace(object)
    BY <2>4, <2>5
  <2> QED  BY <1>1, <2>4, <2>6 DEF FitsInv
<1>3. CASE ~Travels(object)
  <2>1. Made(object) /\ Under(object) /\ Counts(origin) /\ origin.class = object.class
    BY <1>1, <1>3, CountedUnder DEF FitsInv, Counts
  <2>2. Ready(object)  BY <1>1, <2>1, MadeAndPaid
  <2>3. /\ Ready(p) /\ p.class = object.class /\ GetEncodeSpace(p) = GetEncodeSpace(object)
        /\ (object.class = "LLDP" => p = object)
    BY <2>2, PreparedReady
  <2>4. ~Fills(p) => \/ p.class = "UnknownTCP" /\ Len(p.tcpoptions) % 4 # 0
                     \/ p.class = "LLDP" /\ (p # Prepared(origin) \/ Lacks(p))
    BY <2>1, <2>2, EncodedFails
  <2> HIDE DEF p
  <2>5. Under(p)  BY <2>1, <2>3 DEF Under
  <2>6. /\ StreamTo(p) \in Seq(Byte)
        /\ Len(StreamTo(p)) <= GetEncodeSpace(p) => Len(StreamTo(p)) = GetEncodeSpace(p)
        /\ ~(Len(StreamTo(p)) <= GetEncodeSpace(p)) => ~Fills(p)
    BY <2>3, <2>5, SpaceAtLeast
  <2>7. CASE stage' = "wire"
    BY <1>1, <2>3, <2>6, <2>7 DEF FitsInv
  <2>8. CASE stage' = "failed"
    <3>1. ~Fills(p)  BY <1>1, <2>3, <2>6, <2>8
    <3>2. Failure'  BY <1>1, <2>4, <3>1 DEF Failure, Lacks
    <3> QED  BY <2>8, <3>2 DEF FitsInv
  <2> QED  BY <1>1, <2>7, <2>8
<1> QED  BY <1>2, <1>3

(***************************************************************************)
(* What Input makes of any bytes is ready, and is written again in as many *)
(* bytes as it counts.                                                     *)
(***************************************************************************)
LEMMA FitsTakenIn == FitsInv /\ Input => FitsInv'
<1> SUFFICES ASSUME FitsInv, Input PROVE FitsInv'
  OBVIOUS
<1> DEFINE c == ClassOf(frame)
           r == StreamFrom(Reading(New(c), frame))
<1>1. /\ stage = "wire" /\ ~Travels(origin)
      /\ \/ r.good /\ stage' = "relayed" /\ object' = Prepared(r.p) /\ again' = StreamTo(object')
         \/ ~r.good /\ stage' = "dropped"
  BY DEF Input
<1>2. c \in Others /\ frame \in Seq(Byte)  BY <1>1, ClassesFound DEF FitsInv, Others
<1>3. CASE r.good /\ stage' = "relayed" /\ object' = Prepared(r.p) /\ again' = StreamTo(object')
  <2>1. Ready(r.p) /\ Fills(r.p)  BY <1>2, <1>3, ReadsReady
  <2> HIDE DEF r
  <2>2. Ready(object') /\ Fills(object')  BY <1>3, <2>1, PreparedReady
  <2>3. Len(again') = GetEncodeSpace(object')
    <3>1. Exactly(StreamTo(object'), GetEncodeSpace(object'))  BY <2>2, SpaceFilled
    <3> QED  BY <1>3, <3>1 DEF Exactly
  <2> QED  BY <1>3, <2>2, <2>3 DEF FitsInv
<1>4. CASE stage' = "dropped"
  BY <1>4 DEF FitsInv
<1> QED  BY <1>1, <1>3, <1>4

(***************************************************************************)
(* So is the path that the next datapath reads.                            *)
(***************************************************************************)
LEMMA FitsDiscovered == PathInv /\ Discover => FitsInv'
<1> SUFFICES ASSUME PathInv, Discover PROVE FitsInv'
  OBVIOUS
<1> DEFINE r == DiscoveryStreamFrom(Reading(NewDiscovery, frame))
<1>1. /\ stage = "wire" /\ Travels(origin)
      /\ \/ r.good /\ stage' = "relayed" /\ object' = r.p /\ again' = DiscoveryStreamTo(r.p)
         \/ ~r.good /\ stage' = "dropped"
  BY DEF Discover
<1>2. OnTheWire(object, frame)  BY <1>1 DEF PathInv
<1>3. OfPath(object)  BY <1>1, <1>2 DEF PathInv, OnTheWire
<1>4. r.good /\ r.p = object  BY <1>2, <1>3, PathRead
<1> HIDE DEF r
<1>5. stage' = "relayed" /\ object' = object /\ again' = DiscoveryStreamTo(object)  BY <1>1, <1>4
<1>6. Travels(object) /\ DPacket(object)  BY <1>2, <1>3 DEF OnTheWire, OfPath
<1>7. Len(again') = GetEncodeSpace(object')
  BY <1>5, <1>6, DiscoveryWritten DEF GetEncodeSpace, Travels
<1> QED  BY <1>5, <1>6, <1>7 DEF FitsInv

(***************************************************************************)
(* Going on keeps the invariant.                                           *)
(***************************************************************************)
LEMMA FitsGoesOn == FitsInv /\ GoesOn => FitsInv'
  BY DEF FitsInv, GoesOn, Travels

(***************************************************************************)
(* So does the report.                                                     *)
(***************************************************************************)
LEMMA FitsReported == FitsInv /\ Report => FitsInv'
<1> SUFFICES ASSUME FitsInv, Report PROVE FitsInv'
  OBVIOUS
<1>1. stage = "relayed" /\ stage' = "json" /\ object' = Summed(object)  BY DEF Report
<1>2. CASE ~Travels(object)
  <2>1. Ready(object)  BY <1>1, <1>2 DEF FitsInv
  <2> QED  BY <1>1, <2>1, SummedReady DEF FitsInv
<1>3. CASE Travels(object)
  <2>1. object' = object  BY <1>1, <1>3, EachSummed DEF Travels
  <2> QED  BY <1>1, <1>3, <2>1 DEF FitsInv
<1> QED  BY <1>2, <1>3

(***************************************************************************)
(* So does reading it.                                                     *)
(***************************************************************************)
LEMMA FitsReadJson == ReadJson => FitsInv'
<1> SUFFICES ASSUME ReadJson PROVE FitsInv'
  OBVIOUS
<1>1. stage' \in {"read", "refused"}  BY DEF ReadJson
<1> QED  BY <1>1 DEF FitsInv

(***************************************************************************)
(* A step that changes nothing keeps it.                                   *)
(***************************************************************************)
LEMMA FitsStays == FitsInv /\ UNCHANGED vars => FitsInv'
  BY DEF vars, FitsInv, Failure

(***************************************************************************)
(* Whatever is set, in whatever order, copied or not, decoded or not: a    *)
(* packet that is encoded fills the bytes that GetEncodeSpace counted for  *)
(* it, for every class but in two cases, which are those of FitsItsSpace:  *)
(* TCP options whose length is no multiple of four, and an LLDP packet     *)
(* that was copied or lacks a TLV that every packet has.                   *)
(***************************************************************************)
THEOREM SpaceSuffices == Spec => []FitsItsSpace
<1>1. Init => PathInv /\ FitsInv
  BY PathStarts, FitsStarts
<1>2. PathInv /\ [Next]_vars => PathInv'
  BY PathBuiltTags, PathBuiltFields, PathBuiltLink, PathCopied, PathEncoded, PathTakenIn,
     PathDiscovered, PathGoesOn, PathReported, PathReadJson, PathStays DEF Next
<1>3. PathInv /\ FitsInv /\ [Next]_vars => FitsInv'
  BY FitsBuiltTags, FitsBuiltPayload, FitsBuiltOption, FitsBuiltTLV, FitsBuiltLink, FitsCopied,
     FitsEncoded, FitsTakenIn, FitsDiscovered, FitsGoesOn, FitsReported, FitsReadJson, FitsStays
     DEF Next
<1>4. FitsInv => FitsItsSpace
  BY FitsInvShows
<1> QED  BY <1>1, <1>2, <1>3, <1>4, PTL DEF Spec

-----------------------------------------------------------------------------
(***************************************************************************)
(* The sections of JSON that more than one class writes; the section of DS *)
(* is read by no class.                                                    *)
(***************************************************************************)
Sections == {"ethernet", "arp", "ip", "tcp", "udp", "icmp"}

(***************************************************************************)
(* What each holds.                                                        *)
(***************************************************************************)
Layout(s) ==
  CASE s = "ethernet" -> EthernetJson [] s = "arp" -> ARPJson [] s = "ip" -> IPJson
    [] s = "tcp" -> TCPJson [] s = "udp" -> UDPJson [] s = "icmp" -> ICMPJson

(***************************************************************************)
(* T has the n fields that a section holds, with values that fit them.     *)
(***************************************************************************)
Held(F, n, T) ==
  /\ LayoutOf(F, n, Names(F)) /\ Names(F) \subseteq DOMAIN T
  /\ \A x \in Names(F) : T[x] \subseteq LayoutTypes(F)[x]

(***************************************************************************)
(* Such a section can be written and read.                                 *)
(***************************************************************************)
LEMMA HeldFits ==
  ASSUME NEW F, NEW n, NEW T, Held(F, n, T)
  PROVE  LayoutOf(F, n, DOMAIN T) /\ \A p : Of(p, T) => Filled(p, F, n)
<1>1. /\ LayoutOf(F, n, Names(F)) /\ Names(F) \subseteq DOMAIN T
      /\ \A x \in Names(F) : T[x] \subseteq LayoutTypes(F)[x]
  BY DEF Held
<1>2. \A i \in 1..n : F[i][1] \in Names(F) /\ LayoutTypes(F)[F[i][1]] = Values(F[i][2])
  BY <1>1, TypesOfLayout
<1>3. LayoutOf(F, n, DOMAIN T)
  <2>1. \A i \in 1..n : F[i][1] \in DOMAIN T
    BY <1>1, <1>2
  <2> QED  BY <1>1, <2>1 DEF LayoutOf
<1>4. ASSUME NEW p, Of(p, T) PROVE Filled(p, F, n)
  <2>1. \A i \in 1..n : p[F[i][1]] \in Values(F[i][2])
    BY <1>1, <1>2, <1>4 DEF Of
  <2> QED  BY <2>1, ValuesFit DEF Filled
<1> QED  BY <1>3, <1>4

(***************************************************************************)
(* It has where the section holds fields of a layout that T has laid.      *)
(***************************************************************************)
LEMMA LaidHeld ==
  ASSUME NEW F, NEW n, LayoutOf(F, n, Names(F)), NEW L, NEW m, NEW T, Laid(L, m, T),
         Names(F) \subseteq Names(L), \A x \in Names(F) : LayoutTypes(L)[x] = LayoutTypes(F)[x]
  PROVE  Held(F, n, T)
<1>1. LayoutOf(L, m, DOMAIN T) /\ Extends(T, LayoutTypes(L))  BY LaidExtends
<1>2. DOMAIN LayoutTypes(L) = Names(L)  BY <1>1, TypesOfLayout
<1>3. Names(F) \subseteq DOMAIN T  BY <1>1, <1>2 DEF Extends
<1>4. \A x \in Names(F) : T[x] = LayoutTypes(F)[x]  BY <1>1, <1>2 DEF Extends
<1> QED  BY <1>3, <1>4 DEF Held

(***************************************************************************)
(* The section of the Ethernet head.                                       *)
(***************************************************************************)
LEMMA EtherHeld ==
  ASSUME NEW T, EtherIn(T)
  PROVE  Held(EthernetJson, 8, T)
<1> DEFINE V == LayoutTypes(EthernetJson)
<1>1. /\ LayoutOf(EthernetJson, 8, Names(EthernetJson))
      /\ Names(EthernetJson) = {"dmac", "smac", "ethtype", "vlanID", "priorityCode",
           "qInQPriorityCode", "qinqVID", "qinqTPID"}
      /\ V["dmac"] = Mac /\ V["smac"] = Mac /\ V["ethtype"] = Short /\ V["vlanID"] = Short
      /\ V["priorityCode"] = Byte /\ V["qInQPriorityCode"] = Byte /\ V["qinqVID"] = Short
      /\ V["qinqTPID"] = Short
  BY EthernetJsonIs DEF Mac
<1> HIDE DEF V
<1>2. Names(EthernetJson) \subseteq DOMAIN T  BY <1>1 DEF EtherIn, EtherFields
<1>3. \A x \in Names(EthernetJson) : T[x] = V[x]  BY <1>1 DEF EtherIn
<1> QED  BY <1>1, <1>2, <1>3 DEF Held, V

(***************************************************************************)
(* The section of the IP head, whose version, length and flags are         *)
(* narrower than their fields.                                             *)
(***************************************************************************)
LEMMA IPHeld ==
  ASSUME NEW T, IPIn(T)
  PROVE  Held(IPJson, 12, T)
<1> DEFINE V == LayoutTypes(IPJson)
<1>1. /\ LayoutOf(IPJson, 12, Names(IPJson))
      /\ Names(IPJson) = {"version", "headerLength", "diffServ", "totalLength", "identification",
           "flags", "fragmentOffset", "ttl", "protocol", "checksum", "sourceAddress",
           "destinationAddress"}
      /\ V["version"] = Byte /\ V["headerLength"] = Byte /\ V["diffServ"] = Byte
      /\ V["totalLength"] = Short /\ V["identification"] = Short /\ V["flags"] = Byte
      /\ V["fragmentOffset"] = Short /\ V["ttl"] = Byte /\ V["protocol"] = Byte
      /\ V["checksum"] = Short /\ V["sourceAddress"] = [1..4 -> Byte]
      /\ V["destinationAddress"] = [1..4 -> Byte]
  BY IPJsonIs
<1> HIDE DEF V
<1>2. Nibble \subseteq Byte  BY DEF Nibble, Byte
<1>3. "identification" \in DOMAIN T /\ T["identification"] = Short /\ "ttl" \in DOMAIN T /\
        T["ttl"] = Byte
  <2>1. LayoutOf(IPHead, 10, DOMAIN T) /\ Extends(T, LayoutTypes(IPHead))
    BY LaidExtends DEF IPIn
  <2>2. {"identification", "ttl"} \subseteq DOMAIN LayoutTypes(IPHead)
    BY <2>1, TypesOfLayout, IPHeadIs
  <2> QED  BY <2>1, <2>2, IPHeadIs DEF Extends
<1>4. Names(IPJson) \subseteq DOMAIN T  BY <1>1, <1>3 DEF IPIn, IPRestNames, IPHeadNames
<1>5. \A x \in Names(IPJson) : T[x] \subseteq V[x]  BY <1>1, <1>2, <1>3 DEF IPIn
<1> QED  BY <1>1, <1>4, <1>5 DEF Held, V

(***************************************************************************)
(* The section of TCP, with the data offset.                               *)
(***************************************************************************)
LEMMA TCPHeld == Held(TCPJson, 9, TCPTypes)
<1> DEFINE V == LayoutTypes(TCPJson)
           U == LayoutTypes(TCPHead)
           T == TCPTypes
<1>1. /\ LayoutOf(TCPJson, 9, Names(TCPJson))
      /\ Names(TCPJson) = TCPNames \cup {"tcpdataOffset"} /\ V["tcpdataOffset"] = Byte
      /\ \A x \in TCPNames : V[x] = U[x]
  BY TCPJsonIs, TCPHeadIs DEF TCPNames
<1>2. LayoutOf(TCPHead, 8, DOMAIN T) /\ Extends(T, U) /\ DOMAIN U = TCPNames
  BY LaidExtends, TCPTypesHave
<1>3. T["tcpdataOffset"] \subseteq Byte /\ Names(TCPJson) \subseteq DOMAIN T
  BY <1>1, TCPTypesHave DEF Nibble, Byte, TCPExtraNames
<1> HIDE DEF U, V, T
<1>4. \A x \in Names(TCPJson) : T[x] \subseteq V[x]  BY <1>1, <1>2, <1>3 DEF Extends
<1> QED  BY <1>1, <1>3, <1>4 DEF Held, V, T

(***************************************************************************)
(* Those of ARP, UDP and ICMP, which hold the fields of the header.        *)
(***************************************************************************)
LEMMA OwnHeld == Held(ARPJson, 9, ARPTypes) /\ Held(UDPJson, 4, UDPTypes) /\
        Held(ICMPJson, 5, ICMPTypes)
<1>1. Held(ARPJson, 9, ARPTypes)
  <2>1. /\ LayoutOf(ARPJson, 9, Names(ARPJson)) /\ Names(ARPJson) = Names(ARPFields)
        /\ \A x \in Names(ARPJson) : LayoutTypes(ARPFields)[x] = LayoutTypes(ARPJson)[x]
    BY ARPJsonIs, ARPFieldsIs
  <2> QED  BY <2>1, ARPTypesHave, LaidHeld
<1>2. Held(UDPJson, 4, UDPTypes)
  <2>1. /\ LayoutOf(UDPJson, 4, Names(UDPJson)) /\ Names(UDPJson) = Names(UDPHead)
        /\ \A x \in Names(UDPJson) : LayoutTypes(UDPHead)[x] = LayoutTypes(UDPJson)[x]
    BY UDPJsonIs, UDPHeadIs
  <2> QED  BY <2>1, UDPTypesHave, LaidHeld
<1>3. Held(ICMPJson, 5, ICMPTypes)
  <2>1. /\ LayoutOf(ICMPJson, 5, Names(ICMPJson)) /\ Names(ICMPJson) = Names(ICMPHead)
        /\ \A x \in Names(ICMPJson) : LayoutTypes(ICMPHead)[x] = LayoutTypes(ICMPJson)[x]
    BY ICMPJsonIs, ICMPHeadIs
  <2> QED  BY <2>1, ICMPTypesHave, LaidHeld
<1> QED  BY <1>1, <1>2, <1>3

(***************************************************************************)
(* Section by section.                                                     *)
(***************************************************************************)
LEMMA EachLayout ==
  /\ Layout("ethernet") = EthernetJson /\ Layout("arp") = ARPJson /\ Layout("ip") = IPJson
  /\ Layout("tcp") = TCPJson /\ Layout("udp") = UDPJson /\ Layout("icmp") = ICMPJson
  BY DEF Layout

(***************************************************************************)
(* The sections of each class.                                             *)
(***************************************************************************)
LEMMA EachSections ==
  /\ SectionsOf("ARP") = [ethernet |-> EthernetJson, arp |-> ARPJson]
  /\ \A c \in {"STP", "LinkData", "UnknownEthernet"} : SectionsOf(c) = [ethernet |-> EthernetJson]
  /\ SectionsOf("DS") = [ethernet |-> EthernetJson, top |-> DSJson] /\ SectionsOf("LLDP") = <<>>
  /\ SectionsOf("UnknownIP") = [ethernet |-> EthernetJson, ip |-> IPJson]
  /\ SectionsOf("UnknownTCP") = [ethernet |-> EthernetJson, ip |-> IPJson, tcp |-> TCPJson]
  /\ SectionsOf("UnknownUDP") = [ethernet |-> EthernetJson, ip |-> IPJson, udp |-> UDPJson]
  /\ SectionsOf("ICMP") = [ethernet |-> EthernetJson, icmp |-> ICMPJson]
  BY DEF SectionsOf

(***************************************************************************)
(* No two sections hold the same field, and none the class: reading one    *)
(* undoes no other.                                                        *)
(***************************************************************************)
LEMMA SectionsApart ==
  ASSUME NEW s \in Sections, NEW t \in Sections
  PROVE  "class" \notin Names(Layout(s)) /\ (s # t => Names(Layout(s)) \cap Names(Layout(t)) = {})
<1> DEFINE N == [x \in Sections |-> Names(Layout(x))]
<1>1. /\ N["ethernet"] = {"dmac", "smac", "ethtype", "vlanID", "priorityCode", "qInQPriorityCode",
                          "qinqVID", "qinqTPID"}
      /\ N["arp"] = {"hardwareType", "protocolType", "hardwareAddressLength",
                     "protocolAddressLength", "opCode", "senderHardwareAddress",
                     "senderProtocolAddress", "targetHardwareAddress", "targetProtocolAddress"}
      /\ N["ip"] = {"version", "headerLength", "diffServ", "totalLength", "identification", "flags",
                    "fragmentOffset", "ttl", "protocol", "checksum", "sourceAddress",
                    "destinationAddress"}
      /\ N["tcp"] = {"tcpsourcePort", "tcpdestinationPort", "tcpsequence", "tcpacknowledge",
                     "tcpdataOffset", "tcpflags", "tcpwindowSize", "tcpchecksum",
                     "tcpurgentPointer"}
      /\ N["udp"] = {"sourcePort", "destinationPort", "udplength", "udpchecksum"}
      /\ N["icmp"] = {"icmpType", "icmpCode", "icmpchecksum", "icmpidentifier", "icmpsequencnum"}
  BY EachLayout, EthernetJsonIs, ARPJsonIs, IPJsonIs, TCPJsonIs, UDPJsonIs, ICMPJsonIs DEF Sections
<1>2. Names(Layout(s)) = N[s] /\ Names(Layout(t)) = N[t]
  OBVIOUS
<1> HIDE DEF N
<1>3. "class" \notin N[s]  BY <1>1 DEF Sections
<1>4. ASSUME s # t PROVE N[s] \cap N[t] = {}
  <2>1. CASE s \in {"ethernet", "arp"}  BY <1>1, <1>4, <2>1 DEF Sections
  <2>2. CASE s \in {"ip", "tcp"}  BY <1>1, <1>4, <2>2 DEF Sections
  <2>3. CASE s \in {"udp", "icmp"}  BY <1>1, <1>4, <2>3 DEF Sections
  <2> QED  BY <2>1, <2>2, <2>3 DEF Sections
<1> QED  BY <1>2, <1>3, <1>4

(***************************************************************************)
(* A class has a section as every class has it, and the fields the section *)
(* holds.                                                                  *)
(***************************************************************************)
LEMMA SectionsAre ==
  ASSUME NEW c \in Others, NEW s \in DOMAIN SectionsOf(c), s # "top"
  PROVE  /\ s \in Sections /\ SectionsOf(c)[s] = Layout(s)
         /\ \E n : Held(Layout(s), n, FieldTypes(c))
<1>1. c \in {"STP", "LinkData", "UnknownEthernet"} \/ c \in {"ARP", "DS"} \/ c = "LLDP" \/
      c \in IPClasses
  BY DEF Others, Classes, IPClasses
<1>2. Held(EthernetJson, 8, FieldTypes(c))  BY FieldTypesHave, EtherHeld
<1>3. CASE c \in {"STP", "LinkData", "UnknownEthernet"}
  <2>1. s = "ethernet" /\ SectionsOf(c)[s] = EthernetJson  BY <1>3, EachSections
  <2> QED  BY <1>2, <2>1, EachLayout DEF Sections
<1>4. CASE c = "ARP"
  <2>1. /\ DOMAIN SectionsOf(c) = {"ethernet", "arp"}
        /\ SectionsOf(c)["ethernet"] = EthernetJson /\ SectionsOf(c)["arp"] = ARPJson
    BY <1>4, EachSections
  <2>2. CASE s = "ethernet"  BY <1>2, <2>1, <2>2, EachLayout DEF Sections
  <2>3. CASE s = "arp"
    <3>1. Held(Layout(s), 9, FieldTypes(c))  BY <1>4, <2>3, EachLayout, OwnHeld, EachFieldTypes
    <3> QED  BY <2>1, <2>3, <3>1, EachLayout DEF Sections
  <2> QED  BY <2>1, <2>2, <2>3
<1>7. CASE c = "DS"
  <2>1. DOMAIN SectionsOf(c) = {"ethernet", "top"} /\ SectionsOf(c)["ethernet"] = EthernetJson
    BY <1>7, EachSections
  <2>2. s = "ethernet"  BY <2>1
  <2> QED  BY <1>2, <2>1, <2>2, EachLayout DEF Sections
<1>5. c # "LLDP"  BY EachSections
<1>6. CASE c \in IPClasses
  <2>1. \/ s = "ethernet" /\ SectionsOf(c)[s] = EthernetJson
        \/ s = "ip" /\ SectionsOf(c)[s] = IPJson
        \/ c = "UnknownTCP" /\ s = "tcp" /\ SectionsOf(c)[s] = TCPJson
        \/ c = "UnknownUDP" /\ s = "udp" /\ SectionsOf(c)[s] = UDPJson
        \/ c = "ICMP" /\ s = "icmp" /\ SectionsOf(c)[s] = ICMPJson
    BY <1>6, EachSections DEF IPClasses
  <2>2. Held(IPJson, 12, FieldTypes(c))  BY <1>6, FieldTypesHave, IPHeld
  <2>3. CASE s \in {"ethernet", "ip"}
    BY <1>2, <2>1, <2>2, <2>3, EachLayout DEF Sections
  <2>4. CASE s = "tcp"
    BY <2>1, <2>4, EachLayout, TCPHeld, EachFieldTypes DEF Sections
  <2>5. CASE s \in {"udp", "icmp"}
    BY <2>1, <2>5, EachLayout, OwnHeld, EachFieldTypes DEF Sections
  <2> QED  BY <2>1, <2>3, <2>4, <2>5
<1> QED  BY <1>1, <1>3, <1>4, <1>5, <1>6, <1>7

-----------------------------------------------------------------------------
(***************************************************************************)
(* Packets with the same fields write the same section.                    *)
(***************************************************************************)
LEMMA ObjectSame ==
  ASSUME NEW p, NEW q, NEW F, \A x \in Names(F) : p[x] = q[x]
  PROVE  ObjectOf(p, F) = ObjectOf(q, F)
  BY DEF ObjectOf

(***************************************************************************)
(* The sections that a class reads and o wrote.                            *)
(***************************************************************************)
Both(c, o) == DOMAIN SectionsOf(c) \cap DOMAIN SectionsOf(o.class)

(***************************************************************************)
(* The value has the sections that o wrote, whatever a controller added.   *)
(***************************************************************************)
Tells(value, o) ==
  \A s \in DOMAIN SectionsOf(o.class) :
    s \in DOMAIN value /\ value[s] = ObjectOf(o, SectionsOf(o.class)[s])

(***************************************************************************)
(* p is a packet of class c that has read the sections in S: there it says *)
(* what o says.                                                            *)
(***************************************************************************)
Told(p, c, o, S) ==
  /\ Function(p, DOMAIN FieldTypes(c)) /\ p.class = c
  /\ \A s \in Both(c, o) \cap S : \A x \in Names(Layout(s)) : p[x] = o[x]

(***************************************************************************)
(* The classes that DecodeEthernetFromJson makes.                          *)
(***************************************************************************)
ReadFrom == {"ARP", "UnknownEthernet"} \cup IPClasses

(***************************************************************************)
(* It makes no other, and none that reads what is at the top.              *)
(***************************************************************************)
LEMMA ReadFromAre ==
  /\ ReadFrom \subseteq Others /\ \A value : JsonClass(value) \in ReadFrom
  /\ \A c \in ReadFrom : "top" \notin DOMAIN SectionsOf(c)
<1>1. ReadFrom \subseteq Others  BY DEF ReadFrom, Others, Classes, IPClasses
<1>2. \A n : IPClass(n) \in IPClasses  BY DEF IPClass, IPClasses
<1>3. ASSUME NEW value PROVE JsonClass(value) \in ReadFrom
  <2>1. JsonClass(value) \in {"ARP", "UnknownIP", "UnknownEthernet", IPClass(value.protocol)}
    BY DEF JsonClass
  <2> QED  BY <1>2, <2>1 DEF ReadFrom, IPClasses
<1>4. \A c \in ReadFrom : "top" \notin DOMAIN SectionsOf(c)
  BY EachSections DEF ReadFrom, IPClasses
<1> QED  BY <1>1, <1>3, <1>4

(***************************************************************************)
(* Reading one more section keeps what was read before.                    *)
(***************************************************************************)
LEMMA SectionTold ==
  ASSUME NEW c \in ReadFrom, NEW o, Made(o), NEW value, Tells(value, o), NEW p,
           NEW S \in SUBSET Sections,
         Told(p, c, o, S), NEW s \in Sections
  PROVE  Told(InSection(p, value, s), c, o, S \cup {s})
<1> DEFINE D == DOMAIN FieldTypes(c)
           F == Layout(s)
           q == InSection(p, value, s)
<1>1. Function(p, D) /\ p.class = c /\ DOMAIN p = D /\ c \in Others
  BY FunctionDomain, ReadFromAre DEF Told
<1>2. "class" \in D  BY <1>1, FieldTypesHave
<1>3. \A t \in Both(c, o) : t # "top" /\ t \in Sections  BY <1>1, ReadFromAre, SectionsAre DEF Both
<1>4. CASE s \notin DOMAIN SectionsOf(c) \cap DOMAIN value
  <2>1. q = p  BY <1>1, <1>4, Zenon DEF InSection
  <2>2. s \notin Both(c, o)  BY <1>4 DEF Both, Tells
  <2> QED  BY <2>1, <2>2, Zenon DEF Told
<1>5. CASE s \in DOMAIN SectionsOf(c) \cap DOMAIN value
  <2>1. s # "top" /\ SectionsOf(c)[s] = F
    BY <1>1, <1>5, ReadFromAre, SectionsAre
  <2>2. q = Assigned(p, value[s], F)  BY <1>1, <1>5, <2>1, Zenon DEF InSection
  <2>3. "class" \notin Names(F)  BY SectionsApart
  <2>4. Function(q, D) /\ \A x \in D \ Names(F) : q[x] = p[x]
    BY <1>1, <2>2, Zenon DEF Assigned, Function
  <2>5. q.class = c  BY <1>1, <1>2, <2>3, <2>4
  <2>6. ASSUME s \in Both(c, o), NEW x \in Names(F) PROVE q[x] = o[x]
    <3>1. PICK n : Held(F, n, FieldTypes(c))  BY <1>1, <1>5, <2>1, SectionsAre
    <3>2. o.class \in Others /\ s \in DOMAIN SectionsOf(o.class) /\ Of(o, FieldTypes(o.class))
      BY <2>6 DEF Both, Made
    <3>3. SectionsOf(o.class)[s] = F  BY <2>1, <3>2, SectionsAre
    <3>4. value[s] = ObjectOf(o, F)  BY <3>2, <3>3 DEF Tells
    <3>5. PICK m : Held(F, m, FieldTypes(o.class))  BY <2>1, <3>2, SectionsAre
    <3>6. LayoutOf(F, n, D)  BY <3>1, HeldFits
    <3>7. Filled(o, F, m) /\ m = n
      <4>1. Filled(o, F, m)  BY <3>2, <3>5, HeldFits
      <4>2. DOMAIN F = 1..m /\ DOMAIN F = 1..n /\ m \in Nat /\ n \in Nat
        BY <3>1, <3>5 DEF Held, LayoutOf
      <4> QED  BY <4>1, <4>2
    <3> HIDE DEF D, F, q
    <3>8. AssignedFrom(Assigned(p, ObjectOf(o, F), F), p, o, F, D)
      BY <1>1, <3>6, <3>7, AssignedBack
    <3> QED  BY <2>2, <2>6, <3>4, <3>8, Zenon DEF AssignedFrom
  <2>7. ASSUME NEW t \in Both(c, o) \cap S, t # s, NEW x \in Names(Layout(t)) PROVE q[x] = o[x]
    <3>1. p[x] = o[x]  BY <2>7, Zenon DEF Told
    <3>2. x \notin Names(F)  BY <1>3, <2>7, SectionsApart
    <3>3. x \in D
      <4>1. PICK n : Held(Layout(t), n, FieldTypes(c))  BY <1>1, <1>3, <2>7, SectionsAre DEF Both
      <4> QED  BY <2>7, <4>1 DEF Held
    <3> QED  BY <2>4, <3>1, <3>2, <3>3
  <2>8. \A t \in Both(c, o) \cap (S \cup {s}) : \A x \in Names(Layout(t)) : q[x] = o[x]
    BY <2>6, <2>7
  <2> HIDE DEF q, F
  <2>9. Told(q, c, o, S \cup {s})  BY <2>4, <2>5, <2>8, Zenon DEF Told
  <2> QED  BY <2>9 DEF q
<1> QED  BY <1>4, <1>5

(***************************************************************************)
(* FromJson reads them all, one after the other.                           *)
(***************************************************************************)
LEMMA ToldFromJson ==
  ASSUME NEW c \in ReadFrom, NEW o, Made(o), NEW value, Tells(value, o)
  PROVE  Told(FromJson(New(c), value), c, o, Sections)
<1> DEFINE a == InSection(New(c), value, "ethernet")
           b == InSection(a, value, "arp")
           d == InSection(b, value, "ip")
           e == InSection(d, value, "tcp")
           f == InSection(e, value, "udp")
           g == InSection(f, value, "icmp")
<1>1. New(c).class = c /\ c \in Others /\ Of(New(c), FieldTypes(c))
  BY NewCounts, ReadFromAre DEF Counts, Made
<1>2. FromJson(New(c), value) = g
  <2>1. c # "Discovery"  BY <1>1 DEF Others
  <2> QED  BY <1>1, <2>1, Zenon DEF FromJson, InTransport, InEthernet
<1>3. Told(New(c), c, o, {})  BY <1>1 DEF Told, Of
<1> HIDE DEF a
<1>4. Told(a, c, o, {"ethernet"})
  <2>1. Told(InSection(New(c), value, "ethernet"), c, o, {} \cup {"ethernet"})
    BY <1>3, SectionTold DEF Sections
  <2> QED  BY <2>1 DEF a
<1> HIDE DEF b
<1>5. Told(b, c, o, {"ethernet"} \cup {"arp"})
  BY <1>4, SectionTold DEF Sections, b
<1> HIDE DEF d
<1>6. Told(d, c, o, {"ethernet", "arp"} \cup {"ip"})
  <2>1. {"ethernet"} \cup {"arp"} = {"ethernet", "arp"}  OBVIOUS
  <2> QED  BY <1>5, <2>1, SectionTold DEF Sections, d
<1> HIDE DEF e
<1>7. Told(e, c, o, {"ethernet", "arp", "ip"} \cup {"tcp"})
  <2>1. {"ethernet", "arp"} \cup {"ip"} = {"ethernet", "arp", "ip"}  OBVIOUS
  <2> QED  BY <1>6, <2>1, SectionTold DEF Sections, e
<1> HIDE DEF f
<1>8. Told(f, c, o, {"ethernet", "arp", "ip", "tcp"} \cup {"udp"})
  <2>1. {"ethernet", "arp", "ip"} \cup {"tcp"} = {"ethernet", "arp", "ip", "tcp"}  OBVIOUS
  <2> QED  BY <1>7, <2>1, SectionTold DEF Sections, f
<1> HIDE DEF g
<1>9. Told(g, c, o, {"ethernet", "arp", "ip", "tcp", "udp"} \cup {"icmp"})
  <2>1. {"ethernet", "arp", "ip", "tcp"} \cup {"udp"} =
        {"ethernet", "arp", "ip", "tcp", "udp"}  OBVIOUS
  <2> QED  BY <1>8, <2>1, SectionTold DEF Sections, g
<1>10. {"ethernet", "arp", "ip", "tcp", "udp"} \cup {"icmp"} = Sections  BY DEF Sections
<1> QED  BY <1>2, <1>9, <1>10

(***************************************************************************)
(* p says what o says, in the sections both have.                          *)
(***************************************************************************)
KeptIn(p, o) ==
  \A s \in DOMAIN SectionsOf(o.class) \cap DOMAIN SectionsOf(p.class) :
    ObjectOf(p, SectionsOf(p.class)[s]) = ObjectOf(o, SectionsOf(p.class)[s])

(***************************************************************************)
(* So what is read from JSON says what was written, whichever of these     *)
(* classes was made for it.                                                *)
(***************************************************************************)
LEMMA ReadKeeps ==
  ASSUME NEW c \in ReadFrom, NEW o, Made(o), NEW value, Tells(value, o)
  PROVE  KeptIn(FromJson(New(c), value), o)
<1> DEFINE p == FromJson(New(c), value)
<1>1. Told(p, c, o, Sections)  BY ToldFromJson
<1> HIDE DEF p
<1>2. p.class = c  BY <1>1 DEF Told
<1>3. ASSUME NEW s \in DOMAIN SectionsOf(o.class) \cap DOMAIN SectionsOf(c)
      PROVE  ObjectOf(p, SectionsOf(c)[s]) = ObjectOf(o, SectionsOf(c)[s])
  <2>1. s # "top" /\ c \in Others  BY <1>3, ReadFromAre
  <2>2. s \in Sections /\ SectionsOf(c)[s] = Layout(s)  BY <1>3, <2>1, SectionsAre
  <2>3. \A x \in Names(Layout(s)) : p[x] = o[x]  BY <1>1, <1>3, <2>2 DEF Told, Both
  <2> QED  BY <2>2, <2>3, ObjectSame
<1>4. KeptIn(p, o)  BY <1>2, <1>3 DEF KeptIn
<1> QED  BY <1>4 DEF p

-----------------------------------------------------------------------------
(***************************************************************************)
(* The inductive invariant: while a value is under way it tells what the   *)
(* packet says, and what was read from it says the same.                   *)
(***************************************************************************)
JsonInv ==
  /\ stage = "json" => origin = object /\ Tells(json, object)
  /\ JsonKeeps

(***************************************************************************)
(* What a controller adds changes no section.                              *)
(***************************************************************************)
LEMMA JoinedTells ==
  ASSUME NEW v, NEW o, Tells(v, o), NEW f
  PROVE  Tells(Joined(v, f), o)
<1>1. DOMAIN Joined(v, f) = DOMAIN v \cup DOMAIN f /\ \A x \in DOMAIN v : Joined(v, f)[x] = v[x]
  BY Zenon DEF Joined
<1> QED  BY <1>1 DEF Tells

(***************************************************************************)
(* ToJson tells what the packet says.                                      *)
(***************************************************************************)
LEMMA ToJsonTells ==
  ASSUME NEW p
  PROVE  Tells(ToJson(p), p)
<1>1. Tells(SectionsToJson(p), p)  BY Zenon DEF Tells, SectionsToJson
<1>2. ToJson(p) = SectionsToJson(p) \/ ToJson(p) = Joined(SectionsToJson(p), [paths |-> PathsOf(p)])
  BY Zenon DEF ToJson
<1> QED  BY <1>1, <1>2, JoinedTells

(***************************************************************************)
(* The section of a discovery packet holds fields of its head.             *)
(***************************************************************************)
LEMMA DiscoveryJsonHeld ==
  /\ LayoutOf(DiscoveryJson, 4, DiscoveryNames) /\ \A p : DPacket(p) => Filled(p, DiscoveryJson, 4)
  /\ "class" \notin Names(DiscoveryJson)
<1>1. DOMAIN DiscoveryJson = 1..4 /\ 1..4 = {1, 2, 3, 4}  BY DEF DiscoveryJson
<1>2. /\ DiscoveryJson[1][1] = "xid" /\ DiscoveryJson[1][2] = 4
      /\ DiscoveryJson[2][1] = "from" /\ DiscoveryJson[2][2] = 8
      /\ DiscoveryJson[3][1] = "to" /\ DiscoveryJson[3][2] = 8
      /\ DiscoveryJson[4][1] = "linklength" /\ DiscoveryJson[4][2] = 2
  BY DEF DiscoveryJson
<1>3. {"xid", "from", "to", "linklength"} \subseteq DiscoveryNames  BY DEF DiscoveryNames
<1>4. LayoutOf(DiscoveryJson, 4, DiscoveryNames)  BY <1>1, <1>2, <1>3 DEF LayoutOf
<1>5. ASSUME NEW p, DPacket(p) PROVE Filled(p, DiscoveryJson, 4)
  <2>1. Fits(p["xid"], 4) /\ Fits(p["from"], 8) /\ Fits(p["to"], 8)
    BY <1>5, DPacketBy, FitsWide
  <2>2. p["linklength"] \in Short  BY <1>5, DPacketBy
  <2>3. Fits(p["linklength"], 2)  BY <2>2 DEF Fits
  <2> QED  BY <1>1, <1>2, <2>1, <2>3 DEF Filled
<1>6. "class" \notin Names(DiscoveryJson)  BY <1>1, <1>2 DEF Names
<1> QED  BY <1>4, <1>5, <1>6

(***************************************************************************)
(* A discovery packet is read with what the value says of its head, the    *)
(* length of the links included, which was counted just before.            *)
(***************************************************************************)
LEMMA DiscoveryKeeps ==
  ASSUME NEW o, DPacket(o), NEW value, Tells(value, o), value.paths = PathsOf(o)
  PROVE  KeptIn(FromJson(NewDiscovery, value), o)
<1> DEFINE links == NewDiscovery.m_links \o LinksFromJson(value.paths)
           size == LinkSize * Len(links)
           a == Put(NewDiscovery, "m_links", links)
           q == Put(a, "linklength", size)
           p == Assigned(q, value.top, DiscoveryJson)
<1>1. Function(NewDiscovery, DiscoveryNames) /\ NewDiscovery.class = "Discovery"
  BY NewDiscoveryFits DEF DPacket
<1>2. FromJson(NewDiscovery, value) = p
  <2>1. FromJson(NewDiscovery, value) = DiscoveryFromJson(NewDiscovery, value)
    BY <1>1, Zenon DEF FromJson
  <2>2. DiscoveryFromJson(NewDiscovery, value) = Assigned([NewDiscovery EXCEPT !.m_links =
        links, !.linklength = size], value.top, DiscoveryJson)
    BY Zenon DEF DiscoveryFromJson
  <2>3. [NewDiscovery EXCEPT !.m_links = links, !.linklength = size] = q
    <3> HIDE DEF links, size
    <3> QED  BY Zenon DEF Put
  <2> QED  BY <2>1, <2>2, <2>3
<1> HIDE DEF links, size
<1>3. {"class", "m_links", "linklength"} \subseteq DiscoveryNames  BY DEF DiscoveryNames
<1>4. Function(a, DiscoveryNames) /\ a.class = "Discovery"  BY <1>1, <1>3, Updated
<1> HIDE DEF a
<1>5. Function(q, DiscoveryNames) /\ q.class = "Discovery"  BY <1>3, <1>4, Updated
<1> HIDE DEF q
<1>6. o.class = "Discovery" /\ SectionsOf("Discovery") = [top |-> DiscoveryJson]
  BY DEF SectionsOf, DPacket
<1>7. value.top = ObjectOf(o, DiscoveryJson)  BY <1>6 DEF Tells
<1>8. AssignedFrom(p, q, o, DiscoveryJson, DiscoveryNames)
  BY <1>5, <1>7, DiscoveryJsonHeld, AssignedBack
<1> HIDE DEF p
<1>9. p.class = "Discovery" /\ \A x \in Names(DiscoveryJson) : p[x] = o[x]
  BY <1>3, <1>5, <1>8, DiscoveryJsonHeld DEF AssignedFrom
<1>10. ObjectOf(p, DiscoveryJson) = ObjectOf(o, DiscoveryJson)  BY <1>9, ObjectSame
<1>11. KeptIn(p, o)  BY <1>6, <1>9, <1>10 DEF KeptIn
<1> QED  BY <1>2, <1>11

(***************************************************************************)
(* No packet is there or back from there at other stages.                  *)
(***************************************************************************)
LEMMA JsonElsewhere == stage' \notin {"json", "read"} => JsonInv'
  BY DEF JsonInv, JsonKeeps

(***************************************************************************)
(* The report tells what the packet says, checksums filled in.             *)
(***************************************************************************)
LEMMA JsonReported == Report => JsonInv'
<1> SUFFICES ASSUME Report PROVE JsonInv'
  OBVIOUS
<1> DEFINE p == Summed(object)
<1>1. /\ stage' = "json" /\ object' = p /\ origin' = p
      /\ json' = ToJson(p) \/ \E f : json' = Joined(ToJson(p), f)
  <2> HIDE DEF p
  <2> QED  BY DEF Report, p
<1> HIDE DEF p
<1>2. Tells(json', p)  BY <1>1, ToJsonTells, JoinedTells
<1> QED  BY <1>1, <1>2 DEF JsonInv, JsonKeeps, Tells

(***************************************************************************)
(* Reading it keeps what it says.                                          *)
(***************************************************************************)
LEMMA JsonReadJson == PathInv /\ FitsInv /\ JsonInv /\ ReadJson => JsonInv'
<1> SUFFICES ASSUME PathInv, FitsInv, JsonInv, ReadJson PROVE JsonInv'
  OBVIOUS
<1>1. stage = "json" /\ origin' = origin /\ origin = object /\ Tells(json, object)
  BY DEF ReadJson, JsonInv
<1>2. CASE Travels(object)
  <2>1. stage' = "read" /\ object' = FromJson(NewDiscovery, json)  BY <1>2 DEF ReadJson, Travels
  <2>2. DPacket(object) /\ json.paths = PathsOf(object)  BY <1>1, <1>2 DEF PathInv, OfPath
  <2>3. KeptIn(object', origin')  BY <1>1, <2>1, <2>2, DiscoveryKeeps
  <2> QED  BY <2>1, <2>3 DEF JsonInv, JsonKeeps, KeptIn
<1>3. CASE ~Travels(object) /\ "type" \notin DOMAIN json
  <2>1. stage' = "refused"  BY <1>3 DEF ReadJson, Travels
  <2> QED  BY <2>1, JsonElsewhere
<1>4. CASE ~Travels(object) /\ "type" \in DOMAIN json
  <2> DEFINE c == JsonClass(json)
  <2>1. stage' = "read" /\ object' = FromJson(New(c), json)  BY <1>4 DEF ReadJson, Travels
  <2>2. Made(object)  BY <1>1, <1>4 DEF FitsInv, Ready
  <2>3. c \in ReadFrom  BY ReadFromAre
  <2> HIDE DEF c
  <2>4. KeptIn(object', origin')  BY <1>1, <2>1, <2>2, <2>3, ReadKeeps
  <2> QED  BY <2>1, <2>4 DEF JsonInv, JsonKeeps, KeptIn
<1> QED  BY <1>2, <1>3, <1>4

(***************************************************************************)
(* The other steps make no JSON.                                           *)
(***************************************************************************)
LEMMA JsonOtherwise ==
  BuildTags \/ BuildPayload \/ BuildOption \/ BuildService \/ BuildTLV \/ BuildLink \/ Copy
    \/ Encode \/ Input \/ Discover \/ GoesOn => JsonInv'
<1>1. BuildTags \/ BuildPayload \/ BuildOption \/ BuildService \/ BuildTLV \/ BuildLink
        => stage' = "built"
  BY DEF BuildTags, BuildPayload, BuildOption, BuildService, BuildTLV, BuildLink, Built, Started
<1>2. Copy \/ Encode \/ Input \/ Discover \/ GoesOn => stage' \notin {"json", "read"}
  BY DEF Copy, Encode, Input, Discover, GoesOn
<1> QED  BY <1>1, <1>2, JsonElsewhere

(***************************************************************************)
(* For all frames, payloads, options, TLVs, tags and links: the packet     *)
(* that a controller makes of what ToJson wrote says the same in every     *)
(* section that its class and the sender's have in common, also where      *)
(* DecodeEthernetFromJson made a packet of another class (a type in the    *)
(* section, where it is not looked for; a protocol that is not found).     *)
(***************************************************************************)
THEOREM JsonIsKept == Spec => []JsonKeeps
<1>1. Init => PathInv /\ FitsInv /\ JsonInv
  <2>1. Init => stage \in {"built", "wire"}  BY DEF Init
  <2> QED  BY <2>1, PathStarts, FitsStarts DEF JsonInv, JsonKeeps
<1>2. PathInv /\ [Next]_vars => PathInv'
  BY PathBuiltTags, PathBuiltFields, PathBuiltLink, PathCopied, PathEncoded, PathTakenIn,
     PathDiscovered, PathGoesOn, PathReported, PathReadJson, PathStays DEF Next
<1>3. PathInv /\ FitsInv /\ [Next]_vars => FitsInv'
  BY FitsBuiltTags, FitsBuiltPayload, FitsBuiltOption, FitsBuiltTLV, FitsBuiltLink, FitsCopied,
     FitsEncoded, FitsTakenIn, FitsDiscovered, FitsGoesOn, FitsReported, FitsReadJson, FitsStays
     DEF Next
<1>4. PathInv /\ FitsInv /\ JsonInv /\ [Next]_vars => JsonInv'
  <2>1. JsonInv /\ UNCHANGED vars => JsonInv'  BY DEF vars, JsonInv, JsonKeeps, Tells
  <2> QED  BY <2>1, JsonOtherwise, JsonReported, JsonReadJson DEF Next
<1>5. JsonInv => JsonKeeps  BY DEF JsonInv
<1> QED  BY <1>1, <1>2, <1>3, <1>4, <1>5, PTL DEF Spec
=============================================================================
