--------------------------- MODULE SessionsProofs ---------------------------
(***************************************************************************)
(* Proofs about Sessions, for all peers, keys, cells, stations and         *)
(* configurations: what reading the lists of peers yields, for files of any*)
(* length; the agreement of the session objects with the session manager   *)
(* and the switch, and what rests on it.                                   *)
(***************************************************************************)
EXTENDS Sessions, WellFoundedInduction, TLAPS

(***************************************************************************)
(* The order of the naturals, which is well founded, and what it gives: a  *)
(* set that has 0 and, with a number, the next one, has all up to n.       *)
(***************************************************************************)
Before == {ss \in Nat \X Nat : ss[1] < ss[2]}

LEMMA BeforeWellFounded == IsWellFoundedOn(Before, Nat)
BY NatLessThanWellFounded DEF OpToRel, Before

LEMMA Climb ==
  ASSUME NEW n \in Nat, NEW T, 0 \in T, \A k \in 0..(n - 1) : k \in T => k + 1 \in T
  PROVE  \A k \in 0..n : k \in T
<1> DEFINE Missing == {k \in 0..n : k \notin T}
<1>1. SUFFICES ASSUME Missing # {} PROVE FALSE
  OBVIOUS
<1>2. Missing \subseteq Nat
  OBVIOUS
<1>3. PICK x \in Missing : \A y \in Missing : <<y, x>> \notin Before
  BY <1>1, <1>2, BeforeWellFounded, WFMin
<1>4. x \in 1..n /\ x - 1 \in 0..(n - 1) /\ (x - 1) + 1 = x
  OBVIOUS
<1>5. x - 1 \notin T
  BY <1>4
<1>6. x - 1 \in Missing /\ <<x - 1, x>> \in Before
  BY <1>4, <1>5 DEF Before
<1>7. QED
  BY <1>3, <1>6

-----------------------------------------------------------------------------
(***************************************************************************)
(* The numbers that the first n entries name: up to an entry that is of    *)
(* another type, by 16 bits of a number that is not zero.                  *)
(***************************************************************************)
NamedBy(entries, n) ==
  {jno \in Uint16 :
     \E i \in 1..n : /\ \A j \in 1..i : entries[j].jno # "other"
                     /\ entries[i].jno = "number" /\ entries[i].value # 0
                     /\ entries[i].value % 65536 = jno}

(***************************************************************************)
(* AddList adds the number, and only it.                                   *)
(***************************************************************************)
LEMMA AddListAdds ==
  ASSUME NEW list \in Seq(Uint16), NEW unit \in Uint16
  PROVE  /\ AddList(list, unit) \in Seq(Uint16)
         /\ \A x : Contains(AddList(list, unit), x) <=> Contains(list, x) \/ x = unit
<1>1. CASE Contains(list, unit)
  BY <1>1 DEF AddList
<1>2. CASE ~Contains(list, unit)
  <2>1. AddList(list, unit) = Append(list, unit)
    BY <1>2 DEF AddList
  <2>2. /\ Len(Append(list, unit)) = Len(list) + 1 /\ Len(list) \in Nat
        /\ Append(list, unit) \in Seq(Uint16)
        /\ \A i \in 1..Len(list) : Append(list, unit)[i] = list[i]
        /\ Append(list, unit)[Len(list) + 1] = unit
    OBVIOUS
  <2>3. \A i : i \in 1..(Len(list) + 1) <=> i \in 1..Len(list) \/ i = Len(list) + 1
    BY <2>2
  <2>4. QED
    BY <2>1, <2>2, <2>3 DEF Contains
<1>3. QED
  BY <1>1, <1>2

(***************************************************************************)
(* One entry: what was read of the first n - 1 and entry n make what is    *)
(* read of the first n.                                                    *)
(***************************************************************************)
Faithful(read, entries, n) ==
  /\ read \in Readings
  /\ read.failed <=> \E j \in 1..n : entries[j].jno = "other"
  /\ \A x : Contains(read.list, x) <=> x \in NamedBy(entries, n)

LEMMA ReadEntryFaithful ==
  ASSUME NEW entries \in Seq(Entries), NEW n \in 1..Len(entries),
         NEW read, Faithful(read, entries, n - 1)
  PROVE  Faithful(ReadEntry(read, entries[n]), entries, n)
<1> DEFINE entry == entries[n]
<1>1. /\ entry.jno \in {"number", "absent", "other"} /\ entry.value \in Int
      /\ read \in Readings /\ read.list \in Seq(Uint16) /\ read.failed \in BOOLEAN
      /\ n \in Nat /\ n - 1 \in Nat
  <2>1. n \in 1..Len(entries) /\ Len(entries) \in Nat /\ entries[n] \in Entries
    OBVIOUS
  <2>2. read \in Readings
    BY DEF Faithful
  <2>3. QED
    BY <2>1, <2>2 DEF Entries, Readings
<1>2. \A i : i \in 1..n <=> i \in 1..(n - 1) \/ i = n
  BY <1>1
<1>3. NamedBy(entries, n) = NamedBy(entries, n - 1) \cup
        {jno \in Uint16 : /\ \A j \in 1..n : entries[j].jno # "other"
                            /\ entry.jno = "number" /\ entry.value # 0
                            /\ entry.value % 65536 = jno}
  <2> DEFINE Names(i, jno) == /\ \A j \in 1..i : entries[j].jno # "other"
                              /\ entries[i].jno = "number" /\ entries[i].value # 0
                              /\ entries[i].value % 65536 = jno
  <2>1. /\ NamedBy(entries, n) = {jno \in Uint16 : \E i \in 1..n : Names(i, jno)}
        /\ NamedBy(entries, n - 1) = {jno \in Uint16 : \E i \in 1..(n - 1) : Names(i, jno)}
    BY DEF NamedBy
  <2>2. \A jno : Names(n, jno) <=> /\ \A j \in 1..n : entries[j].jno # "other"
                                  /\ entry.jno = "number" /\ entry.value # 0
                                  /\ entry.value % 65536 = jno
    OBVIOUS
  <2> HIDE DEF Names, entry
  <2>3. \A jno : (\E i \in 1..n : Names(i, jno)) <=>
                (\E i \in 1..(n - 1) : Names(i, jno)) \/ Names(n, jno)
    BY <1>2
  <2>4. QED
    BY <2>1, <2>2, <2>3
<1>4. /\ read.failed <=> \E j \in 1..(n - 1) : entries[j].jno = "other"
      /\ \A x : Contains(read.list, x) <=> x \in NamedBy(entries, n - 1)
  BY DEF Faithful
<1> HIDE DEF entry
<1>5. CASE read.failed
  <2>1. ReadEntry(read, entry) = read
    BY <1>5 DEF ReadEntry
  <2>2. \E j \in 1..n : entries[j].jno = "other"
    BY <1>2, <1>4, <1>5
  <2>3. NamedBy(entries, n) = NamedBy(entries, n - 1)
    BY <1>3, <2>2
  <2>4. QED
    BY <1>1, <1>4, <1>5, <2>1, <2>2, <2>3 DEF Faithful, entry
<1>6. CASE ~read.failed /\ entry.jno = "other"
  <2>1. ReadEntry(read, entry) = [read EXCEPT !.failed = TRUE]
    BY <1>6 DEF ReadEntry
  <2>2. n \in 1..n /\ entries[n].jno = "other"
    BY <1>1, <1>6 DEF entry
  <2>3. NamedBy(entries, n) = NamedBy(entries, n - 1)
    BY <1>3, <1>6
  <2>4. /\ [read EXCEPT !.failed = TRUE] \in Readings
        /\ [read EXCEPT !.failed = TRUE].failed
        /\ [read EXCEPT !.failed = TRUE].list = read.list
    BY <1>1 DEF Readings
  <2> DEFINE after == ReadEntry(read, entry)
  <2>5. after \in Readings /\ after.failed /\ after.list = read.list
    BY <2>1, <2>4
  <2> HIDE DEF after
  <2>6. Faithful(after, entries, n)
    BY <1>4, <2>2, <2>3, <2>5 DEF Faithful
  <2>7. QED
    BY <2>6 DEF after, entry
<1>7. CASE ~read.failed /\ entry.jno # "other" /\ (entry.jno = "absent" \/ entry.value = 0)
  <2>1. ReadEntry(read, entry) = read
    BY <1>7 DEF ReadEntry
  <2>2. ~\E j \in 1..n : entries[j].jno = "other"
    BY <1>2, <1>4, <1>7 DEF entry
  <2>3. NamedBy(entries, n) = NamedBy(entries, n - 1)
    BY <1>3, <1>7
  <2>4. QED
    BY <1>1, <1>4, <1>7, <2>1, <2>2, <2>3 DEF Faithful, entry
<1>8. CASE ~read.failed /\ entry.jno = "number" /\ entry.value # 0
  <2> DEFINE unit == entry.value % 65536
  <2>1. unit \in Uint16
    <3>1. \A v \in Int : v % 65536 \in Nat /\ v % 65536 < 65536
      OBVIOUS
    <3>2. QED
      BY <1>1, <3>1 DEF Uint16
  <2>2. ReadEntry(read, entry) = [read EXCEPT !.list = AddList(read.list, unit)]
    BY <1>8 DEF ReadEntry
  <2>3. ~\E j \in 1..n : entries[j].jno = "other"
    BY <1>2, <1>4, <1>8 DEF entry
  <2>4. NamedBy(entries, n) = NamedBy(entries, n - 1) \cup {unit}
    BY <1>3, <1>8, <2>1, <2>3
  <2> HIDE DEF unit
  <2>5. /\ AddList(read.list, unit) \in Seq(Uint16)
        /\ \A x : Contains(AddList(read.list, unit), x) <=> Contains(read.list, x) \/ x = unit
    BY <1>1, <2>1, AddListAdds
  <2> DEFINE list == AddList(read.list, unit)
  <2> HIDE DEF list
  <2>6. /\ [read EXCEPT !.list = list] \in Readings
        /\ [read EXCEPT !.list = list].failed = read.failed
        /\ [read EXCEPT !.list = list].list = list
    BY <1>1, <2>5 DEF Readings, list
  <2> DEFINE after == ReadEntry(read, entry)
  <2>7. after \in Readings /\ after.failed = read.failed /\ after.list = list
    BY <2>2, <2>6 DEF list
  <2> HIDE DEF after
  <2>8. after.failed <=> \E j \in 1..n : entries[j].jno = "other"
    BY <1>8, <2>3, <2>7
  <2>9. \A x : Contains(after.list, x) <=> x \in NamedBy(entries, n)
    BY <1>4, <2>4, <2>5, <2>7 DEF list
  <2>10. Faithful(after, entries, n)
    BY <2>7, <2>8, <2>9 DEF Faithful
  <2>11. QED
    BY <2>10 DEF after, entry
<1>9. QED
  BY <1>1, <1>5, <1>6, <1>7, <1>8 DEF entry

(***************************************************************************)
(* The function that ReadUpTo defines by recursion exists, so that what is *)
(* read of the first n entries is what its definition says, for each n.    *)
(***************************************************************************)
Nothing == [list |-> <<>>, failed |-> FALSE]

Readers(entries, n) ==
  {f \in [0..n -> Readings] :
     /\ f[0] = Nothing
     /\ \A k \in 1..n : f[k] = ReadEntry(f[k - 1], entries[k]) /\ Faithful(f[k], entries, k)}

LEMMA NothingFaithful ==
  ASSUME NEW entries
  PROVE  Nothing \in Readings /\ Faithful(Nothing, entries, 0)
<1>1. Nothing \in Readings /\ Nothing.failed = FALSE /\ Nothing.list = <<>>
  BY DEF Nothing, Readings
<1>2. \A x : ~Contains(<<>>, x)
  BY DEF Contains
<1>3. NamedBy(entries, 0) = {}
  BY DEF NamedBy
<1>4. QED
  BY <1>1, <1>2, <1>3 DEF Faithful

LEMMA ReadersExist ==
  ASSUME NEW entries \in Seq(Entries)
  PROVE  Readers(entries, Len(entries)) # {}
<1> DEFINE N == Len(entries)
           T == {k \in 0..N : Readers(entries, k) # {}}
<1>1. N \in Nat
  OBVIOUS
<1> HIDE DEF N
<1>2. 0 \in T
  <2>1. [k \in 0..0 |-> Nothing] \in Readers(entries, 0)
    BY NothingFaithful DEF Readers
  <2>2. QED
    BY <1>1, <2>1
<1>3. ASSUME NEW k \in 0..(N - 1), k \in T PROVE k + 1 \in T
  <2>1. PICK f : f \in Readers(entries, k)
    BY <1>3
  <2>2. /\ k \in Nat /\ k + 1 \in 1..Len(entries) /\ (k + 1) - 1 = k
        /\ f \in [0..k -> Readings] /\ f[0] = Nothing
        /\ \A j \in 1..k : f[j] = ReadEntry(f[j - 1], entries[j]) /\ Faithful(f[j], entries, j)
    BY <1>1, <2>1 DEF Readers, N
  <2>3. Faithful(f[k], entries, k)
    <3>1. CASE k = 0
      BY <2>2, <3>1, NothingFaithful
    <3>2. CASE k # 0
      <4>1. k \in 1..k
        BY <2>2, <3>2
      <4>2. QED
        BY <2>2, <4>1
    <3>3. QED
      BY <3>1, <3>2
  <2> DEFINE next == ReadEntry(f[k], entries[k + 1])
             g == [j \in 0..(k + 1) |-> IF j = k + 1 THEN next ELSE f[j]]
  <2>4. Faithful(next, entries, k + 1)
    BY <2>2, <2>3, ReadEntryFaithful
  <2>5. next \in Readings
    BY <2>4 DEF Faithful
  <2> HIDE DEF next
  <2>6. g \in [0..(k + 1) -> Readings] /\ g[0] = Nothing
    BY <2>2, <2>5
  <2>7. ASSUME NEW j \in 1..(k + 1)
        PROVE  g[j] = ReadEntry(g[j - 1], entries[j]) /\ Faithful(g[j], entries, j)
    <3>1. CASE j = k + 1
      <4>1. g[j] = next /\ g[j - 1] = f[k]
        BY <2>2, <3>1
      <4>2. QED
        BY <2>4, <3>1, <4>1 DEF next
    <3>2. CASE j # k + 1
      <4>1. j \in 1..k /\ g[j] = f[j] /\ g[j - 1] = f[j - 1]
        BY <2>2, <3>2
      <4>2. QED
        BY <2>2, <4>1
    <3>3. QED
      BY <3>1, <3>2
  <2>8. g \in Readers(entries, k + 1)
    BY <2>6, <2>7 DEF Readers
  <2>9. QED
    BY <1>1, <2>2, <2>8
<1>4. N \in T
  <2> HIDE DEF T
  <2>1. \A k \in 0..N : k \in T
    BY <1>1, <1>2, <1>3, Climb
  <2>2. QED
    BY <1>1, <2>1
<1>5. QED
  BY <1>4 DEF N

LEMMA ReadUpToFaithful ==
  ASSUME NEW entries \in Seq(Entries)
  PROVE  Faithful(ReadUpTo(entries)[Len(entries)], entries, Len(entries))
<1> DEFINE N == Len(entries)
           Reads(f) == f = [n \in 0..N |-> IF n = 0 THEN Nothing ELSE ReadEntry(f[n - 1], entries[n])]
<1>1. N \in Nat
  OBVIOUS
<1>2. PICK f : f \in Readers(entries, N)
  BY ReadersExist
<1>3. Reads(f)
  <2>1. f \in [0..N -> Readings] /\ f[0] = Nothing
    BY <1>2 DEF Readers
  <2>2. \A n \in 0..N : f[n] = IF n = 0 THEN Nothing ELSE ReadEntry(f[n - 1], entries[n])
    <3>1. TAKE n \in 0..N
    <3>2. n = 0 \/ n \in 1..N
      BY <1>1
    <3>3. QED
      BY <1>2, <2>1, <3>2 DEF Readers
  <2>3. QED
    BY <2>1, <2>2
<1>4. ReadUpTo(entries) = CHOOSE r : Reads(r)
  BY DEF ReadUpTo, Nothing
<1>5. Reads(ReadUpTo(entries))
  BY <1>3, <1>4
<1> DEFINE r == ReadUpTo(entries)
           T == {k \in 0..N : Faithful(r[k], entries, k)}
<1>6. /\ r[0] = Nothing
      /\ \A n \in 1..N : r[n] = ReadEntry(r[n - 1], entries[n])
  BY <1>1, <1>5
<1> HIDE DEF r
<1>7. 0 \in T
  BY <1>1, <1>6, NothingFaithful
<1>8. ASSUME NEW k \in 0..(N - 1), k \in T PROVE k + 1 \in T
  <2>1. k + 1 \in 1..N /\ (k + 1) - 1 = k /\ k + 1 \in 0..N
    BY <1>1
  <2>2. Faithful(r[k], entries, k)
    BY <1>8
  <2>3. Faithful(ReadEntry(r[k], entries[k + 1]), entries, k + 1)
    BY <2>1, <2>2, ReadEntryFaithful
  <2>4. QED
    BY <1>6, <2>1, <2>3
<1>9. N \in T
  <2> HIDE DEF T, N
  <2>1. \A k \in 0..N : k \in T
    BY <1>1, <1>7, <1>8, Climb
  <2>2. QED
    BY <1>1, <2>1
<1>10. QED
  BY <1>9 DEF r

(***************************************************************************)
(* Init of a list (CWhiteList 12-70, CBlackList 12-70): for a file of any  *)
(* number of entries, the list holds exactly the numbers the file names.   *)
(***************************************************************************)
THEOREM ListHoldsTheNamed ==
  ASSUME NEW file \in Files
  PROVE  /\ ListInit(file) \in Seq(Uint16)
         /\ \A x : Contains(ListInit(file), x) <=>
                     file.array /\ x \in NamedBy(file.entries, Len(file.entries))
<1>1. file.entries \in Seq(Entries) /\ file.array \in BOOLEAN
  BY DEF Files
<1>2. CASE file.array
  <2>1. ListInit(file) = ReadUpTo(file.entries)[Len(file.entries)].list
    BY <1>2 DEF ListInit
  <2>2. QED
    BY <1>1, <1>2, <2>1, ReadUpToFaithful DEF Faithful, Readings
<1>3. CASE ~file.array
  BY <1>3 DEF ListInit, Contains
<1>4. QED
  BY <1>2, <1>3

-----------------------------------------------------------------------------
(***************************************************************************)
(* What the manager holds, by type.                                        *)
(***************************************************************************)
SessionStates == [peer: Peers \cup {Null}, policy: PolicyStates \cup {NoPolicy}]

VNets == [session: [Cells -> SessionStates], m_sessions: [Keys -> Cells \cup {Null}],
          sinks: SUBSET (Cells \cup {Tap}), m_macTable: [Macs -> Cells \cup {Null}]]

(***************************************************************************)
(* In which modes a session has a policy.                                  *)
(***************************************************************************)
Fits(policy, m) == policy = NoPolicy <=> m \in {"mppp", "ppp"}

(***************************************************************************)
(* What holds between the objects, the map and the sinks in mode m.        *)
(***************************************************************************)
Agree(v, m) ==
  /\ v \in VNets
  /\ \A c \in Live(v) : /\ v.session[c].peer \in Peers
                        /\ v.m_sessions[KeyOf[v.session[c].peer]] = c
                        /\ Fits(v.session[c].policy, m)
  /\ \A k \in Keys : v.m_sessions[k] # Null =>
       /\ v.m_sessions[k] \in Live(v)
       /\ KeyOf[v.session[v.m_sessions[k]].peer] = k
  /\ v.sinks = IF m = "vswitch" THEN Live(v) \cup {Tap} ELSE {}

(***************************************************************************)
(* A session joins in a cell that was free, or none does.                  *)
(***************************************************************************)
Joins(v, w, m, c, peer) ==
  /\ w \in VNets
  /\ v.m_sessions[KeyOf[peer]] = Null
  /\ \E q \in PolicyStates \cup {NoPolicy} :
       /\ Fits(q, m)
       /\ w.session = [v.session EXCEPT ![c] = [peer |-> peer, policy |-> q]]
  /\ w.m_sessions = [v.m_sessions EXCEPT ![KeyOf[peer]] = c]
  /\ w.sinks = IF m = "vswitch" THEN v.sinks \cup {c} ELSE v.sinks
  /\ w.m_macTable = v.m_macTable

LEMMA JoinKeepsAgreement ==
  ASSUME NEW v, NEW w, NEW m, NEW c \in Cells, NEW peer \in Peers,
         Agree(v, m), c \notin Live(v), Joins(v, w, m, c, peer)
  PROVE  /\ Agree(w, m)
         /\ \A d \in Live(v) : d # c /\ d \in Live(w) /\ w.session[d] = v.session[d]
         /\ \A d \in Live(w) : d = c \/ d \in Live(v)
         /\ w.session[c].peer = peer
<1>1. PICK q \in PolicyStates \cup {NoPolicy} :
        /\ Fits(q, m)
        /\ w.session = [v.session EXCEPT ![c] = [peer |-> peer, policy |-> q]]
  BY DEF Joins
<1>2. /\ v \in VNets /\ w \in VNets
      /\ KeyOf[peer] \in Keys
      /\ w.m_sessions = [v.m_sessions EXCEPT ![KeyOf[peer]] = c]
      /\ v.m_sessions[KeyOf[peer]] = Null
  BY KeysAssumption DEF Joins, Agree
<1>3. /\ \A d \in Cells : w.session[d] = IF d = c THEN [peer |-> peer, policy |-> q]
                                         ELSE v.session[d]
      /\ \A k \in Keys : w.m_sessions[k] = IF k = KeyOf[peer] THEN c ELSE v.m_sessions[k]
  BY <1>1, <1>2 DEF VNets
<1>4. Live(w) = Live(v) \cup {c}
  <2>1. [peer |-> peer, policy |-> q] # NoSession
    BY PeersAssumption DEF NoSession
  <2>2. QED
    BY <1>3, <2>1 DEF Live
<1>5. \A d \in Live(v) : d # c /\ d \in Live(w) /\ w.session[d] = v.session[d]
  BY <1>3, <1>4 DEF Live
<1>6. \A d \in Live(w) : /\ w.session[d].peer \in Peers
                         /\ w.m_sessions[KeyOf[w.session[d].peer]] = d
                         /\ Fits(w.session[d].policy, m)
  <2>1. TAKE d \in Live(w)
  <2>2. CASE d = c
    BY <1>1, <1>2, <1>3, <2>2
  <2>3. CASE d # c
    <3>1. /\ d \in Live(v) /\ d \in Cells /\ w.session[d] = v.session[d]
      BY <1>3, <1>4, <2>3 DEF Live
    <3>2. /\ v.session[d].peer \in Peers
          /\ v.m_sessions[KeyOf[v.session[d].peer]] = d
          /\ Fits(v.session[d].policy, m)
      BY <3>1 DEF Agree
    <3>3. KeyOf[v.session[d].peer] \in Keys /\ KeyOf[v.session[d].peer] # KeyOf[peer]
      BY <1>2, <3>1, <3>2, CellsAssumption, KeysAssumption
    <3>4. QED
      BY <1>3, <3>1, <3>2, <3>3
  <2>4. QED
    BY <2>2, <2>3
<1>7. \A k \in Keys : w.m_sessions[k] # Null =>
        /\ w.m_sessions[k] \in Live(w)
        /\ KeyOf[w.session[w.m_sessions[k]].peer] = k
  <2>1. SUFFICES ASSUME NEW k \in Keys, w.m_sessions[k] # Null
                 PROVE  /\ w.m_sessions[k] \in Live(w)
                        /\ KeyOf[w.session[w.m_sessions[k]].peer] = k
    OBVIOUS
  <2>2. CASE k = KeyOf[peer]
    BY <1>3, <1>4, <2>2
  <2>3. CASE k # KeyOf[peer]
    <3>1. w.m_sessions[k] = v.m_sessions[k]
      BY <1>3, <2>3
    <3>2. /\ v.m_sessions[k] \in Live(v)
          /\ KeyOf[v.session[v.m_sessions[k]].peer] = k
      BY <2>1, <3>1 DEF Agree
    <3>3. QED
      BY <1>5, <3>1, <3>2
  <2>4. QED
    BY <2>2, <2>3
<1>8. w.sinks = IF m = "vswitch" THEN Live(w) \cup {Tap} ELSE {}
  BY <1>4 DEF Joins, Agree
<1>9. w.session[c].peer = peer
  BY <1>3
<1>10. QED
  BY <1>2, <1>4, <1>5, <1>6, <1>7, <1>8, <1>9 DEF Agree

(***************************************************************************)
(* RemoveSession takes away exactly the session of the key.                *)
(***************************************************************************)
LEMMA RemovalKeepsAgreement ==
  ASSUME NEW v, NEW m, NEW key \in Keys, Agree(v, m), v.m_sessions[key] # Null
  PROVE  /\ Agree(RemoveSession(v, key), m)
         /\ \A d \in Live(v) : KeyOf[v.session[d].peer] # key =>
              /\ d \in Live(RemoveSession(v, key))
              /\ RemoveSession(v, key).session[d] = v.session[d]
         /\ \A d \in Live(RemoveSession(v, key)) :
              d \in Live(v) /\ RemoveSession(v, key).session[d] = v.session[d]
         /\ RemoveSession(v, key).m_macTable = v.m_macTable
<1> DEFINE c == v.m_sessions[key]
           w == RemoveSession(v, key)
<1>1. v \in VNets /\ c \in Live(v) /\ c \in Cells /\ KeyOf[v.session[c].peer] = key
  BY DEF Agree, Live
<1>2. NoSession \in SessionStates
  BY DEF NoSession, SessionStates
<1>3. /\ w \in VNets
      /\ w.session = [v.session EXCEPT ![c] = NoSession]
      /\ w.m_sessions = [v.m_sessions EXCEPT ![key] = Null]
      /\ w.sinks = v.sinks \ {c}
      /\ w.m_macTable = v.m_macTable
  BY <1>1, <1>2 DEF RemoveSession, Destroy, VNets
<1>4. /\ \A d \in Cells : w.session[d] = IF d = c THEN NoSession ELSE v.session[d]
      /\ \A k \in Keys : w.m_sessions[k] = IF k = key THEN Null ELSE v.m_sessions[k]
  BY <1>1, <1>3 DEF VNets
<1>5. Live(w) = Live(v) \ {c}
  BY <1>4 DEF Live
<1>6. \A d \in Live(v) : KeyOf[v.session[d].peer] # key => d \in Live(w) /\ w.session[d] = v.session[d]
  BY <1>1, <1>4, <1>5 DEF Live
<1>7. \A d \in Live(w) : /\ w.session[d].peer \in Peers
                         /\ w.m_sessions[KeyOf[w.session[d].peer]] = d
                         /\ Fits(w.session[d].policy, m)
  <2>1. TAKE d \in Live(w)
  <2>2. d \in Live(v) /\ d \in Cells /\ d # c /\ w.session[d] = v.session[d]
    BY <1>4, <1>5 DEF Live
  <2>3. /\ v.session[d].peer \in Peers
        /\ v.m_sessions[KeyOf[v.session[d].peer]] = d
        /\ Fits(v.session[d].policy, m)
    BY <2>2 DEF Agree
  <2>4. KeyOf[v.session[d].peer] \in Keys /\ KeyOf[v.session[d].peer] # key
    BY <2>2, <2>3, KeysAssumption
  <2>5. QED
    BY <1>4, <2>2, <2>3, <2>4
<1>8. \A k \in Keys : w.m_sessions[k] # Null =>
        /\ w.m_sessions[k] \in Live(w)
        /\ KeyOf[w.session[w.m_sessions[k]].peer] = k
  <2>1. SUFFICES ASSUME NEW k \in Keys, w.m_sessions[k] # Null
                 PROVE  /\ w.m_sessions[k] \in Live(w)
                        /\ KeyOf[w.session[w.m_sessions[k]].peer] = k
    OBVIOUS
  <2>2. k # key /\ w.m_sessions[k] = v.m_sessions[k]
    BY <1>4, <2>1
  <2>3. v.m_sessions[k] \in Live(v) /\ KeyOf[v.session[v.m_sessions[k]].peer] = k
    BY <2>1, <2>2 DEF Agree
  <2>4. QED
    BY <1>6, <2>2, <2>3
<1>9. w.sinks = IF m = "vswitch" THEN Live(w) \cup {Tap} ELSE {}
  <2>1. c # Tap
    BY <1>1, CellsAssumption
  <2>2. QED
    BY <1>3, <1>5, <2>1 DEF Agree
<1>10. \A d \in Live(w) : d \in Live(v) /\ w.session[d] = v.session[d]
  BY <1>4, <1>5 DEF Live
<1>11. QED
  BY <1>3, <1>6, <1>7, <1>8, <1>9, <1>10 DEF Agree

-----------------------------------------------------------------------------
(***************************************************************************)
(* A new session is live: whoever it is of is not Null.                    *)
(***************************************************************************)
LEMMA NewSession ==
  ASSUME NEW peer \in Peers, NEW q \in PolicyStates \cup {NoPolicy}
  PROVE  [peer |-> peer, policy |-> q] \in SessionStates /\ NoSession \in SessionStates
BY DEF SessionStates, NoSession

LEMMA NewPolicyState ==
  /\ NewPolicy(Null) \in PolicyStates /\ NewPolicy(Null) # NoPolicy
  /\ \A os \in Grants : SessionPolicy(os) = IF os.channel THEN NewPolicy(Null) ELSE NoPolicy
<1>1. NewPolicy(Null) \in PolicyStates
  BY DEF NewPolicy, NewProbe, PolicyStates, Probes
<1>2. StringToVNetPolicy("auto") = "auto"
  BY DEF StringToVNetPolicy, Policies
<1>3. QED
  BY <1>1, <1>2, PolicyAssumption DEF SessionPolicy

(***************************************************************************)
(* A session that was made in a free cell and not admitted leaves nothing  *)
(* behind.                                                                 *)
(***************************************************************************)
LEMMA FreeCell ==
  ASSUME NEW v, NEW m, NEW c \in Cells, Agree(v, m), c \notin Live(v)
  PROVE  v \in VNets /\ v.session[c] = NoSession /\ v.sinks \ {c} = v.sinks
BY CellsAssumption DEF Agree, Live

(***************************************************************************)
(* VNetAddSession of each mode, from the object it has made and readied.   *)
(***************************************************************************)
Readied(v, w, c, peer, q, attached) ==
  /\ w \in VNets
  /\ w.session = [v.session EXCEPT ![c] = [peer |-> peer, policy |-> q]]
  /\ w.m_sessions = v.m_sessions
  /\ w.sinks = IF attached THEN v.sinks \cup {c} ELSE v.sinks
  /\ w.m_macTable = v.m_macTable

LEMMA ConstructReadies ==
  ASSUME NEW v \in VNets, NEW c \in Cells, NEW peer \in Peers
  PROVE  Readied(v, Construct(v, c, peer), c, peer, NoPolicy, FALSE)
BY NewSession DEF Readied, Construct, VNets

LEMMA SessionInitReadies ==
  ASSUME NEW v \in VNets, NEW c \in Cells, NEW peer \in Peers, NEW os \in Grants
  PROVE  Readied(v, SessionInit(Construct(v, c, peer), c, os), c, peer, SessionPolicy(os), FALSE)
<1>1. SessionPolicy(os) \in PolicyStates \cup {NoPolicy}
  BY NewPolicyState
<1>2. Readied(v, Construct(v, c, peer), c, peer, NoPolicy, FALSE)
  BY ConstructReadies
<1>3. [peer |-> peer, policy |-> SessionPolicy(os)] \in SessionStates
  BY <1>1, NewSession
<1> DEFINE w == Construct(v, c, peer)
<1>4. w.session[c] = [peer |-> peer, policy |-> NoPolicy]
  BY <1>2 DEF Readied, VNets
<1>5. [w.session EXCEPT ![c].policy = SessionPolicy(os)]
        = [v.session EXCEPT ![c] = [peer |-> peer, policy |-> SessionPolicy(os)]]
  BY <1>2, <1>4 DEF Readied, VNets
<1>6. SessionInit(w, c, os)
        = [w EXCEPT !.session = [v.session EXCEPT ![c] = [peer |-> peer, policy |-> SessionPolicy(os)]]]
  BY <1>5 DEF SessionInit
<1> HIDE DEF w
<1>7. QED
  BY <1>2, <1>3, <1>6 DEF Readied, VNets, w

LEMMA AddSinkReadies ==
  ASSUME NEW v \in VNets, NEW w, NEW c \in Cells, NEW peer, NEW q,
         Readied(v, w, c, peer, q, FALSE)
  PROVE  Readied(v, AddSink(w, c), c, peer, q, TRUE)
BY DEF Readied, AddSink, VNets

(***************************************************************************)
(* The session that was readied is destroyed, or added.                    *)
(***************************************************************************)
LEMMA DestroyRestores ==
  ASSUME NEW v, NEW w, NEW m, NEW c \in Cells, NEW peer, NEW q, NEW attached \in BOOLEAN,
         Agree(v, m), c \notin Live(v), Readied(v, w, c, peer, q, attached)
  PROVE  Destroy(w, c) = v
<1>1. v \in VNets /\ v.session[c] = NoSession /\ v.sinks \ {c} = v.sinks
  BY FreeCell
<1>2. [w.session EXCEPT ![c] = NoSession] = v.session
  BY <1>1 DEF Readied, VNets
<1>3. w.sinks \ {c} = v.sinks
  BY <1>1 DEF Readied
<1> DEFINE d == Destroy(w, c)
<1>4. /\ d \in VNets
      /\ d.session = v.session /\ d.m_sessions = v.m_sessions
      /\ d.sinks = v.sinks /\ d.m_macTable = v.m_macTable
  BY <1>1, <1>2, <1>3 DEF Destroy, Readied, VNets
<1> HIDE DEF d
<1>5. d = [session |-> d.session, m_sessions |-> d.m_sessions,
           sinks |-> d.sinks, m_macTable |-> d.m_macTable]
  BY <1>4 DEF VNets
<1>6. v = [session |-> v.session, m_sessions |-> v.m_sessions,
           sinks |-> v.sinks, m_macTable |-> v.m_macTable]
  BY <1>1 DEF VNets
<1>7. d = v
  BY <1>4, <1>5, <1>6
<1>8. QED
  BY <1>7 DEF d

LEMMA AddSessionJoins ==
  ASSUME NEW v, NEW w, NEW m, NEW c \in Cells, NEW peer \in Peers,
         NEW q \in PolicyStates \cup {NoPolicy}, NEW attached \in BOOLEAN,
         Agree(v, m), c \notin Live(v), Readied(v, w, c, peer, q, attached),
         Fits(q, m), attached <=> m = "vswitch"
  PROVE  \/ AddSession(w, c, KeyOf[peer]) = v
         \/ Joins(v, AddSession(w, c, KeyOf[peer]), m, c, peer)
<1>1. CASE w.m_sessions[KeyOf[peer]] = Null
  BY <1>1, KeysAssumption DEF AddSession, Joins, Readied, VNets
<1>2. CASE w.m_sessions[KeyOf[peer]] # Null
  BY <1>2, DestroyRestores DEF AddSession
<1>3. QED
  BY <1>1, <1>2

LEMMA VNetAddSessionJoins ==
  ASSUME Agree(vnet, mode), mode \in Modes, NEW c \in Cells, c \notin Live(vnet),
         NEW peer \in Peers, NEW os \in Grants
  PROVE  \/ VNetAddSession(c, peer, os) = vnet
         \/ Joins(vnet, VNetAddSession(c, peer, os), mode, c, peer)
<1> USE DEF Modes
<1>1. /\ vnet \in VNets
      /\ os.channel \in BOOLEAN
      /\ SessionPolicy(os) \in PolicyStates \cup {NoPolicy}
      /\ os.channel => SessionPolicy(os) # NoPolicy
  BY NewPolicyState DEF Agree, Grants
<1>2. Readied(vnet, Construct(vnet, c, peer), c, peer, NoPolicy, FALSE)
  BY <1>1, ConstructReadies
<1>3. Readied(vnet, SessionInit(Construct(vnet, c, peer), c, os), c, peer, SessionPolicy(os), FALSE)
  BY <1>1, SessionInitReadies
<1>4. CASE mode = "vswitch"
  <2> DEFINE w == SwitchSessionInit(Construct(vnet, c, peer), c, os)
  <2>1. Readied(vnet, w, c, peer, SessionPolicy(os), TRUE)
    BY <1>3, <1>1, AddSinkReadies DEF SwitchSessionInit
  <2>2. VNetAddSession(c, peer, os) = IF os.channel THEN AddSession(w, c, KeyOf[peer]) ELSE Destroy(w, c)
    BY <1>4 DEF VNetAddSession, SwitchAddSession
  <2> HIDE DEF w
  <2>3. CASE os.channel
    <3>1. Fits(SessionPolicy(os), mode)
      BY <1>1, <1>4, <2>3 DEF Fits
    <3>2. QED
      BY <1>1, <1>4, <2>1, <2>2, <2>3, <3>1, AddSessionJoins
  <2>4. CASE ~os.channel
    BY <2>1, <2>2, <2>4, DestroyRestores
  <2>5. QED
    BY <2>3, <2>4
<1>5. CASE mode = "mppp"
  <2>1. Fits(NoPolicy, mode)
    BY <1>5 DEF Fits
  <2>2. VNetAddSession(c, peer, os) = AddSession(Construct(vnet, c, peer), c, KeyOf[peer])
    BY <1>5 DEF VNetAddSession, MPPPAddSession
  <2>3. QED
    BY <1>2, <1>5, <2>1, <2>2, AddSessionJoins
<1>6. CASE mode = "ppp"
  <2>1. Fits(NoPolicy, mode)
    BY <1>6 DEF Fits
  <2>2. VNetAddSession(c, peer, os) = PPPAddSession(vnet, c, peer, os)
    BY <1>6 DEF VNetAddSession
  <2>3. CASE PPPSessionInit(os)
    BY <1>2, <1>6, <2>1, <2>2, <2>3, AddSessionJoins DEF PPPAddSession
  <2>4. CASE ~PPPSessionInit(os)
    BY <1>2, <2>2, <2>4, DestroyRestores DEF PPPAddSession
  <2>5. QED
    BY <2>3, <2>4
<1>7. CASE mode = "vos"
  <2> DEFINE w == SessionInit(Construct(vnet, c, peer), c, os)
  <2>1. VNetAddSession(c, peer, os) = IF os.channel /\ VOSPortInit(os)
                                      THEN AddSession(w, c, KeyOf[peer]) ELSE Destroy(w, c)
    BY <1>7 DEF VNetAddSession, VOSAddSession
  <2> HIDE DEF w
  <2>2. Readied(vnet, w, c, peer, SessionPolicy(os), FALSE)
    BY <1>3 DEF w
  <2>3. CASE os.channel /\ VOSPortInit(os)
    <3>1. Fits(SessionPolicy(os), mode)
      BY <1>1, <1>7, <2>3 DEF Fits
    <3>2. QED
      BY <1>1, <1>7, <2>1, <2>2, <2>3, <3>1, AddSessionJoins
  <2>4. CASE ~(os.channel /\ VOSPortInit(os))
    BY <2>1, <2>2, <2>4, DestroyRestores
  <2>5. QED
    BY <2>3, <2>4
<1>8. QED
  BY <1>4, <1>5, <1>6, <1>7

-----------------------------------------------------------------------------
(***************************************************************************)
(* What a peer makes of a packet, in mode m.                               *)
(***************************************************************************)
Understood(packet, m) ==
  IF m \in {"vswitch", "vos"}
  THEN packet.data # NoData => Delivered(packet) = packet.data
  ELSE packet \in Frames

LEMMA LengthFits ==
  ASSUME NEW n \in Nat, n + PacketSize < 65536
  PROVE  (n + PacketSize) % 65536 = n + PacketSize
<1>1. PacketSize = 12
  BY DEF PacketSize, HeadSize
<1>2. \A k \in Nat : k < 65536 => k % 65536 = k
  OBVIOUS
<1>3. QED
  BY <1>1, <1>2

LEMMA PduUnderstood ==
  ASSUME NEW frame \in Frames
  PROVE  Delivered(PolicySend(frame)) = PolicySend(frame).data
<1>1. frame.size \in Nat /\ frame.size + PacketSize < 65536
  <2>1. frame.size \in Nat /\ frame.size + PacketSize <= BufferSize
    BY SizesAssumption DEF Frames
  <2>2. QED
    BY <2>1, SMT DEF PacketSize, HeadSize, BufferSize
<1>2. (frame.size + PacketSize) % 65536 = frame.size + PacketSize
  BY <1>1, LengthFits
<1>3. /\ PolicySend(frame).type = DIPC_VNET_DATA
      /\ PolicySend(frame).datasize = frame.size
      /\ PolicySend(frame).length = frame.size + PacketSize
  BY <1>2 DEF PolicySend
<1>4. QED
  BY <1>3 DEF Delivered

LEMMA FrameUnderstood ==
  ASSUME Agree(vnet, mode), mode \in Modes, NEW c \in Live(vnet), NEW frame \in Frames
  PROVE  Understood(LowlayerSendPacket(c, frame).packet, mode)
<1>1. Fits(vnet.session[c].policy, mode)
  BY DEF Agree
<1>2. CASE mode \in {"vswitch", "vos"}
  BY <1>1, <1>2, PduUnderstood DEF Fits, LowlayerSendPacket, Understood
<1>3. CASE mode \in {"mppp", "ppp"}
  BY <1>1, <1>3 DEF Fits, LowlayerSendPacket, Understood
<1>4. QED
  BY <1>2, <1>3 DEF Modes

(***************************************************************************)
(* SendToPeer, to cells of which those that are not live may be used in    *)
(* the mppp mode only.                                                     *)
(***************************************************************************)
LEMMA SendingIsSafe ==
  ASSUME Agree(vnet, mode), mode \in Modes, NEW frame \in Frames, NEW cells,
         SendToPeer(cells, frame), cells \subseteq Live(vnet) \/ mode = "mppp"
  PROVE  /\ \A s \in sent' : Understood(s.packet, mode)
         /\ stage' \in {stage, "stale"}
         /\ stage' = "stale" => stage = "stale" \/ mode = "mppp"
<1>1. CASE cells \subseteq Live(vnet)
  BY <1>1, FrameUnderstood DEF SendToPeer
<1>2. CASE ~(cells \subseteq Live(vnet))
  BY <1>2 DEF SendToPeer
<1>3. QED
  BY <1>1, <1>2

(***************************************************************************)
(* The sinks of the switch other than the TAP are sessions that live.      *)
(***************************************************************************)
LEMMA SinksLive ==
  ASSUME Agree(vnet, mode)
  PROVE  /\ vnet.sinks \ {Tap} \subseteq Live(vnet)
         /\ GetAllSession \subseteq Live(vnet)
BY DEF Agree, GetAllSession

-----------------------------------------------------------------------------
(***************************************************************************)
(* The inductive invariant: the agreement, with what is known before the   *)
(* process runs, and the properties that rest on it.                       *)
(***************************************************************************)
IInv ==
  /\ Agree(vnet, mode)
  /\ stage = "boot" => vnet = EmptyVNet /\ sent = {} /\ \A m \in Macs : heard[m] = Null
  /\ stage = "running" => mode \in Modes
  /\ heard \in [Macs -> Peers \cup {Null}]
  /\ UsesLiveSessions
  /\ LearntFromPeer
  /\ \A s \in sent : Understood(s.packet, mode)

LEMMA EmptyAgrees ==
  ASSUME NEW m
  PROVE  /\ m # "vswitch" => Agree(EmptyVNet, m)
         /\ m = "vswitch" => Agree(SwitchManagerInit(EmptyVNet), m)
<1>1. /\ EmptyVNet \in VNets
      /\ EmptyVNet.session = [c \in Cells |-> NoSession]
      /\ EmptyVNet.m_sessions = [k \in Keys |-> Null]
      /\ EmptyVNet.sinks = {}
  BY DEF EmptyVNet, VNets, NoSession, SessionStates
<1>2. /\ SwitchManagerInit(EmptyVNet) \in VNets
      /\ SwitchManagerInit(EmptyVNet).session = [c \in Cells |-> NoSession]
      /\ SwitchManagerInit(EmptyVNet).m_sessions = [k \in Keys |-> Null]
      /\ SwitchManagerInit(EmptyVNet).sinks = {Tap}
  BY <1>1 DEF SwitchManagerInit, VNets
<1>3. QED
  BY <1>1, <1>2 DEF Agree, Live

LEMMA InitIInv == Init => IInv
<1> SUFFICES ASSUME Init PROVE IInv
  OBVIOUS
<1>1. Agree(vnet, mode)
  BY EmptyAgrees DEF Init
<1>2. QED
  BY <1>1 DEF Init, IInv, UsesLiveSessions, LearntFromPeer

(***************************************************************************)
(* A step that only stops the process.                                     *)
(***************************************************************************)
LEMMA ExitIInv ==
  ASSUME IInv, Exit
  PROVE  IInv'
BY DEF IInv, Exit, UsesLiveSessions, LearntFromPeer, Live

(***************************************************************************)
(* A step that changes none but the stage and what was sent, and keeps to  *)
(* what SendingIsSafe says.                                                *)
(***************************************************************************)
LEMMA SendingIInv ==
  ASSUME IInv, stage = "running", UNCHANGED <<mode, vnet, heard>>,
         \A s \in sent' : Understood(s.packet, mode),
         stage' \in {stage, "stale"}, stage' = "stale" => stage = "stale" \/ mode = "mppp"
  PROVE  IInv'
BY DEF IInv, UsesLiveSessions, LearntFromPeer, Live

LEMMA StartIInv ==
  ASSUME IInv, Start
  PROVE  IInv'
<1>1. PICK os \in Grants :
        IF ~ExitsOn(raw) /\ InitVNet(readconfig(raw), os)
        THEN Run(readconfig(raw)) ELSE Exit
  BY DEF Start
<1>2. CASE Exit
  BY <1>2, ExitIInv
<1>3. CASE InitVNet(readconfig(raw), os) /\ Run(readconfig(raw))
  <2>1. vnet = EmptyVNet /\ sent = {} /\ \A m \in Macs : heard[m] = Null
    BY DEF Start, IInv
  <2>2. mode' \in Modes /\ stage' = "running"
    BY <1>3 DEF InitVNet, StringToVNet, Run, Modes
  <2>3. Agree(vnet', mode')
    BY <1>3, <2>1, EmptyAgrees DEF Run
  <2>4. QED
    BY <1>3, <2>1, <2>2, <2>3 DEF IInv, Run, UsesLiveSessions, LearntFromPeer
<1>4. QED
  BY <1>1, <1>2, <1>3

LEMMA ConnectIInv ==
  ASSUME IInv, NEW peer \in Peers, OnPeerConnected(peer)
  PROVE  IInv'
<1>1. PICK c \in Cells \ Live(vnet), os \in Grants :
        IF mode = "ppp" /\ os.reactor /\ ~os.tap THEN Exit
        ELSE /\ vnet' = VNetAddSession(c, peer, os)
             /\ sent' = {}
             /\ UNCHANGED <<raw, stage, mode, white, black, tapUp, heard>>
  BY DEF OnPeerConnected
<1>2. CASE Exit
  BY <1>2, ExitIInv
<1>3. CASE /\ vnet' = VNetAddSession(c, peer, os)
           /\ sent' = {}
           /\ UNCHANGED <<raw, stage, mode, white, black, tapUp, heard>>
  <2>1. stage = "running" /\ mode \in Modes /\ Agree(vnet, mode)
    BY DEF OnPeerConnected, IInv
  <2>2. vnet' = vnet \/ Joins(vnet, vnet', mode, c, peer)
    BY <1>3, <2>1, VNetAddSessionJoins
  <2>3. CASE vnet' = vnet
    BY <1>3, <2>1, <2>3 DEF IInv, UsesLiveSessions, LearntFromPeer, Live
  <2>4. CASE Joins(vnet, vnet', mode, c, peer)
    <3>1. /\ Agree(vnet', mode)
          /\ \A d \in Live(vnet) : d # c /\ d \in Live(vnet') /\ vnet'.session[d] = vnet.session[d]
      <4>1. c \in Cells /\ c \notin Live(vnet)
        OBVIOUS
      <4>2. QED
        BY <2>1, <2>4, <4>1, JoinKeepsAgreement
    <3>2. vnet'.m_macTable = vnet.m_macTable
      BY <2>4 DEF Joins
    <3>3. LearntFromPeer'
      <4>1. SUFFICES ASSUME mode = "mppp", NEW m \in Macs, heard[m] # Null
                     PROVE  /\ vnet'.m_macTable[m] \in Live(vnet')
                            /\ vnet'.session[vnet'.m_macTable[m]].peer = heard[m]
        BY <1>3 DEF LearntFromPeer, Live
      <4>2. /\ vnet.m_macTable[m] \in Live(vnet)
            /\ vnet.session[vnet.m_macTable[m]].peer = heard[m]
        BY <4>1 DEF IInv, LearntFromPeer
      <4>3. QED
        BY <3>1, <3>2, <4>2
    <3>4. QED
      BY <1>3, <2>1, <3>1, <3>3 DEF IInv, UsesLiveSessions
  <2>5. QED
    BY <2>2, <2>3, <2>4
<1>4. QED
  BY <1>1, <1>2, <1>3

LEMMA DisconnectIInv ==
  ASSUME IInv, NEW peer \in Peers, OnPeerDisconnect(peer)
  PROVE  IInv'
<1> DEFINE key == KeyOf[peer]
<1>1. /\ key \in Keys /\ Agree(vnet, mode) /\ vnet.m_sessions[key] # Null
      /\ stage = "running" /\ mode \in Modes
  BY KeysAssumption DEF IInv, OnPeerDisconnect
<1>2. /\ vnet' = RemoveSession(vnet, key)
      /\ heard' = [m \in Macs |-> IF heard[m] # Null /\ KeyOf[heard[m]] = key
                                  THEN Null ELSE heard[m]]
      /\ sent' = {}
      /\ UNCHANGED <<stage, mode>>
  BY DEF OnPeerDisconnect
<1> HIDE DEF key
<1>3. /\ Agree(vnet', mode)
      /\ \A d \in Live(vnet) : KeyOf[vnet.session[d].peer] # key =>
           /\ d \in Live(vnet')
           /\ vnet'.session[d] = vnet.session[d]
      /\ vnet'.m_macTable = vnet.m_macTable
  BY <1>1, <1>2, RemovalKeepsAgreement
<1>4. LearntFromPeer'
  <2>1. SUFFICES ASSUME mode = "mppp", NEW m \in Macs, heard'[m] # Null
                 PROVE  /\ vnet'.m_macTable[m] \in Live(vnet')
                        /\ vnet'.session[vnet'.m_macTable[m]].peer = heard'[m]
    BY <1>2 DEF LearntFromPeer, Live
  <2>2. heard'[m] = heard[m] /\ heard[m] # Null /\ KeyOf[heard[m]] # key
    BY <1>2, <2>1
  <2>3. /\ vnet.m_macTable[m] \in Live(vnet)
        /\ vnet.session[vnet.m_macTable[m]].peer = heard[m]
    BY <2>1, <2>2 DEF IInv, LearntFromPeer
  <2>4. QED
    BY <1>3, <2>2, <2>3
<1>5. heard' \in [Macs -> Peers \cup {Null}]
  BY <1>2 DEF IInv
<1>6. QED
  BY <1>1, <1>2, <1>3, <1>4, <1>5 DEF IInv, UsesLiveSessions

(***************************************************************************)
(* Handlers that leave the map and the sinks alone.                        *)
(***************************************************************************)
LEMMA LearningKeepsAgreement ==
  ASSUME NEW m, Agree(vnet, m), NEW c \in Live(vnet), NEW src \in Macs
  PROVE  /\ Agree(Learnt(c, src), m)
         /\ Learnt(c, src).session = vnet.session
         /\ Learnt(c, src).m_macTable = [vnet.m_macTable EXCEPT ![src] = c]
<1>1. vnet \in VNets /\ c \in Cells
  BY DEF Agree, Live
<1>2. /\ Learnt(c, src) \in VNets
      /\ Learnt(c, src).session = vnet.session
      /\ Learnt(c, src).m_sessions = vnet.m_sessions
      /\ Learnt(c, src).sinks = vnet.sinks
      /\ Learnt(c, src).m_macTable = [vnet.m_macTable EXCEPT ![src] = c]
  BY <1>1 DEF Learnt, VNets
<1>3. QED
  BY <1>2 DEF Agree, Live

LEMMA PolicyKeepsAgreement ==
  ASSUME NEW m, Agree(vnet, m), NEW c \in Live(vnet), vnet.session[c].policy # NoPolicy,
         NEW p \in PolicyStates, NEW w, w = [vnet EXCEPT !.session[c].policy = p]
  PROVE  /\ Agree(w, m)
         /\ Live(w) = Live(vnet) /\ w.m_macTable = vnet.m_macTable
         /\ \A d \in Live(vnet) : w.session[d].peer = vnet.session[d].peer
<1>1. /\ vnet \in VNets /\ c \in Cells
      /\ vnet.session[c] \in SessionStates /\ vnet.session[c].peer \in Peers
      /\ p # NoPolicy
  BY PolicyAssumption DEF Agree, Live, VNets
<1> DEFINE s == [vnet.session[c] EXCEPT !.policy = p]
<1>2. s \in SessionStates /\ s.peer = vnet.session[c].peer /\ s.policy = p
  BY <1>1 DEF SessionStates
<1>3. w = [vnet EXCEPT !.session = [vnet.session EXCEPT ![c] = s]]
  OBVIOUS
<1> HIDE DEF s
<1>4. /\ w \in VNets
      /\ w.session = [vnet.session EXCEPT ![c] = s]
      /\ w.m_sessions = vnet.m_sessions /\ w.sinks = vnet.sinks
      /\ w.m_macTable = vnet.m_macTable
  BY <1>1, <1>2, <1>3 DEF VNets
<1>5. \A d \in Cells : w.session[d] = IF d = c THEN s ELSE vnet.session[d]
  BY <1>1, <1>4 DEF VNets
<1>6. s # NoSession
  BY <1>1, <1>2, PeersAssumption DEF NoSession
<1>7. Live(w) = Live(vnet)
  BY <1>5, <1>6 DEF Live
<1>8. \A d \in Live(vnet) : /\ w.session[d].peer = vnet.session[d].peer
                            /\ w.session[d].policy = NoPolicy <=> vnet.session[d].policy = NoPolicy
  BY <1>1, <1>2, <1>5 DEF Live
<1>9. \A d \in Live(vnet) : Fits(w.session[d].policy, m)
  <2>1. TAKE d \in Live(vnet)
  <2>2. Fits(vnet.session[d].policy, m)
    BY DEF Agree
  <2>3. QED
    BY <1>8, <2>2 DEF Fits
<1>10. \A d \in Live(w) : /\ w.session[d].peer \in Peers
                          /\ w.m_sessions[KeyOf[w.session[d].peer]] = d
                          /\ Fits(w.session[d].policy, m)
  BY <1>4, <1>7, <1>8, <1>9 DEF Agree
<1>11. \A k \in Keys : w.m_sessions[k] # Null =>
         /\ w.m_sessions[k] \in Live(w)
         /\ KeyOf[w.session[w.m_sessions[k]].peer] = k
  BY <1>4, <1>7, <1>8 DEF Agree
<1>12. w.sinks = IF m = "vswitch" THEN Live(w) \cup {Tap} ELSE {}
  BY <1>4, <1>7 DEF Agree
<1>13. Agree(w, m)
  BY <1>4, <1>10, <1>11, <1>12 DEF Agree
<1>14. QED
  BY <1>4, <1>7, <1>8, <1>13

(***************************************************************************)
(* The session a key leads to.                                             *)
(***************************************************************************)
LEMMA SessionOfKey ==
  ASSUME IInv, NEW peer \in Peers, vnet.m_sessions[KeyOf[peer]] # Null
  PROVE  /\ vnet.m_sessions[KeyOf[peer]] \in Live(vnet)
         /\ vnet.session[vnet.m_sessions[KeyOf[peer]]].peer \in Peers
BY KeysAssumption DEF IInv, Agree

LEMMA PacketIInv ==
  ASSUME IInv, NEW peer \in Peers, NEW frame \in Frames, OnPacketRcv(peer, frame)
  PROVE  IInv'
<1> DEFINE c == vnet.m_sessions[KeyOf[peer]]
<1>1. /\ stage = "running" /\ mode \in Modes /\ Agree(vnet, mode) /\ mode' = mode
      /\ heard' = [heard EXCEPT ![frame.src] = vnet.session[c].peer]
      /\ \/ SwitchUplayer(c, frame) \/ MPPPUplayer(c, frame) \/ PPPUplayer \/ VOSUplayer(frame)
      /\ frame.src \in Macs
  BY DEF OnPacketRcv, IInv, Frames
<1>2. c \in Live(vnet) /\ vnet.session[c].peer \in Peers
  BY SessionOfKey DEF OnPacketRcv
<1> HIDE DEF c
<1>3. heard' \in [Macs -> Peers \cup {Null}]
  BY <1>1, <1>2 DEF IInv
<1>4. CASE MPPPUplayer(c, frame)
  <2>1. /\ mode = "mppp" /\ vnet' = Learnt(c, frame.src) /\ sent' = {} /\ stage' = stage
    BY <1>4 DEF MPPPUplayer
  <2>2. /\ Agree(vnet', mode)
        /\ vnet'.session = vnet.session
        /\ vnet'.m_macTable = [vnet.m_macTable EXCEPT ![frame.src] = c]
    BY <1>1, <1>2, <2>1, LearningKeepsAgreement
  <2>3. LearntFromPeer'
    <3>1. SUFFICES ASSUME NEW m \in Macs, heard'[m] # Null
                   PROVE  /\ vnet'.m_macTable[m] \in Live(vnet)
                          /\ vnet.session[vnet'.m_macTable[m]].peer = heard'[m]
      BY <2>2 DEF LearntFromPeer, Live
    <3>2. vnet.m_macTable \in [Macs -> Cells \cup {Null}] /\ heard \in [Macs -> Peers \cup {Null}]
      BY <1>1 DEF IInv, Agree, VNets
    <3>3. CASE m = frame.src
      BY <1>1, <1>2, <2>2, <3>2, <3>3
    <3>4. CASE m # frame.src
      <4>1. heard'[m] = heard[m] /\ vnet'.m_macTable[m] = vnet.m_macTable[m]
        BY <1>1, <2>2, <3>2, <3>4
      <4>2. QED
        BY <2>1, <3>1, <4>1 DEF IInv, LearntFromPeer
    <3>5. QED
      BY <3>3, <3>4
  <2>4. QED
    BY <1>1, <1>3, <2>1, <2>2, <2>3 DEF IInv, UsesLiveSessions
<1>5. CASE ~MPPPUplayer(c, frame)
  <2>1. mode # "mppp" /\ vnet' = vnet
    BY <1>1, <1>5 DEF SwitchUplayer, PPPUplayer, VOSUplayer
  <2>2. /\ \A s \in sent' : Understood(s.packet, mode)
        /\ stage' \in {stage, "stale"}
        /\ stage' = "stale" => stage = "stale" \/ mode = "mppp"
    <3>1. CASE SwitchUplayer(c, frame)
      BY <1>1, <3>1, SendingIsSafe, SinksLive DEF SwitchUplayer
    <3>2. CASE PPPUplayer
      BY <3>2 DEF PPPUplayer
    <3>3. CASE VOSUplayer(frame)
      BY <1>1, <3>3, SendingIsSafe DEF VOSUplayer
    <3>4. QED
      BY <1>1, <1>5, <3>1, <3>2, <3>3
  <2>3. QED
    BY <1>1, <1>3, <2>1, <2>2 DEF IInv, UsesLiveSessions, LearntFromPeer
<1>6. QED
  BY <1>4, <1>5

LEMMA TapIInv ==
  ASSUME IInv, NEW frame \in Frames, TapOutput(frame)
  PROVE  IInv'
<1>1. /\ stage = "running" /\ mode \in Modes /\ Agree(vnet, mode)
      /\ UNCHANGED <<mode, vnet, heard>>
  BY DEF TapOutput, IInv
<1>2. PICK cells : SendToPeer(cells, frame) /\ (cells \subseteq Live(vnet) \/ mode = "mppp")
  <2>1. CASE SwitchTapOutput(frame)
    BY <1>1, <2>1, SinksLive DEF SwitchTapOutput
  <2>2. CASE MPPPTapOutput(frame)
    BY <2>2 DEF MPPPTapOutput
  <2>3. CASE PPPTapOutput(frame)
    BY <2>3 DEF PPPTapOutput
  <2>4. CASE VOSTapOutput(frame)
    BY <2>4 DEF VOSTapOutput
  <2>5. QED
    BY <2>1, <2>2, <2>3, <2>4 DEF TapOutput
<1>3. QED
  BY <1>1, <1>2, SendingIsSafe, SendingIInv

(***************************************************************************)
(* The probes.                                                             *)
(***************************************************************************)
LEMMA ProbesStay ==
  ASSUME NEW probe \in Probes
  PROVE  Pinged(probe) \in Probes /\ \A pdu, type : Answered(probe, pdu, type) \in Probes
<1>1. [probe EXCEPT !.measured = TRUE] \in Probes
  BY DEF Probes
<1>2. [probe EXCEPT !.lastseq = @ + 1] \in Probes
  <2>1. PICK n \in Nat, b \in BOOLEAN : probe = [lastseq |-> n, measured |-> b]
    BY DEF Probes
  <2>2. [probe EXCEPT !.lastseq = @ + 1] = [lastseq |-> n + 1, measured |-> b]
    BY <2>1
  <2>3. n + 1 \in Nat
    OBVIOUS
  <2>4. QED
    BY <2>2, <2>3 DEF Probes
<1>3. QED
  BY <1>1, <1>2 DEF Answered, Pinged

LEMMA SessionPolicyState ==
  ASSUME Agree(vnet, mode), mode \in Modes, NEW c \in Live(vnet), vnet.session[c].policy # NoPolicy
  PROVE  vnet.session[c].policy \in PolicyStates /\ mode \in {"vswitch", "vos"}
BY DEF Agree, Live, VNets, SessionStates, Fits, Modes

(***************************************************************************)
(* A step that changes the policy of a session and sends PDUs without      *)
(* data.                                                                   *)
(***************************************************************************)
LEMMA ProbeIInv ==
  ASSUME IInv, stage = "running", NEW c \in Live(vnet), vnet.session[c].policy # NoPolicy,
         NEW p \in PolicyStates, vnet' = [vnet EXCEPT !.session[c].policy = p],
         UNCHANGED <<mode, heard>>, stage' \in {"running", "nochannel"},
         \A s \in sent' : s.packet.data = NoData
  PROVE  IInv'
<1>1. mode \in Modes /\ Agree(vnet, mode)
  BY DEF IInv
<1>2. /\ Agree(vnet', mode)
      /\ Live(vnet') = Live(vnet) /\ vnet'.m_macTable = vnet.m_macTable
      /\ \A d \in Live(vnet) : vnet'.session[d].peer = vnet.session[d].peer
  BY <1>1, PolicyKeepsAgreement
<1>3. mode \in {"vswitch", "vos"}
  BY <1>1, SessionPolicyState
<1>4. LearntFromPeer'
  BY <1>3 DEF LearntFromPeer
<1>5. QED
  BY <1>1, <1>2, <1>3, <1>4 DEF IInv, UsesLiveSessions, Understood

LEMMA ProbePduIInv ==
  ASSUME IInv, NEW peer \in Peers, NEW pdu \in Incoming, OnProbePdu(peer, pdu)
  PROVE  IInv'
<1> DEFINE c == vnet.m_sessions[KeyOf[peer]]
           s == vnet.session[c]
           answers == {{[peer |-> s.peer, packet |-> a]} : a \in Answers(pdu)}
<1>1. /\ stage = "running" /\ mode \in Modes /\ Agree(vnet, mode)
      /\ UNCHANGED <<mode, heard>>
      /\ s.policy # NoPolicy
      /\ vnet' = [vnet EXCEPT !.session[c].policy = PolicyRecv(@, pdu)]
      /\ sent' \in (IF answers = {} THEN {{}} ELSE answers)
      /\ stage' \in {"running", "nochannel"}
  BY DEF OnProbePdu, IInv
<1>2. c \in Live(vnet)
  BY SessionOfKey DEF OnProbePdu
<1>3. s.policy \in PolicyStates
  BY <1>1, <1>2, SessionPolicyState
<1>4. PolicyRecv(s.policy, pdu) \in PolicyStates
  BY <1>3, ProbesStay DEF PolicyRecv, PolicyStates
<1>5. \A x \in sent' : x.packet.data = NoData
  <2>1. \A a \in Answers(pdu) : a.data = NoData
    BY DEF Answers, PointerBytes
  <2>2. QED
    BY <1>1, <2>1
<1>6. vnet' = [vnet EXCEPT !.session[c].policy = PolicyRecv(s.policy, pdu)]
  BY <1>1
<1> HIDE DEF c, s, answers
<1>7. QED
  BY <1>1, <1>2, <1>4, <1>5, <1>6, ProbeIInv DEF s

LEMMA TimerIInv ==
  ASSUME IInv, NEW c \in Cells, OnTimer(c)
  PROVE  IInv'
<1> DEFINE p == vnet.session[c].policy
           pinged == [p EXCEPT !.due = TRUE, !.dataprobe = Pinged(@)]
           both == [pinged EXCEPT !.dipcprob = Pinged(@)]
<1>1. /\ stage = "running" /\ mode \in Modes /\ Agree(vnet, mode)
      /\ UNCHANGED <<mode, heard>>
      /\ c \in Live(vnet) /\ p # NoPolicy
  BY DEF OnTimer, IInv
<1>2. p \in PolicyStates /\ p.channel = Null
  BY <1>1, SessionPolicyState DEF PolicyStates
<1>3. pinged \in PolicyStates
  BY <1>2, ProbesStay DEF PolicyStates
<1>4. /\ vnet' = [vnet EXCEPT !.session[c].policy = pinged]
      /\ stage' = "nochannel" /\ sent' = {}
  BY <1>2 DEF OnTimer
<1> HIDE DEF pinged, p
<1>5. QED
  BY <1>1, <1>3, <1>4, ProbeIInv DEF p

(***************************************************************************)
(* The invariant is kept by every step.                                    *)
(***************************************************************************)
LEMMA StepIInv == IInv /\ [Next]_vars => IInv'
<1> SUFFICES ASSUME IInv, [Next]_vars PROVE IInv'
  OBVIOUS
<1>1. CASE Start
  BY <1>1, StartIInv
<1>2. ASSUME NEW peer \in Peers, OnPeerConnected(peer) PROVE IInv'
  BY <1>2, ConnectIInv
<1>3. ASSUME NEW peer \in Peers, OnPeerDisconnect(peer) PROVE IInv'
  BY <1>3, DisconnectIInv
<1>4. ASSUME NEW peer \in Peers, NEW frame \in Frames, OnPacketRcv(peer, frame) PROVE IInv'
  BY <1>4, PacketIInv
<1>5. ASSUME NEW peer \in Peers, NEW pdu \in Incoming, OnProbePdu(peer, pdu) PROVE IInv'
  BY <1>5, ProbePduIInv
<1>6. ASSUME NEW frame \in Frames, TapOutput(frame) PROVE IInv'
  BY <1>6, TapIInv
<1>7. ASSUME NEW c \in Cells, OnTimer(c) PROVE IInv'
  BY <1>7, TimerIInv
<1>8. CASE UNCHANGED vars
  BY <1>8 DEF vars, IInv, UsesLiveSessions, LearntFromPeer, Live
<1>9. QED
  BY <1>1, <1>2, <1>3, <1>4, <1>5, <1>6, <1>7, <1>8 DEF Next

LEMMA Inductive == Spec => []IInv
BY InitIInv, StepIInv, PTL DEF Spec

-----------------------------------------------------------------------------
(***************************************************************************)
(* Whatever peers connect, disconnect and send, and whatever the system    *)
(* grants, the session objects, the map of the session manager and the     *)
(* sinks of the switch agree: no path leaks a session or leaves one half   *)
(* made (SessionManager 12-43, SwitchManager 65-80).                       *)
(***************************************************************************)
THEOREM SessionsAlwaysAgree == Spec => []SessionsAgree
<1>1. IInv => SessionsAgree
  BY DEF IInv, Agree, SessionsAgree, GetAllSession
<1>2. QED
  BY <1>1, Inductive, PTL

(***************************************************************************)
(* A deleted session is used in the mppp mode only (MPPPTapLocal 49-53):   *)
(* the switch, the stack and the ppp mode find theirs through registers    *)
(* that agree with what lives.                                             *)
(***************************************************************************)
THEOREM OnlyLiveSessionsUsed == Spec => []UsesLiveSessions
<1>1. IInv => UsesLiveSessions
  BY DEF IInv
<1>2. QED
  BY <1>1, Inductive, PTL

(***************************************************************************)
(* In the mppp mode a station last heard from a connected peer is found    *)
(* behind that peer (MPPPTapLocal 19-29), however cells are used again.    *)
(***************************************************************************)
THEOREM StationsFoundBehindPeers == Spec => []LearntFromPeer
<1>1. IInv => LearntFromPeer
  BY DEF IInv
<1>2. QED
  BY <1>1, Inductive, PTL

(***************************************************************************)
(* What a session sends of a frame, of any size that fits a length of 16   *)
(* bits, its peer hands up as the same frame (AutoPolicy 56-131).          *)
(***************************************************************************)
THEOREM SentAlwaysUnderstood == Spec => []SentIsUnderstood
<1>1. IInv => SentIsUnderstood
  BY DEF IInv, SentIsUnderstood, Understood
<1>2. QED
  BY <1>1, Inductive, PTL

-----------------------------------------------------------------------------
(***************************************************************************)
(* Who has a session.  The files say what the lists hold (VNetConfig), the *)
(* lists decide who is admitted, and no step but OnPeerConnected gives a   *)
(* session to anyone: the second inductive invariant.                      *)
(***************************************************************************)
LEMMA ListsAreTheFiles ==
  ASSUME NEW config \in RawConfigs
  PROVE  /\ WhiteInit(readconfig(config)) = ListInit(config.whitelist)
         /\ BlackInit(readconfig(config)) = ListInit(config.blacklist)
         /\ WhiteInit(readconfig(config)) \in Seq(Uint16)
         /\ BlackInit(readconfig(config)) \in Seq(Uint16)
         /\ \A jno : /\ Contains(ListInit(config.whitelist), jno) <=> NamedIn(config.whitelist, jno)
                     /\ Contains(ListInit(config.blacklist), jno) <=> NamedIn(config.blacklist, jno)
<1>1. /\ readconfig(config).whitelist = config.whitelist
      /\ readconfig(config).blacklist = config.blacklist
  BY ConfigsAssumption DEF readconfig
<1>2. config.whitelist \in Files /\ config.blacklist \in Files
  BY ConfigsAssumption
<1>3. ASSUME NEW file \in Files
      PROVE  /\ ListInit(file) \in Seq(Uint16)
             /\ \A jno : Contains(ListInit(file), jno) <=> NamedIn(file, jno)
  <2>1. /\ ListInit(file) \in Seq(Uint16)
        /\ \A x : Contains(ListInit(file), x) <=>
                    file.array /\ x \in NamedBy(file.entries, Len(file.entries))
    BY ListHoldsTheNamed
  <2>2. file.array \in BOOLEAN /\ \A i \in 1..Len(file.entries) : file.entries[i].value \in Int
    <3>1. file.array \in BOOLEAN /\ file.entries \in Seq(Entries)
      BY DEF Files
    <3>2. \A i \in 1..Len(file.entries) : file.entries[i] \in Entries
      BY <3>1
    <3>3. QED
      BY <3>1, <3>2 DEF Entries
  <2>3. \A v \in Int : v % 65536 \in Uint16
    <3>1. \A v \in Int : v % 65536 \in Nat /\ v % 65536 < 65536
      OBVIOUS
    <3>2. QED
      BY <3>1 DEF Uint16
  <2>4. \A jno : NamedIn(file, jno) <=>
                  file.array /\ jno \in NamedBy(file.entries, Len(file.entries))
    BY <2>2, <2>3 DEF NamedIn, NamedBy
  <2>5. QED
    BY <2>1, <2>4
<1>4. QED
  BY <1>1, <1>2, <1>3 DEF WhiteInit, BlackInit

AInv ==
  /\ raw \in RawConfigs
  /\ stage \in {"boot", "running", "stopped", "nochannel", "stale"}
  /\ mode \in Modes \cup {"unknown"}
  /\ white \in Seq(Uint16) /\ black \in Seq(Uint16) /\ tapUp \in BOOLEAN
  /\ stage = "running" => white = ListInit(raw.whitelist) /\ black = ListInit(raw.blacklist)
  /\ AdmittedOnly

LEMMA InitAInv == Init => AInv
<1> SUFFICES ASSUME Init PROVE AInv
  OBVIOUS
<1>1. Live(vnet) = {}
  BY DEF Init, EmptyVNet, Live
<1>2. <<>> \in Seq(Uint16)
  OBVIOUS
<1>3. QED
  BY <1>1, <1>2 DEF Init, AInv, AdmittedOnly

(***************************************************************************)
(* A step that gives nobody a session and reads no list.                   *)
(***************************************************************************)
LEMMA NobodyComes ==
  ASSUME AInv, UNCHANGED <<raw, mode, white, black, tapUp>>,
         stage' \in {stage, "stopped", "nochannel", "stale"},
         \A d \in Live(vnet') : d \in Live(vnet) /\ vnet'.session[d].peer = vnet.session[d].peer
  PROVE  AInv'
<1>1. AdmittedOnly'
  <2>1. SUFFICES ASSUME NEW d \in Live(vnet')
                 PROVE  /\ NamedIn(raw.whitelist, JnoOf[KeyOf[vnet'.session[d].peer]])
                        /\ ~NamedIn(raw.blacklist, JnoOf[KeyOf[vnet'.session[d].peer]])
    BY DEF AdmittedOnly, Live
  <2>2. QED
    BY <2>1 DEF AInv, AdmittedOnly
<1>2. QED
  BY <1>1 DEF AInv

LEMMA StartAInv ==
  ASSUME IInv, AInv, Start
  PROVE  AInv'
<1>1. PICK os \in Grants :
        IF ~ExitsOn(raw) /\ InitVNet(readconfig(raw), os)
        THEN Run(readconfig(raw)) ELSE Exit
  BY DEF Start
<1>2. CASE Exit
  <2>1. /\ UNCHANGED <<raw, mode, white, black, tapUp, vnet>> /\ stage' = "stopped"
        /\ Live(vnet') = Live(vnet)
    BY <1>2 DEF Exit, Live
  <2>2. QED
    BY <2>1, NobodyComes
<1>3. CASE InitVNet(readconfig(raw), os) /\ Run(readconfig(raw))
  <2>1. mode' \in Modes
    BY <1>3 DEF InitVNet, StringToVNet, Run, Modes
  <2>2. /\ raw' = raw /\ raw \in RawConfigs /\ stage' = "running" /\ tapUp' \in BOOLEAN
        /\ white' = WhiteInit(readconfig(raw)) /\ black' = BlackInit(readconfig(raw))
    BY <1>3 DEF Run, AInv
  <2>3. Live(vnet') = {}
    <3>1. vnet = EmptyVNet
      BY DEF Start, IInv
    <3>2. vnet'.session = vnet.session
      BY <1>3, <3>1 DEF Run, SwitchManagerInit, EmptyVNet
    <3>3. QED
      BY <3>1, <3>2 DEF EmptyVNet, Live
  <2>4. AdmittedOnly'
    BY <2>3 DEF AdmittedOnly, Live
  <2>5. QED
    BY <2>1, <2>2, <2>4, ListsAreTheFiles DEF AInv
<1>4. QED
  BY <1>1, <1>2, <1>3

LEMMA ConnectAInv ==
  ASSUME IInv, AInv, NEW peer \in Peers, OnPeerConnected(peer)
  PROVE  AInv'
<1>1. PICK c \in Cells \ Live(vnet), os \in Grants :
        IF mode = "ppp" /\ os.reactor /\ ~os.tap THEN Exit
        ELSE /\ vnet' = VNetAddSession(c, peer, os)
             /\ sent' = {}
             /\ UNCHANGED <<raw, stage, mode, white, black, tapUp, heard>>
  BY DEF OnPeerConnected
<1>2. CASE Exit
  <2>1. /\ UNCHANGED <<raw, mode, white, black, tapUp, vnet>> /\ stage' = "stopped"
        /\ Live(vnet') = Live(vnet)
    BY <1>2 DEF Exit, Live
  <2>2. QED
    BY <2>1, NobodyComes
<1>3. CASE /\ vnet' = VNetAddSession(c, peer, os)
           /\ UNCHANGED <<raw, stage, mode, white, black, tapUp>>
  <2>1. /\ stage = "running" /\ mode \in Modes /\ Agree(vnet, mode) /\ Admitted(peer)
        /\ c \in Cells /\ c \notin Live(vnet)
    BY DEF OnPeerConnected, IInv
  <2>2. vnet' = vnet \/ Joins(vnet, vnet', mode, c, peer)
    BY <1>3, <2>1, VNetAddSessionJoins
  <2>3. CASE vnet' = vnet
    BY <1>3, <2>3, NobodyComes DEF Live
  <2>4. CASE Joins(vnet, vnet', mode, c, peer)
    <3> DEFINE jno == JnoOf[KeyOf[peer]]
    <3>1. /\ \A d \in Live(vnet) : vnet'.session[d] = vnet.session[d]
          /\ \A d \in Live(vnet') : d = c \/ d \in Live(vnet)
          /\ vnet'.session[c].peer = peer
      <4>1. c \in Cells /\ c \notin Live(vnet) /\ Agree(vnet, mode)
        BY <2>1
      <4>2. /\ Agree(vnet', mode)
            /\ \A d \in Live(vnet) : d # c /\ d \in Live(vnet') /\ vnet'.session[d] = vnet.session[d]
            /\ \A d \in Live(vnet') : d = c \/ d \in Live(vnet)
            /\ vnet'.session[c].peer = peer
        BY <2>4, <4>1, JoinKeepsAgreement
      <4>3. QED
        BY <4>2
    <3>2. NamedIn(raw.whitelist, jno) /\ ~NamedIn(raw.blacklist, jno)
      <4>1. /\ raw \in RawConfigs
            /\ white = ListInit(raw.whitelist) /\ black = ListInit(raw.blacklist)
        BY <2>1 DEF AInv
      <4>2. Contains(white, jno)
        BY <2>1 DEF Admitted, WhiteVeryfy
      <4>3. ~Contains(black, jno)
        <5>1. CASE black = <<>>
          BY <5>1 DEF Contains
        <5>2. CASE black # <<>>
          BY <2>1, <5>2 DEF Admitted, BlackVeryfy
        <5>3. QED
          BY <5>1, <5>2
      <4>4. QED
        BY <4>1, <4>2, <4>3, ListsAreTheFiles
    <3>3. AdmittedOnly'
      <4>1. SUFFICES ASSUME NEW d \in Live(vnet')
                     PROVE  /\ NamedIn(raw.whitelist, JnoOf[KeyOf[vnet'.session[d].peer]])
                            /\ ~NamedIn(raw.blacklist, JnoOf[KeyOf[vnet'.session[d].peer]])
        BY <1>3 DEF AdmittedOnly, Live
      <4>2. CASE d = c
        BY <3>1, <3>2, <4>2
      <4>3. CASE d # c
        BY <3>1, <4>3 DEF AInv, AdmittedOnly
      <4>4. QED
        BY <4>2, <4>3
    <3>4. QED
      BY <1>3, <3>3 DEF AInv
  <2>5. QED
    BY <2>2, <2>3, <2>4
<1>4. QED
  BY <1>1, <1>2, <1>3

LEMMA DisconnectAInv ==
  ASSUME IInv, AInv, NEW peer \in Peers, OnPeerDisconnect(peer)
  PROVE  AInv'
<1>1. /\ KeyOf[peer] \in Keys /\ Agree(vnet, mode) /\ vnet.m_sessions[KeyOf[peer]] # Null
      /\ vnet' = RemoveSession(vnet, KeyOf[peer])
      /\ UNCHANGED <<raw, stage, mode, white, black, tapUp>>
  BY KeysAssumption DEF IInv, OnPeerDisconnect
<1>2. \A d \in Live(vnet') : d \in Live(vnet) /\ vnet'.session[d] = vnet.session[d]
  BY <1>1, RemovalKeepsAgreement
<1>3. QED
  BY <1>1, <1>2, NobodyComes

LEMMA PacketAInv ==
  ASSUME IInv, AInv, NEW peer \in Peers, NEW frame \in Frames, OnPacketRcv(peer, frame)
  PROVE  AInv'
<1> DEFINE c == vnet.m_sessions[KeyOf[peer]]
<1>1. /\ stage = "running" /\ Agree(vnet, mode)
      /\ UNCHANGED <<raw, mode, white, black, tapUp>>
      /\ \/ SwitchUplayer(c, frame) \/ MPPPUplayer(c, frame) \/ PPPUplayer \/ VOSUplayer(frame)
      /\ frame.src \in Macs
  BY DEF OnPacketRcv, IInv, Frames
<1>2. c \in Live(vnet)
  BY SessionOfKey DEF OnPacketRcv
<1> HIDE DEF c
<1>3. Learnt(c, frame.src).session = vnet.session
  BY <1>1, <1>2, LearningKeepsAgreement
<1>4. vnet'.session = vnet.session /\ stage' \in {stage, "stale"}
  <2>1. CASE SwitchUplayer(c, frame)
    BY <2>1 DEF SwitchUplayer, SendToPeer
  <2>2. CASE MPPPUplayer(c, frame)
    BY <1>3, <2>2 DEF MPPPUplayer
  <2>3. CASE PPPUplayer
    BY <2>3 DEF PPPUplayer
  <2>4. CASE VOSUplayer(frame)
    BY <2>4 DEF VOSUplayer, SendToPeer
  <2>5. QED
    BY <1>1, <2>1, <2>2, <2>3, <2>4
<1>5. QED
  BY <1>1, <1>4, NobodyComes DEF Live

LEMMA TapAInv ==
  ASSUME AInv, NEW frame \in Frames, TapOutput(frame)
  PROVE  AInv'
<1>1. stage' \in {stage, "stale"}
  BY DEF TapOutput, SwitchTapOutput, MPPPTapOutput, PPPTapOutput, VOSTapOutput, SendToPeer
<1>2. UNCHANGED <<raw, mode, white, black, tapUp, vnet>>
  BY DEF TapOutput
<1>3. QED
  BY <1>1, <1>2, NobodyComes DEF Live

(***************************************************************************)
(* The probes change the policy of a session that lives.                   *)
(***************************************************************************)
LEMMA ProbeAInv ==
  ASSUME IInv, AInv, NEW c \in Live(vnet), vnet.session[c].policy # NoPolicy,
         NEW p \in PolicyStates, vnet' = [vnet EXCEPT !.session[c].policy = p],
         UNCHANGED <<raw, mode, white, black, tapUp>>, stage' \in {stage, "nochannel"}
  PROVE  AInv'
<1>1. Agree(vnet, mode)
  BY DEF IInv
<1>2. /\ Live(vnet') = Live(vnet)
      /\ \A d \in Live(vnet) : vnet'.session[d].peer = vnet.session[d].peer
  BY <1>1, PolicyKeepsAgreement
<1>3. QED
  BY <1>2, NobodyComes

LEMMA ProbePduAInv ==
  ASSUME IInv, AInv, NEW peer \in Peers, NEW pdu \in Incoming, OnProbePdu(peer, pdu)
  PROVE  AInv'
<1> DEFINE c == vnet.m_sessions[KeyOf[peer]]
           s == vnet.session[c]
<1>1. /\ Agree(vnet, mode) /\ mode \in Modes
      /\ UNCHANGED <<raw, mode, white, black, tapUp>>
      /\ s.policy # NoPolicy
      /\ vnet' = [vnet EXCEPT !.session[c].policy = PolicyRecv(s.policy, pdu)]
      /\ stage' \in {stage, "nochannel"}
  BY DEF OnProbePdu, IInv
<1>2. c \in Live(vnet)
  BY SessionOfKey DEF OnProbePdu
<1>3. s.policy \in PolicyStates
  BY <1>1, <1>2, SessionPolicyState
<1>4. PolicyRecv(s.policy, pdu) \in PolicyStates
  BY <1>3, ProbesStay DEF PolicyRecv, PolicyStates
<1> HIDE DEF c, s
<1>5. QED
  BY <1>1, <1>2, <1>4, ProbeAInv DEF s

LEMMA TimerAInv ==
  ASSUME IInv, AInv, NEW c \in Cells, OnTimer(c)
  PROVE  AInv'
<1> DEFINE p == vnet.session[c].policy
           pinged == [p EXCEPT !.due = TRUE, !.dataprobe = Pinged(@)]
<1>1. /\ stage = "running" /\ mode \in Modes /\ Agree(vnet, mode)
      /\ UNCHANGED <<raw, mode, white, black, tapUp>>
      /\ c \in Live(vnet) /\ p # NoPolicy
  BY DEF OnTimer, IInv
<1>2. p \in PolicyStates /\ p.channel = Null
  BY <1>1, SessionPolicyState DEF PolicyStates
<1>3. pinged \in PolicyStates
  BY <1>2, ProbesStay DEF PolicyStates
<1>4. vnet' = [vnet EXCEPT !.session[c].policy = pinged] /\ stage' = "nochannel"
  BY <1>2 DEF OnTimer
<1> HIDE DEF pinged, p
<1>5. QED
  BY <1>1, <1>3, <1>4, ProbeAInv DEF p

LEMMA StepAInv == IInv /\ AInv /\ [Next]_vars => AInv'
<1> SUFFICES ASSUME IInv, AInv, [Next]_vars PROVE AInv'
  OBVIOUS
<1>1. CASE Start
  BY <1>1, StartAInv
<1>2. ASSUME NEW peer \in Peers, OnPeerConnected(peer) PROVE AInv'
  BY <1>2, ConnectAInv
<1>3. ASSUME NEW peer \in Peers, OnPeerDisconnect(peer) PROVE AInv'
  BY <1>3, DisconnectAInv
<1>4. ASSUME NEW peer \in Peers, NEW frame \in Frames, OnPacketRcv(peer, frame) PROVE AInv'
  BY <1>4, PacketAInv
<1>5. ASSUME NEW peer \in Peers, NEW pdu \in Incoming, OnProbePdu(peer, pdu) PROVE AInv'
  BY <1>5, ProbePduAInv
<1>6. ASSUME NEW frame \in Frames, TapOutput(frame) PROVE AInv'
  BY <1>6, TapAInv
<1>7. ASSUME NEW c \in Cells, OnTimer(c) PROVE AInv'
  BY <1>7, TimerAInv
<1>8. CASE UNCHANGED vars
  BY <1>8 DEF vars, AInv, AdmittedOnly, Live
<1>9. QED
  BY <1>1, <1>2, <1>3, <1>4, <1>5, <1>6, <1>7, <1>8 DEF Next

LEMMA AdmissionInductive == Spec => []AInv
<1>1. Init /\ [][Next]_vars /\ []IInv => []AInv
  BY InitAInv, StepAInv, PTL
<1>2. QED
  BY <1>1, Inductive, PTL DEF Spec

(***************************************************************************)
(* Whoever has a session, in any mode and after any connects, disconnects  *)
(* and failures, is named in the white list's file and not in the black    *)
(* list's, for files with any entries, numbers cut to 16 bits and entries  *)
(* that cannot be read (CWhiteList 12-91, CBlackList 12-92, Process        *)
(* OnPeerConnected).                                                       *)
(***************************************************************************)
THEOREM OnlyTheAdmitted == Spec => []AdmittedOnly
<1>1. AInv => AdmittedOnly
  BY DEF AInv
<1>2. QED
  BY <1>1, AdmissionInductive, PTL

(***************************************************************************)
(* The variables keep to their types: the lists to numbers of 16 bits, a   *)
(* live session to a peer, a policy to no data channel (Session 54-68).    *)
(***************************************************************************)
THEOREM SessionsTyped == Spec => []SessionsTypeOK
<1>1. IInv /\ AInv => SessionsTypeOK
  <2> SUFFICES ASSUME IInv, AInv PROVE SessionsTypeOK
    OBVIOUS
  <2>1. vnet \in VNets
    BY DEF IInv, Agree
  <2>2. ASSUME NEW c \in Live(vnet)
        PROVE  /\ vnet.session[c].peer \in Peers
               /\ vnet.session[c].policy # NoPolicy => vnet.session[c].policy.channel = Null
    <3>1. vnet.session[c].peer \in Peers
      BY DEF IInv, Agree
    <3>2. vnet.session[c].policy \in PolicyStates \cup {NoPolicy}
      BY <2>1 DEF VNets, SessionStates, Live
    <3>3. QED
      BY <3>1, <3>2 DEF PolicyStates
  <2>3. /\ vnet.m_sessions \in [Keys -> Cells \cup {Null}]
        /\ vnet.sinks \subseteq Cells \cup {Tap}
        /\ vnet.m_macTable \in [Macs -> Cells \cup {Null}]
    BY <2>1 DEF VNets
  <2>4. QED
    BY <2>2, <2>3 DEF IInv, AInv, SessionsTypeOK
<1>2. QED
  BY <1>1, Inductive, AdmissionInductive, PTL
=============================================================================
