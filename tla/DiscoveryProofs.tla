-------------------------- MODULE DiscoveryProofs ---------------------------
(***************************************************************************)
(* Proofs about Wire and Discovery, for layouts and lists of links of any  *)
(* length: a packet is read back from the bytes it was written in, and     *)
(* from JSON, and the links of a discovery packet stay a path.             *)
(***************************************************************************)
EXTENDS Discovery, SequenceTheorems, WellFoundedInduction, TLAPS

(***************************************************************************)
(* The order of the naturals, which is well founded, and what it gives: a  *)
(* set that has 0 and, with a number, the next one, has all up to n.       *)
(***************************************************************************)
Before == {ss \in Nat \X Nat : ss[1] < ss[2]}

LEMMA BeforeWellFounded == IsWellFoundedOn(Before, Nat)
BY NatLessThanWellFounded DEF OpToRel, Before

LEMMA Climb ==
  ASSUME NEW n \in Nat, NEW T, 0 \in T, \A k \in 0..(n - 1) : k \in T => k + 1 \in T
  PROVE  \A k \in 0..n : k \in T
<1> DEFINE Missing == {k \in 0..n : k \notin T}
<1>1. SUFFICES ASSUME Missing # {} PROVE FALSE
  OBVIOUS
<1>2. Missing \subseteq Nat
  OBVIOUS
<1>3. PICK x \in Missing : \A y \in Missing : <<y, x>> \notin Before
  BY <1>1, <1>2, BeforeWellFounded, WFMin
<1>4. x \in 1..n /\ x - 1 \in 0..(n - 1) /\ (x - 1) + 1 = x
  OBVIOUS
<1>5. x - 1 \notin T
  BY <1>4
<1>6. x - 1 \in Missing /\ <<x - 1, x>> \in Before
  BY <1>4, <1>5 DEF Before
<1>7. QED
  BY <1>3, <1>6

(***************************************************************************)
(* The largest of some numbers up to k + 1, of which k + 1 is one.         *)
(***************************************************************************)
LEMMA Largest ==
  ASSUME NEW k \in Nat, NEW s \in SUBSET (1..(k + 1)), k + 1 \in s
  PROVE  Max(s) = k + 1 /\ s \ {k + 1} \in SUBSET (1..k) /\ s # {}
<1>1. \A y \in s : y \in Int /\ k + 1 >= y
  OBVIOUS
<1>2. Max(s) \in s /\ \A y \in s : Max(s) >= y
  BY <1>1 DEF Max
<1>3. Max(s) = k + 1
  <2> DEFINE m == Max(s)
  <2>1. m \in Int /\ m >= k + 1 /\ k + 1 >= m
    BY <1>1, <1>2
  <2> HIDE DEF m
  <2>2. m = k + 1
    BY <2>1
  <2>3. QED
    BY <2>2 DEF m
<1>4. \A y \in 1..(k + 1) : y # k + 1 => y \in 1..k
  OBVIOUS
<1>5. QED
  BY <1>3, <1>4

(***************************************************************************)
(* The numbers up to k, as the folds of the community modules take them    *)
(* apart: the largest first.                                               *)
(***************************************************************************)
LEMMA UptoFacts ==
  ASSUME NEW n \in Nat, NEW k \in 1..n
  PROVE  /\ k - 1 \in Nat /\ (k - 1) + 1 = k /\ k \in 0..n /\ k - 1 \in 0..n
         /\ 1..k \in SUBSET (1..n) /\ 1..k # {}
         /\ Max(1..k) = k /\ (1..k) \ {k} = 1..(k - 1)
<1>1. k - 1 \in Nat /\ (k - 1) + 1 = k /\ k \in 0..n /\ k - 1 \in 0..n
  OBVIOUS
<1>2. 1..k \in SUBSET (1..n) /\ 1..k # {} /\ (1..k) \ {k} = 1..(k - 1) /\ k \in 1..k
  OBVIOUS
<1>3. 1..k \in SUBSET (1..((k - 1) + 1)) /\ (k - 1) + 1 \in 1..k
  BY <1>1, <1>2
<1>4. QED
  BY <1>1, <1>2, <1>3, Largest

(***************************************************************************)
(* h[k] is the sum of the first k numbers.                                 *)
(***************************************************************************)
Sums(h, numbers, n) ==
  /\ h[0] = 0 /\ \A k \in 1..n : h[k] = h[k - 1] + numbers[k]
  /\ SumOf(numbers) = h[n]

(***************************************************************************)
(* The sum of any numbers is reached number by number: the fold that SumOf *)
(* is made of exists, and does this.                                       *)
(***************************************************************************)
LEMMA SumOfSteps ==
  ASSUME NEW n \in Nat, NEW numbers, DOMAIN numbers = 1..n
  PROVE  \E h : Sums(h, numbers, n)
<1> DEFINE Op(sum, x) == sum + x
           Step(g, s) == IF s = {} THEN 0 ELSE Op(g[s \ {Max(s)}], numbers[Max(s)])
           Is(g, k) == g = [s \in SUBSET (1..k) |-> Step(g, s)]
           T == {k \in 0..n : \E g : Is(g, k)}
<1>1. SumOf(numbers) = (CHOOSE g : Is(g, n))[1..n]
  BY DEF SumOf, FoldLeft, MapThenFoldSet
<1> HIDE DEF Op
<1>2. 0 \in T
  <2> DEFINE g == [s \in SUBSET (1..0) |-> 0]
  <2>1. \A s \in SUBSET (1..0) : s = {}
    OBVIOUS
  <2>2. Is(g, 0)
    BY <2>1
  <2>3. QED
    BY <2>2
<1>3. ASSUME NEW k \in 0..(n - 1), k \in T PROVE k + 1 \in T
  <2>1. PICK g : Is(g, k)
    BY <1>3
  <2> DEFINE new == [s \in SUBSET (1..(k + 1)) |->
                       IF k + 1 \in s THEN Op(g[s \ {k + 1}], numbers[k + 1]) ELSE g[s]]
  <2>2. ASSUME NEW s \in SUBSET (1..(k + 1)) PROVE new[s] = Step(new, s)
    <3>1. CASE k + 1 \in s
      <4>1. Max(s) = k + 1 /\ s \ {k + 1} \in SUBSET (1..(k + 1)) /\ k + 1 \notin s \ {k + 1} /\
            s # {}
        <5>1. k \in Nat
          OBVIOUS
        <5>2. QED
          BY <3>1, <5>1, Largest
      <4>2. new[s \ {k + 1}] = g[s \ {k + 1}] /\ new[s] = Op(g[s \ {k + 1}], numbers[k + 1])
        BY <3>1, <4>1
      <4>3. QED
        BY <4>1, <4>2
    <3>2. CASE k + 1 \notin s
      <4>1. s \in SUBSET (1..k)
        <5>1. k \in Nat /\ \A x \in 1..(k + 1) : x # k + 1 => x \in 1..k
          OBVIOUS
        <5>2. QED
          BY <3>2, <5>1
      <4>2. /\ s \ {Max(s)} \in SUBSET (1..(k + 1)) /\ k + 1 \notin s \ {Max(s)}
            /\ new[s] = g[s] /\ new[s \ {Max(s)}] = g[s \ {Max(s)}]
        BY <3>2, <4>1
      <4>3. g[s] = Step(g, s)
        BY <2>1, <4>1
      <4>4. QED
        BY <4>2, <4>3
    <3>3. QED
      BY <3>1, <3>2
  <2>3. Is(new, k + 1)
    <3> HIDE DEF Step
    <3>1. new = [s \in SUBSET (1..(k + 1)) |-> new[s]]
      OBVIOUS
    <3> HIDE DEF new
    <3>2. QED
      BY <2>2, <3>1
  <2>4. k + 1 \in 0..n
    OBVIOUS
  <2>5. QED
    BY <2>3, <2>4
<1>4. n \in T
  <2> HIDE DEF T
  <2>1. \A k \in 0..n : k \in T
    BY <1>2, <1>3, Climb
  <2>2. QED
    BY <2>1
<1>5. PICK g : Is(g, n) /\ SumOf(numbers) = g[1..n]
  BY <1>1, <1>4
<1> DEFINE h == [k \in 0..n |-> g[1..k]]
<1>6. h[0] = 0 /\ h[n] = g[1..n]
  <2>1. 1..0 = {} /\ 1..0 \in SUBSET (1..n) /\ 0 \in 0..n /\ n \in 0..n
    OBVIOUS
  <2>2. g[1..0] = 0
    BY <1>5, <2>1
  <2>3. QED
    BY <2>1, <2>2
<1>7. ASSUME NEW k \in 1..n PROVE h[k] = h[k - 1] + numbers[k]
  <2>1. g[1..k] = Op(g[1..(k - 1)], numbers[k])
    <3>1. 1..k \in SUBSET (1..n) /\ 1..k # {} /\ Max(1..k) = k /\ (1..k) \ {k} = 1..(k - 1)
      BY UptoFacts
    <3>2. g[1..k] = Step(g, 1..k)
      BY <1>5, <3>1
    <3>3. QED
      BY <3>1, <3>2
  <2>2. QED
    BY <2>1, UptoFacts DEF Op
<1>8. QED
  <2> HIDE DEF h
  <2>1. QED
    BY <1>5, <1>6, <1>7 DEF Sums

(***************************************************************************)
(* h[k] is the stream after the first k fields of the layout were read.    *)
(***************************************************************************)
Readings(h, r, layout, n) ==
  /\ h[0] = r /\ \A k \in 1..n : h[k] = ReadField(h[k - 1], layout[k])
  /\ ReadFields(r, layout) = h[n]

(***************************************************************************)
(* A layout is read field by field, in its order (the calls of operator>>  *)
(* in every StreamFrom).                                                   *)
(***************************************************************************)
LEMMA ReadFieldsSteps ==
  ASSUME NEW n \in Nat, NEW r, NEW layout, DOMAIN layout = 1..n
  PROVE  \E h : Readings(h, r, layout, n)
<1> DEFINE Op(q, field) == ReadField(q, field)
           Step(g, s) == IF s = {} THEN r ELSE Op(g[s \ {Max(s)}], layout[Max(s)])
           Is(g, k) == g = [s \in SUBSET (1..k) |-> Step(g, s)]
           T == {k \in 0..n : \E g : Is(g, k)}
<1>1. ReadFields(r, layout) = (CHOOSE g : Is(g, n))[1..n]
  BY DEF ReadFields, FoldLeft, MapThenFoldSet
<1> HIDE DEF Op
<1>2. 0 \in T
  <2> DEFINE g == [s \in SUBSET (1..0) |-> r]
  <2>1. \A s \in SUBSET (1..0) : s = {}
    OBVIOUS
  <2>2. Is(g, 0)
    BY <2>1
  <2>3. QED
    BY <2>2
<1>3. ASSUME NEW k \in 0..(n - 1), k \in T PROVE k + 1 \in T
  <2>1. PICK g : Is(g, k)
    BY <1>3
  <2> DEFINE new == [s \in SUBSET (1..(k + 1)) |->
                       IF k + 1 \in s THEN Op(g[s \ {k + 1}], layout[k + 1]) ELSE g[s]]
  <2>2. ASSUME NEW s \in SUBSET (1..(k + 1)) PROVE new[s] = Step(new, s)
    <3>1. CASE k + 1 \in s
      <4>1. Max(s) = k + 1 /\ s \ {k + 1} \in SUBSET (1..(k + 1)) /\ k + 1 \notin s \ {k + 1} /\
            s # {}
        <5>1. k \in Nat
          OBVIOUS
        <5>2. QED
          BY <3>1, <5>1, Largest
      <4>2. new[s \ {k + 1}] = g[s \ {k + 1}] /\ new[s] = Op(g[s \ {k + 1}], layout[k + 1])
        BY <3>1, <4>1
      <4>3. QED
        BY <4>1, <4>2
    <3>2. CASE k + 1 \notin s
      <4>1. s \in SUBSET (1..k)
        <5>1. k \in Nat /\ \A x \in 1..(k + 1) : x # k + 1 => x \in 1..k
          OBVIOUS
        <5>2. QED
          BY <3>2, <5>1
      <4>2. /\ s \ {Max(s)} \in SUBSET (1..(k + 1)) /\ k + 1 \notin s \ {Max(s)}
            /\ new[s] = g[s] /\ new[s \ {Max(s)}] = g[s \ {Max(s)}]
        BY <3>2, <4>1
      <4>3. g[s] = Step(g, s)
        BY <2>1, <4>1
      <4>4. QED
        BY <4>2, <4>3
    <3>3. QED
      BY <3>1, <3>2
  <2>3. Is(new, k + 1)
    <3> HIDE DEF Step
    <3>1. new = [s \in SUBSET (1..(k + 1)) |-> new[s]]
      OBVIOUS
    <3> HIDE DEF new
    <3>2. QED
      BY <2>2, <3>1
  <2>4. k + 1 \in 0..n
    OBVIOUS
  <2>5. QED
    BY <2>3, <2>4
<1>4. n \in T
  <2> HIDE DEF T
  <2>1. \A k \in 0..n : k \in T
    BY <1>2, <1>3, Climb
  <2>2. QED
    BY <2>1
<1>5. PICK g : Is(g, n) /\ ReadFields(r, layout) = g[1..n]
  BY <1>1, <1>4
<1> DEFINE h == [k \in 0..n |-> g[1..k]]
<1>6. h[0] = r /\ h[n] = g[1..n]
  <2>1. 1..0 = {} /\ 1..0 \in SUBSET (1..n) /\ 0 \in 0..n /\ n \in 0..n
    OBVIOUS
  <2>2. g[1..0] = r
    BY <1>5, <2>1
  <2>3. QED
    BY <2>1, <2>2
<1>7. ASSUME NEW k \in 1..n PROVE h[k] = ReadField(h[k - 1], layout[k])
  <2>1. g[1..k] = Op(g[1..(k - 1)], layout[k])
    <3>1. 1..k \in SUBSET (1..n) /\ 1..k # {} /\ Max(1..k) = k /\ (1..k) \ {k} = 1..(k - 1)
      BY UptoFacts
    <3>2. g[1..k] = Step(g, 1..k)
      BY <1>5, <3>1
    <3>3. QED
      BY <3>1, <3>2
  <2>2. QED
    BY <2>1, UptoFacts DEF Op
<1>8. QED
  <2> HIDE DEF h
  <2>1. QED
    BY <1>5, <1>6, <1>7 DEF Readings

-----------------------------------------------------------------------------

(***************************************************************************)
(* h[k] is what the first k sequences make, one behind the other.          *)
(***************************************************************************)
Piles(h, seqs, n, S) ==
  /\ h[0] = <<>> /\ \A k \in 1..n : h[k] = h[k - 1] \o seqs[k]
  /\ \A k \in 0..n : h[k] \in Seq(S)
  /\ FlattenSeq(seqs) = h[n]

(***************************************************************************)
(* Sequences are put behind each other one by one.                         *)
(***************************************************************************)
LEMMA FlattenSteps ==
  ASSUME NEW S, NEW n \in Nat, NEW seqs \in [1..n -> Seq(S)]
  PROVE  \E h : Piles(h, seqs, n, S)
<1> DEFINE Step(g, i) == IF i = 1 THEN seqs[i] ELSE g[i - 1] \o seqs[i]
           Is(g, k) == g = [i \in 1..k |-> Step(g, i)]
           T == {k \in 0..n : \E g : Is(g, k)}
<1>1. Len(seqs) = n /\ DOMAIN seqs = 1..n /\ (n = 0 => seqs = <<>>)
  OBVIOUS
<1>2. 0 \in T
  <2> DEFINE g == [i \in 1..0 |-> seqs[i]]
  <2>1. Is(g, 0)
    OBVIOUS
  <2> HIDE DEF g, Is
  <2>2. QED
    BY <2>1
<1>3. ASSUME NEW k \in 0..(n - 1), k \in T PROVE k + 1 \in T
  <2>1. PICK g : Is(g, k)
    BY <1>3
  <2> DEFINE new == [i \in 1..(k + 1) |-> IF i = k + 1 THEN Step(g, k + 1) ELSE g[i]]
  <2>2. ASSUME NEW i \in 1..(k + 1) PROVE new[i] = Step(new, i)
    <3>1. CASE i = k + 1
      <4>1. i # 1 => i - 1 \in 1..(k + 1) /\ i - 1 # k + 1
        BY <3>1
      <4>2. QED
        BY <3>1, <4>1
    <3>2. CASE i # k + 1
      <4>1. i \in 1..k /\ (i # 1 => i - 1 \in 1..k /\ i - 1 \in 1..(k + 1) /\ i - 1 # k + 1)
        BY <3>2
      <4>2. new[i] = g[i] /\ g[i] = Step(g, i)
        BY <2>1, <3>2, <4>1
      <4>3. QED
        BY <4>1, <4>2
    <3>3. QED
      BY <3>1, <3>2
  <2>3. Is(new, k + 1)
    <3> HIDE DEF Step
    <3>1. new = [i \in 1..(k + 1) |-> new[i]]
      OBVIOUS
    <3> HIDE DEF new
    <3>2. QED
      BY <2>2, <3>1
  <2>4. k + 1 \in 0..n
    OBVIOUS
  <2>5. QED
    BY <2>3, <2>4
<1>4. n \in T
  <2> HIDE DEF T
  <2>1. \A k \in 0..n : k \in T
    BY <1>2, <1>3, Climb
  <2>2. QED
    BY <2>1
<1>5. PICK g : Is(g, n) /\ (n # 0 => FlattenSeq(seqs) = g[n])
  <2>1. n # 0 => FlattenSeq(seqs) = (CHOOSE g : Is(g, n))[n]
    BY <1>1 DEF FlattenSeq
  <2>2. QED
    BY <1>4, <2>1
<1> DEFINE h == [k \in 0..n |-> IF k = 0 THEN <<>> ELSE g[k]]
           U == {k \in 0..n : h[k] \in Seq(S)}
<1>6. ASSUME NEW k \in 1..n, h[k - 1] \in Seq(S) PROVE h[k] = h[k - 1] \o seqs[k] /\ h[k] \in Seq(S)
  <2>1. k \in 0..n /\ k - 1 \in 0..n /\ seqs[k] \in Seq(S)
    OBVIOUS
  <2>5. g[k] = Step(g, k)
    <3> HIDE DEF Step
    <3>1. QED
      BY <1>5
  <2>2. CASE k = 1
    <3>1. <<>> \o seqs[k] = seqs[k]
      BY <2>1
    <3>2. QED
      BY <2>1, <2>2, <2>5, <3>1
  <2>3. CASE k # 1
    <3>1. h[k] = g[k] /\ h[k - 1] = g[k - 1]
      BY <2>1, <2>3
    <3>2. h[k] = h[k - 1] \o seqs[k]
      BY <2>1, <2>3, <2>5, <3>1
    <3> HIDE DEF h, U
    <3>3. h[k - 1] \o seqs[k] \in Seq(S)
      BY <1>6, <2>1, ConcatProperties
    <3>4. QED
      BY <3>2, <3>3
  <2>4. QED
    BY <2>2, <2>3
<1>7. \A k \in 0..n : k \in U
  <2>1. 0 \in U
    OBVIOUS
  <2>2. ASSUME NEW k \in 0..(n - 1), k \in U PROVE k + 1 \in U
    <3>1. k + 1 \in 1..n /\ (k + 1) - 1 = k /\ k + 1 \in 0..n /\ h[k] \in Seq(S)
      BY <2>2
    <3> HIDE DEF h
    <3>2. QED
      BY <1>6, <3>1
  <2> HIDE DEF U
  <2>3. QED
    BY <2>1, <2>2, Climb
<1>8. h[0] = <<>> /\ FlattenSeq(seqs) = h[n]
  <2>1. CASE n = 0
    <3>1. FlattenSeq(seqs) = <<>>
      BY <1>1, <2>1 DEF FlattenSeq
    <3>2. QED
      BY <2>1, <3>1
  <2>2. CASE n # 0
    BY <1>5, <2>2
  <2>3. QED
    BY <2>1, <2>2
<1>9. \A k \in 0..n : h[k] \in Seq(S)
  BY <1>7
<1>10. \A k \in 1..n : k - 1 \in 0..n
  OBVIOUS
<1> HIDE DEF h
<1>11. QED
  BY <1>6, <1>8, <1>9, <1>10 DEF Piles

(***************************************************************************)
(* z[k] is what is behind the first k sequences.                           *)
(***************************************************************************)
Splits(z, seqs, n, S) ==
  /\ z \in [0..n -> Seq(S)] /\ z[0] = FlattenSeq(seqs) /\ z[n] = <<>>
  /\ \A k \in 1..n : z[k - 1] = seqs[k] \o z[k]

(***************************************************************************)
(* What was put together from sequences splits into the first of them and  *)
(* what the others make, and so on to the last.                            *)
(***************************************************************************)
LEMMA FlattenSplits ==
  ASSUME NEW S, NEW n \in Nat, NEW seqs \in [1..n -> Seq(S)]
  PROVE  FlattenSeq(seqs) \in Seq(S) /\ \E z : Splits(z, seqs, n, S)
<1>0. PICK h : Piles(h, seqs, n, S)
  BY FlattenSteps
<1>1. /\ h[0] = <<>> /\ \A k \in 1..n : h[k] = h[k - 1] \o seqs[k]
      /\ \A k \in 0..n : h[k] \in Seq(S)
      /\ FlattenSeq(seqs) = h[n]
  BY <1>0 DEF Piles
<1> DEFINE Parts(z, k) == /\ z \in [0..k -> Seq(S)] /\ z[0] = h[k] /\ z[k] = <<>>
                          /\ \A j \in 1..k : z[j - 1] = seqs[j] \o z[j]
           T == {k \in 0..n : \E z : Parts(z, k)}
<1>2. 0 \in T
  <2> DEFINE z == [j \in 0..0 |-> <<>>]
  <2>1. Parts(z, 0)
    <3>1. z \in [0..0 -> Seq(S)] /\ z[0] = <<>> /\ 1..0 = {}
      OBVIOUS
    <3>2. QED
      BY <1>1, <3>1
  <2> HIDE DEF z, Parts
  <2>2. QED
    BY <2>1
<1>3. ASSUME NEW k \in 0..(n - 1), k \in T PROVE k + 1 \in T
  <2>1. PICK z : Parts(z, k)
    BY <1>3
  <2> DEFINE s == seqs[k + 1]
             new == [j \in 0..(k + 1) |-> IF j = k + 1 THEN <<>> ELSE z[j] \o s]
  <2>2. k \in Nat /\ k + 1 \in 1..n /\ s \in Seq(S) /\ (k + 1) - 1 = k /\ 0 # k + 1
    OBVIOUS
  <2>3. \A j \in 0..(k + 1) : j # k + 1 => j \in 0..k /\ z[j] \in Seq(S)
    BY <2>1
  <2>4. \A j \in 0..k : new[j] = z[j] \o s /\ new[j] \in Seq(S)
    <3>1. \A j \in 0..k : z[j] \in Seq(S)
      BY <2>1
    <3>3. \A j \in 0..k : j \in 0..(k + 1) /\ j # k + 1
      OBVIOUS
    <3> HIDE DEF s
    <3>2. QED
      BY <2>2, <3>1, <3>3
  <2>5. new[k + 1] = <<>> /\ new \in [0..(k + 1) -> Seq(S)]
    <3>1. \A j \in 0..(k + 1) : j # k + 1 => j \in 0..k
      OBVIOUS
    <3>2. k + 1 \in 0..(k + 1)
      OBVIOUS
    <3>3. new[k + 1] = <<>>
      BY <3>2
    <3>4. \A j \in 0..(k + 1) : new[j] \in Seq(S)
      <4> HIDE DEF new
      <4>1. TAKE j \in 0..(k + 1)
      <4>2. <<>> \in Seq(S)
        OBVIOUS
      <4>3. QED
        BY <2>4, <3>1, <3>3, <4>2
    <3>5. QED
      BY <3>3, <3>4
  <2> HIDE DEF new
  <2>6. new[0] = h[k + 1]
    <3>1. 0 \in 0..k /\ z[0] = h[k]
      BY <2>1
    <3>2. new[0] = h[k] \o s
      BY <2>4, <3>1
    <3>3. h[k + 1] = h[k] \o s
      BY <1>1, <2>2
    <3>4. QED
      BY <3>2, <3>3
  <2>7. ASSUME NEW j \in 1..(k + 1) PROVE new[j - 1] = seqs[j] \o new[j]
    <3>1. j - 1 \in 0..k /\ j \in 1..n
      OBVIOUS
    <3>2. CASE j = k + 1
      <4>1. new[j - 1] = <<>> \o s
        BY <2>1, <2>2, <2>4, <3>1, <3>2
      <4>2. <<>> \o s = s /\ s \o <<>> = s
        BY <2>2
      <4>3. QED
        BY <2>5, <3>2, <4>1, <4>2
    <3>3. CASE j # k + 1
      <4>1. j \in 0..k /\ j \in 1..k
        BY <3>3
      <4>2. new[j - 1] = (seqs[j] \o z[j]) \o s /\ new[j] = z[j] \o s
        BY <2>1, <2>4, <3>1, <4>1
      <4>3. seqs[j] \in Seq(S) /\ z[j] \in Seq(S)
        BY <2>1, <3>1, <4>1
      <4>4. s \in Seq(S)
        BY <2>2
      <4> HIDE DEF s
      <4>5. (seqs[j] \o z[j]) \o s = seqs[j] \o (z[j] \o s)
        <5> DEFINE a == seqs[j]
                   b == z[j]
        <5>1. a \in Seq(S) /\ b \in Seq(S)
          BY <4>3
        <5> HIDE DEF a, b
        <5>2. (a \o b) \o s = a \o (b \o s)
          BY <4>4, <5>1, ConcatAssociative, SMTT(30)
        <5>3. QED
          BY <5>2 DEF a, b
      <4>6. QED
        BY <4>2, <4>5
    <3>4. QED
      BY <3>2, <3>3
  <2>8. k + 1 \in 0..n
    OBVIOUS
  <2>9. QED
    BY <2>5, <2>6, <2>7, <2>8
<1>4. n \in T
  <2> HIDE DEF T
  <2>1. \A k \in 0..n : k \in T
    BY <1>2, <1>3, Climb
  <2>2. QED
    BY <2>1
<1>5. n \in 0..n
  OBVIOUS
<1>7. PICK z : Parts(z, n)
  BY <1>4
<1>8. Splits(z, seqs, n, S)
  BY <1>1, <1>7 DEF Splits
<1>9. FlattenSeq(seqs) \in Seq(S)
  BY <1>1, <1>5
<1>6. QED
  BY <1>8, <1>9

-----------------------------------------------------------------------------
(***************************************************************************)
(* The values of a field of this many bytes: a number for one or two, and  *)
(* a sequence of bytes for more.                                           *)
(***************************************************************************)
Fits(value, width) ==
  \/ width = 1 /\ value \in Byte
  \/ width = 2 /\ value \in Short
  \/ width # 1 /\ width # 2 /\ value \in [1..width -> Byte]

(***************************************************************************)
(* The values that operator<< writes in a field of this many bytes: any    *)
(* int in one byte or two, of which it takes the low bits.                 *)
(***************************************************************************)
Loose(value, width) == (width \in {1, 2} /\ value \in Int) \/ Fits(value, width)

(***************************************************************************)
(* f is a function on D.                                                   *)
(***************************************************************************)
Function(f, D) == f = [x \in D |-> f[x]]

(***************************************************************************)
(* A field of w bytes is a sequence of w bytes.                            *)
(***************************************************************************)
LEMMA ByteSequence ==
  ASSUME NEW w \in Nat, NEW f \in [1..w -> Byte]
  PROVE  f \in Seq(Byte) /\ Len(f) = w
OBVIOUS

(***************************************************************************)
(* The bytes of a value, for each width (operator<< of the streams).       *)
(***************************************************************************)
LEMMA BytesBy ==
  /\ \A value : Bytes(value, 1) = <<value % 256>>
  /\ \A value : Bytes(value, 2) = <<(value \div 256) % 256, value % 256>>
  /\ \A value, w : w # 1 /\ w # 2 => Bytes(value, w) = value
<1>1. 2 # 1
  OBVIOUS
<1>2. QED
  BY <1>1, Zenon DEF Bytes

(***************************************************************************)
(* The value of the bytes at the head, for each width (operator>>).        *)
(***************************************************************************)
LEMMA ValueBy ==
  /\ \A b : ValueAt(b, 1) = b[1]
  /\ \A b : ValueAt(b, 2) = Word(b, 1)
  /\ \A b, w : w # 1 /\ w # 2 => ValueAt(b, w) = SubSeq(b, 1, w)
<1>1. 2 # 1
  OBVIOUS
<1>2. QED
  BY <1>1, Zenon DEF ValueAt

(***************************************************************************)
(* What fits, for each width.                                              *)
(***************************************************************************)
LEMMA FitsBy ==
  /\ \A value : Fits(value, 1) <=> value \in Byte
  /\ \A value : Fits(value, 2) <=> value \in Short
  /\ \A value, w : w # 1 /\ w # 2 => (Fits(value, w) <=> value \in [1..w -> Byte])
<1>1. 2 # 1
  OBVIOUS
<1>2. QED
  BY <1>1, Zenon DEF Fits

(***************************************************************************)
(* What fits the wide fields that the packets have.                        *)
(***************************************************************************)
LEMMA FitsWide ==
  ASSUME NEW value
  PROVE  /\ Fits(value, 4) <=> value \in [1..4 -> Byte]
         /\ Fits(value, 6) <=> value \in [1..6 -> Byte]
         /\ Fits(value, 8) <=> value \in [1..8 -> Byte]
<1>1. 4 # 1 /\ 4 # 2 /\ 6 # 1 /\ 6 # 2 /\ 8 # 1 /\ 8 # 2
  OBVIOUS
<1>2. QED
  BY <1>1, FitsBy, Zenon

(***************************************************************************)
(* A number is made of its high and its low byte.                          *)
(***************************************************************************)
LEMMA DivisionBy256 ==
  ASSUME NEW v \in Int
  PROVE  /\ 256 * (v \div 256) + (v % 256) = v /\ v \div 256 \in Int /\ v % 256 \in Int
         /\ 0 <= v % 256 /\ v % 256 < 256
         /\ 0 <= v /\ v < 256 => v % 256 = v
         /\ 0 <= v /\ v < 65536 => 0 <= v \div 256 /\ v \div 256 < 256
BY SMT

(***************************************************************************)
(* Two bytes make a number of 16 bits, and such a number is made of two    *)
(* bytes.                                                                  *)
(***************************************************************************)
LEMMA Words ==
  /\ \A x, y \in Byte : 256 * x + y \in Short
  /\ \A v \in Byte : v % 256 = v
  /\ \A v \in Short : /\ 256 * ((v \div 256) % 256) + (v % 256) = v
                      /\ (v \div 256) % 256 \in Byte /\ v % 256 \in Byte
  /\ \A b, at : Word(b, at) = 256 * b[at] + b[at + 1]
<1>1. ASSUME NEW x \in Byte, NEW y \in Byte PROVE 256 * x + y \in Short
  <2>1. x \in Nat /\ x < 256 /\ y \in Nat /\ y < 256
    BY DEF Byte
  <2>2. QED
    BY <2>1, SMT DEF Short
<1>2. \A b, at : Word(b, at) = 256 * b[at] + b[at + 1]
  BY Zenon DEF Word
<1>3. ASSUME NEW v \in Byte PROVE v % 256 = v
  <2>1. v \in Int /\ 0 <= v /\ v < 256
    BY DEF Byte
  <2>2. QED
    BY <2>1, DivisionBy256
<1>4. ASSUME NEW v \in Short
      PROVE  /\ 256 * ((v \div 256) % 256) + (v % 256) = v
             /\ (v \div 256) % 256 \in Byte /\ v % 256 \in Byte
  <2> DEFINE q == v \div 256
             r == v % 256
  <2>1. v \in Int /\ 0 <= v /\ v < 65536
    BY SMT DEF Short
  <2>2. q \in Int /\ 0 <= q /\ q < 256 /\ r \in Int /\ 0 <= r /\ r < 256 /\ 256 * q + r = v
    BY <2>1, DivisionBy256
  <2> HIDE DEF q, r
  <2>3. q % 256 = q
    BY <2>2, DivisionBy256
  <2>4. q \in Byte /\ r \in Byte
    BY <2>2 DEF Byte
  <2>5. 256 * (q % 256) + r = v /\ q % 256 \in Byte /\ r \in Byte
    BY <2>2, <2>3, <2>4
  <2>6. QED
    BY <2>5 DEF q, r
<1>5. QED
  BY <1>1, <1>2, <1>3, <1>4, Zenon

(***************************************************************************)
(* One byte, and two, are sequences of bytes.                              *)
(***************************************************************************)
LEMMA Pieces ==
  /\ \A a \in Byte : <<a>> \in Seq(Byte) /\ Len(<<a>>) = 1
  /\ \A a, b \in Byte : <<a, b>> \in Seq(Byte) /\ Len(<<a, b>>) = 2
OBVIOUS

(***************************************************************************)
(* What they are, and that what fits is one of them.                       *)
(***************************************************************************)
LEMMA LooseBy ==
  /\ \A value : Loose(value, 1) => value \in Int
  /\ \A value : Loose(value, 2) => value \in Int
  /\ \A value, w : w # 1 /\ w # 2 /\ Loose(value, w) => value \in [1..w -> Byte]
  /\ \A value, w : Fits(value, w) => Loose(value, w)
<1>1. \A value : value \in Byte \/ value \in Short => value \in Int
  BY DEF Byte, Short
<1>2. \A value, w : w # 1 /\ w # 2 => (Loose(value, w) => Fits(value, w))
  BY DEF Loose
<1>3. \A value : (Loose(value, 1) => value \in Int) /\ (Loose(value, 2) => value \in Int)
  BY <1>1 DEF Loose, Fits
<1>4. \A value, w : Fits(value, w) => Loose(value, w)
  BY DEF Loose
<1>5. QED
  BY <1>2, <1>3, <1>4, FitsBy

(***************************************************************************)
(* The two bytes of any int.                                               *)
(***************************************************************************)
LEMMA LooseWords ==
  \A v \in Int : (v \div 256) % 256 \in Byte /\ v % 256 \in Byte
BY DivisionBy256 DEF Byte

(***************************************************************************)
(* A value that can be written takes as many bytes as its field is wide.   *)
(***************************************************************************)
LEMMA BytesFit ==
  ASSUME NEW w \in Nat \ {0}, NEW value, Loose(value, w)
  PROVE  Bytes(value, w) \in Seq(Byte) /\ Len(Bytes(value, w)) = w
<1>1. CASE w = 1
  <2>1. Bytes(value, w) = <<value % 256>> /\ value \in Int
    BY <1>1, BytesBy, LooseBy
  <2>2. value % 256 \in Byte
    BY <2>1, LooseWords
  <2>3. QED
    BY <1>1, <2>1, <2>2, Pieces
<1>2. CASE w = 2
  <2> DEFINE a == (value \div 256) % 256
             b == value % 256
  <2>1. Bytes(value, w) = <<a, b>> /\ value \in Int
    BY <1>2, BytesBy, LooseBy
  <2>2. a \in Byte /\ b \in Byte
    BY <2>1, LooseWords
  <2> HIDE DEF a, b
  <2>3. QED
    BY <1>2, <2>1, <2>2, Pieces
<1>3. CASE w # 1 /\ w # 2
  <2>1. Bytes(value, w) = value /\ value \in [1..w -> Byte]
    BY <1>3, BytesBy, LooseBy
  <2>2. QED
    BY <2>1, ByteSequence
<1>4. QED
  BY <1>1, <1>2, <1>3

(***************************************************************************)
(* Of two sequences put together, the head is the first and the rest is    *)
(* the second.                                                             *)
(***************************************************************************)
LEMMA HeadAndTail ==
  ASSUME NEW S, NEW a \in Seq(S), NEW b \in Seq(S)
  PROVE  /\ a \o b \in Seq(S) /\ Len(a \o b) = Len(a) + Len(b)
         /\ SubSeq(a \o b, 1, Len(a)) = a /\ SubSeq(a \o b, Len(a) + 1, Len(a \o b)) = b
         /\ \A i \in 1..Len(a) : (a \o b)[i] = a[i]
<1>1. /\ a \o b \in Seq(S) /\ Len(a \o b) = Len(a) + Len(b)
      /\ \A i \in 1..Len(a) : (a \o b)[i] = a[i]
  BY ConcatProperties
<1>2. SubSeq(a \o b, 1, Len(a)) = a
  BY SubSeqOfConcat1, SubSeqFull
<1>3. SubSeq(a \o b, Len(a) + 1, Len(a \o b)) = b
  BY <1>1, SubSeqOfConcat2, SubSeqFull
<1>4. QED
  BY <1>1, <1>2, <1>3

(***************************************************************************)
(* Bytes behind bytes are bytes.                                           *)
(***************************************************************************)
LEMMA BytesAndBytes ==
  ASSUME NEW a \in Seq(Byte), NEW b \in Seq(Byte)
  PROVE  a \o b \in Seq(Byte) /\ Len(a \o b) = Len(a) + Len(b)
BY HeadAndTail

(***************************************************************************)
(* The first w elements of a sequence, and those behind them.              *)
(***************************************************************************)
LEMMA RestOf ==
  ASSUME NEW S, NEW b \in Seq(S), NEW w \in Nat, w <= Len(b)
  PROVE  /\ SubSeq(b, w + 1, Len(b)) \in Seq(S) /\ Len(SubSeq(b, w + 1, Len(b))) = Len(b) - w
         /\ SubSeq(b, 1, w) \in Seq(S) /\ Len(SubSeq(b, 1, w)) = w
         /\ \A i \in 1..w : SubSeq(b, 1, w)[i] = b[i]
<1>1. w + 1 \in 1..(Len(b) + 1) /\ Len(b) \in Nat
  OBVIOUS
<1>2. QED
  OBVIOUS

(***************************************************************************)
(* A value that fits its field is read back from its bytes, whatever is    *)
(* behind them: no width, order or sign is lost on the way.                *)
(***************************************************************************)
LEMMA ValueOfBytes ==
  ASSUME NEW w \in Nat \ {0}, NEW value, Fits(value, w), NEW tail \in Seq(Byte)
  PROVE  /\ Bytes(value, w) \o tail \in Seq(Byte)
         /\ Len(Bytes(value, w) \o tail) = w + Len(tail)
         /\ ValueAt(Bytes(value, w) \o tail, w) = value
         /\ SubSeq(Bytes(value, w) \o tail, w + 1, Len(Bytes(value, w) \o tail)) = tail
<1> DEFINE h == Bytes(value, w)
           b == h \o tail
<1>1. h \in Seq(Byte) /\ Len(h) = w
  BY BytesFit, LooseBy
<1> HIDE DEF h
<1>2. /\ b \in Seq(Byte) /\ Len(b) = w + Len(tail)
      /\ SubSeq(b, 1, w) = h /\ SubSeq(b, w + 1, Len(b)) = tail
      /\ \A i \in 1..w : b[i] = h[i]
  <2>1. /\ b \in Seq(Byte) /\ Len(b) = Len(h) + Len(tail)
        /\ SubSeq(b, 1, Len(h)) = h /\ SubSeq(b, Len(h) + 1, Len(b)) = tail
        /\ \A i \in 1..Len(h) : b[i] = h[i]
    <3>1. h \in Seq(Byte) /\ tail \in Seq(Byte)
      BY <1>1
    <3>2. QED
      BY <3>1, HeadAndTail, SMTT(30)
  <2> HIDE DEF b
  <2>2. QED
    BY <1>1, <2>1
<1> HIDE DEF b
<1>3. ValueAt(b, w) = value
  <2>1. CASE w = 1
    <3>1. h = <<value % 256>> /\ value \in Byte
      BY <2>1, BytesBy, FitsBy DEF h
    <3>4. value % 256 = value
      BY <3>1, Words
    <3>2. b[1] = h[1]
      BY <1>2, <2>1
    <3>3. QED
      BY <2>1, <3>1, <3>2, <3>4, ValueBy
  <2>2. CASE w = 2
    <3>1. h = <<(value \div 256) % 256, value % 256>> /\ value \in Short
      BY <2>2, BytesBy, FitsBy DEF h
    <3>2. b[1] = h[1] /\ b[2] = h[2]
      BY <1>2, <2>2
    <3>3. 256 * ((value \div 256) % 256) + (value % 256) = value
      BY <3>1, Words
    <3>4. h[1] = (value \div 256) % 256 /\ h[2] = value % 256
      <4>1. \A x, y : <<x, y>>[1] = x /\ <<x, y>>[2] = y
        OBVIOUS
      <4>2. QED
        BY <3>1, <4>1, Zenon
    <3>5. Word(b, 1) = 256 * b[1] + b[2]
      BY DEF Word
    <3>6. ValueAt(b, w) = Word(b, 1)
      BY <2>2, ValueBy
    <3>7. QED
      BY <3>2, <3>3, <3>4, <3>5, <3>6
  <2>3. CASE w # 1 /\ w # 2
    <3>1. h = value /\ ValueAt(b, w) = SubSeq(b, 1, w)
      BY <2>3, BytesBy, FitsBy, ValueBy DEF h
    <3>2. QED
      BY <1>2, <3>1
  <2>4. QED
    BY <2>1, <2>2, <2>3
<1>4. QED
  BY <1>2, <1>3 DEF b, h

(***************************************************************************)
(* What is read from bytes fits its field.                                 *)
(***************************************************************************)
LEMMA ValueFits ==
  ASSUME NEW w \in Nat \ {0}, NEW b \in Seq(Byte), w <= Len(b)
  PROVE  Fits(ValueAt(b, w), w)
<1>1. \A i \in 1..w : b[i] \in Byte
  OBVIOUS
<1>2. CASE w = 1
  BY <1>1, <1>2, ValueBy, FitsBy
<1>3. CASE w = 2
  <2>1. b[1] \in Byte /\ b[2] \in Byte
    BY <1>1, <1>3
  <2>2. Word(b, 1) \in Short
    <3>1. Word(b, 1) = 256 * b[1] + b[2]
      BY DEF Word
    <3>2. 256 * b[1] + b[2] \in Short
      <4> DEFINE x == b[1]
                 y == b[2]
      <4>1. x \in Byte /\ y \in Byte
        BY <2>1
      <4> HIDE DEF x, y
      <4>2. 256 * x + y \in Short
        BY <4>1, Words
      <4>3. QED
        BY <4>2 DEF x, y
    <3>3. QED
      BY <3>1, <3>2
  <2>3. ValueAt(b, w) = Word(b, 1) /\ Fits(Word(b, 1), w)
    BY <1>3, <2>2, ValueBy, FitsBy, Zenon
  <2>4. QED
    BY <2>3
<1>4. CASE w # 1 /\ w # 2
  <2>1. ValueAt(b, w) = SubSeq(b, 1, w)
    BY <1>4, ValueBy
  <2>2. SubSeq(b, 1, w) \in [1..w -> Byte]
    <3> DEFINE v == SubSeq(b, 1, w)
    <3>1. v \in Seq(Byte) /\ Len(v) = w
      BY RestOf
    <3> HIDE DEF v
    <3>2. v \in [1..w -> Byte]
      BY <3>1
    <3>3. QED
      BY <3>2 DEF v
  <2>3. QED
    BY <1>4, <2>1, <2>2, FitsBy
<1>5. QED
  BY <1>2, <1>3, <1>4

(***************************************************************************)
(* f, with v at x.                                                         *)
(***************************************************************************)
Put(f, x, v) == [f EXCEPT ![x] = v]

(***************************************************************************)
(* What is put at x is there, and everything else stays.                   *)
(***************************************************************************)
LEMMA Updated ==
  ASSUME NEW f, NEW D, Function(f, D), NEW x \in D, NEW v
  PROVE  Function(Put(f, x, v), D) /\ Put(f, x, v)[x] = v /\
           \A y \in D \ {x} : Put(f, x, v)[y] = f[y]
BY Zenon DEF Function, Put

(***************************************************************************)
(* g is f with v at x.                                                     *)
(***************************************************************************)
IsPut(g, f, x, v, D) ==
  Function(g, D) /\ g[x] = v /\ \A y \in D \ {x} : g[y] = f[y]

(***************************************************************************)
(* Put gives such a function.                                              *)
(***************************************************************************)
LEMMA PutIs ==
  ASSUME NEW f, NEW D, Function(f, D), NEW x \in D, NEW v
  PROVE  IsPut(Put(f, x, v), f, x, v, D)
BY Zenon DEF Function, Put, IsPut

(***************************************************************************)
(* Functions on one set that agree everywhere are the same.                *)
(***************************************************************************)
LEMMA SameFunction ==
  ASSUME NEW D, NEW f, NEW g, Function(f, D), Function(g, D), \A x \in D : f[x] = g[x]
  PROVE  f = g
BY DEF Function

(***************************************************************************)
(* A function on D has domain D.                                           *)
(***************************************************************************)
LEMMA FunctionDomain ==
  ASSUME NEW D, NEW f, Function(f, D)
  PROVE  DOMAIN f = D
BY DEF Function

-----------------------------------------------------------------------------
(***************************************************************************)
(* A stream from which a packet with the fields D is read.                 *)
(***************************************************************************)
Stream(r, D) ==
  /\ r = [p |-> r.p, rest |-> r.rest, good |-> r.good]
  /\ Function(r.p, D) /\ r.rest \in Seq(Byte) /\ r.good \in BOOLEAN

(***************************************************************************)
(* A record of a packet, bytes and a flag is a stream.                     *)
(***************************************************************************)
LEMMA MakeStream ==
  ASSUME NEW D, NEW p, Function(p, D), NEW b \in Seq(Byte), NEW good \in BOOLEAN
  PROVE  LET r == [p |-> p, rest |-> b, good |-> good]
         IN  Stream(r, D) /\ r.p = p /\ r.rest = b /\ r.good = good
<1>1. LET r == [p |-> p, rest |-> b, good |-> good] IN r.p = p /\ r.rest = b /\ r.good = good
  OBVIOUS
<1>2. QED
  BY <1>1, Zenon DEF Stream

(***************************************************************************)
(* A stream that fails keeps the packet and the bytes.                     *)
(***************************************************************************)
LEMMA FailedSound ==
  ASSUME NEW D, NEW r, Stream(r, D)
  PROVE  Stream(Failed(r), D) /\ Failed(r).p = r.p /\ Failed(r).rest = r.rest /\ ~Failed(r).good
<1>1. Function(r.p, D) /\ r.rest \in Seq(Byte) /\ FALSE \in BOOLEAN
  BY DEF Stream
<1>2. QED
  BY <1>1, MakeStream DEF Failed

(***************************************************************************)
(* s is r after a field took a value from the head of the stream.          *)
(***************************************************************************)
TookFrom(r, s, name, value, size, D) ==
  /\ Stream(s, D) /\ s.p = Put(r.p, name, value) /\ s.p[name] = value
  /\ \A x \in D \ {name} : s.p[x] = r.p[x]
  /\ s.rest = SubSeq(r.rest, size + 1, Len(r.rest)) /\ Len(s.rest) = Len(r.rest) - size
  /\ s.good = r.good

(***************************************************************************)
(* Taken does this.                                                        *)
(***************************************************************************)
LEMMA TakenSound ==
  ASSUME NEW D, NEW r, Stream(r, D), NEW name \in D, NEW value,
           NEW size \in Nat, size <= Len(r.rest)
  PROVE  TookFrom(r, Taken(r, name, value, size), name, value, size, D)
<1> DEFINE q == Put(r.p, name, value)
           left == SubSeq(r.rest, size + 1, Len(r.rest))
           s == Taken(r, name, value, size)
<1>1. Function(r.p, D) /\ r.rest \in Seq(Byte) /\ r.good \in BOOLEAN
  BY DEF Stream
<1>2. Function(q, D) /\ q[name] = value /\ \A x \in D \ {name} : q[x] = r.p[x]
  BY <1>1, Updated
<1>3. left \in Seq(Byte) /\ Len(left) = Len(r.rest) - size
  BY <1>1, RestOf
<1>4. s = [p |-> q, rest |-> left, good |-> r.good]
  BY DEF Taken, Put
<1> HIDE DEF q, left, s
<1>5. Stream(s, D) /\ s.p = q /\ s.rest = left /\ s.good = r.good
  BY <1>1, <1>2, <1>3, <1>4, MakeStream
<1>6. TookFrom(r, s, name, value, size, D)
  BY <1>2, <1>3, <1>5 DEF TookFrom, q, left
<1>7. QED
  BY <1>6 DEF s

(***************************************************************************)
(* Reading a field changes no other; where the stream stays good the field *)
(* has a value that fits it.                                               *)
(***************************************************************************)
LEMMA ReadFieldSound ==
  ASSUME NEW D, NEW r, Stream(r, D), NEW field, field[1] \in D, field[2] \in Nat \ {0}
  PROVE  /\ Stream(ReadField(r, field), D) /\
              \A x \in D \ {field[1]} : ReadField(r, field).p[x] = r.p[x]
         /\ ReadField(r, field).good => r.good /\ Fits(ReadField(r, field).p[field[1]], field[2])
         /\ ReadField(r, field).p[field[1]] = r.p[field[1]] \/
              Fits(ReadField(r, field).p[field[1]], field[2])
<1> DEFINE s == ReadField(r, field)
<1>1. r.rest \in Seq(Byte) /\ r.good \in BOOLEAN /\ Len(r.rest) \in Nat
  BY DEF Stream
<1>2. CASE ~r.good \/ Len(r.rest) < field[2]
  <2>1. s = Failed(r)
    BY <1>2, Zenon DEF ReadField
  <2>2. QED
    BY <2>1, FailedSound
<1>3. CASE ~(~r.good \/ Len(r.rest) < field[2])
  <2> DEFINE v == ValueAt(r.rest, field[2])
  <2>1. s = Taken(r, field[1], v, field[2])
    BY <1>3, Zenon DEF ReadField
  <2>2. field[2] <= Len(r.rest) /\ r.good
    BY <1>1, <1>3
  <2>3. Fits(v, field[2])
    BY <1>1, <2>2, ValueFits
  <2>4. TookFrom(r, s, field[1], v, field[2], D)
    BY <2>1, <2>2, TakenSound
  <2> HIDE DEF v, s
  <2>5. /\ Stream(s, D) /\ \A x \in D \ {field[1]} : s.p[x] = r.p[x]
        /\ s.good => r.good /\ Fits(s.p[field[1]], field[2])
        /\ s.p[field[1]] = r.p[field[1]] \/ Fits(s.p[field[1]], field[2])
    BY <2>2, <2>3, <2>4 DEF TookFrom
  <2>8. QED
    BY <2>5 DEF s
<1>4. QED
  BY <1>2, <1>3

(***************************************************************************)
(* Reading bytes changes no other field, takes as many as it is told, and  *)
(* fails only where so many are not left.                                  *)
(***************************************************************************)
LEMMA ReadBytesSound ==
  ASSUME NEW D, NEW r, Stream(r, D), NEW name \in D, NEW size \in Nat
  PROVE  /\ Stream(ReadBytes(r, name, size), D) /\
              \A x \in D \ {name} : ReadBytes(r, name, size).p[x] = r.p[x]
         /\ ReadBytes(r, name, size).good =>
              r.good /\ ReadBytes(r, name, size).p[name] \in Seq(Byte) /\
              Len(ReadBytes(r, name, size).p[name]) = size
         /\ ~ReadBytes(r, name, size).good => ReadBytes(r, name, size).p = r.p
         /\ r.good /\ size <= Len(r.rest) => ReadBytes(r, name, size).good
<1> DEFINE s == ReadBytes(r, name, size)
<1>1. r.rest \in Seq(Byte) /\ r.good \in BOOLEAN /\ Len(r.rest) \in Nat
  BY DEF Stream
<1>2. CASE ~r.good \/ Len(r.rest) < size
  <2>1. s = Failed(r)
    BY <1>2, Zenon DEF ReadBytes
  <2>2. ~(r.good /\ size <= Len(r.rest))
    BY <1>1, <1>2
  <2>3. QED
    BY <2>1, <2>2, FailedSound, Zenon
<1>3. CASE ~(~r.good \/ Len(r.rest) < size)
  <2> DEFINE v == SubSeq(r.rest, 1, size)
  <2>1. s = Taken(r, name, v, size)
    BY <1>3, Zenon DEF ReadBytes
  <2>2. size <= Len(r.rest) /\ r.good
    BY <1>1, <1>3
  <2>3. v \in Seq(Byte) /\ Len(v) = size
    BY <1>1, <2>2, RestOf
  <2>4. TookFrom(r, s, name, v, size, D)
    BY <2>1, <2>2, TakenSound
  <2> HIDE DEF v, s
  <2>5. /\ Stream(s, D) /\ \A x \in D \ {name} : s.p[x] = r.p[x]
        /\ s.good => r.good /\ s.p[name] \in Seq(Byte) /\ Len(s.p[name]) = size
        /\ ~s.good => s.p = r.p
        /\ r.good /\ size <= Len(r.rest) => s.good
    BY <2>2, <2>3, <2>4 DEF TookFrom
  <2>6. QED
    BY <2>5 DEF s
<1>4. QED
  BY <1>2, <1>3

(***************************************************************************)
(* A layout of n fields, each named once, of a packet with the fields D.   *)
(***************************************************************************)
LayoutOf(L, n, D) ==
  /\ n \in Nat /\ DOMAIN L = 1..n
  /\ \A i \in 1..n : L[i][1] \in D /\ L[i][2] \in Nat \ {0}
  /\ \A i, j \in 1..n : L[i][1] = L[j][1] => i = j

(***************************************************************************)
(* After k fields: the others are as they were, and the k fit where the    *)
(* stream is good.                                                         *)
(***************************************************************************)
SoFar(r, s, L, k, D) ==
  /\ Stream(s, D) /\ (s.good => r.good)
  /\ \A x \in D : (\A i \in 1..k : x # L[i][1]) => s.p[x] = r.p[x]
  /\ \A i \in 1..k : s.p[L[i][1]] = r.p[L[i][1]] \/ Fits(s.p[L[i][1]], L[i][2])
  /\ \A i \in 1..k : s.good => Fits(s.p[L[i][1]], L[i][2])

(***************************************************************************)
(* One field more.                                                         *)
(***************************************************************************)
LEMMA OneMoreField ==
  ASSUME NEW D, NEW r, NEW s, NEW L, NEW n, LayoutOf(L, n, D),
           NEW k \in 0..(n - 1), SoFar(r, s, L, k, D)
  PROVE  SoFar(r, ReadField(s, L[k + 1]), L, k + 1, D)
<1> DEFINE field == L[k + 1]
           name == field[1]
           t == ReadField(s, field)
<1>1. n \in Nat /\ k + 1 \in 1..n /\ \A i \in 1..(k + 1) : i \in 1..n /\ (i = k + 1 \/ i \in 1..k)
  BY DEF LayoutOf
<1>2. \A i \in 1..n : L[i][1] \in D /\ L[i][2] \in Nat \ {0}
  BY Zenon DEF LayoutOf
<1>3. \A i, j \in 1..n : L[i][1] = L[j][1] => i = j
  BY Zenon DEF LayoutOf
<1>4. Stream(s, D) /\ name \in D /\ field[2] \in Nat \ {0}
  BY <1>1, <1>2 DEF SoFar
<1> HIDE DEF field
<1>5. /\ Stream(t, D) /\ (\A x \in D \ {name} : t.p[x] = s.p[x])
      /\ (t.good => s.good /\ Fits(t.p[name], field[2]))
      /\ (t.p[name] = s.p[name] \/ Fits(t.p[name], field[2]))
  BY <1>4, ReadFieldSound
<1> HIDE DEF t
<1>6. \A x \in D : (\A i \in 1..(k + 1) : x # L[i][1]) => t.p[x] = r.p[x]
  <2>1. ASSUME NEW x \in D, \A i \in 1..(k + 1) : x # L[i][1] PROVE t.p[x] = r.p[x]
    <3>1. x # name /\ \A i \in 1..k : x # L[i][1]
      BY <2>1, <1>1 DEF field
    <3>2. s.p[x] = r.p[x]
      BY <3>1 DEF SoFar
    <3>3. QED
      BY <3>1, <3>2, <1>5
  <2>2. QED
    BY <2>1, Zenon
<1>7. ASSUME NEW i \in 1..(k + 1)
      PROVE  /\ t.p[L[i][1]] = r.p[L[i][1]] \/ Fits(t.p[L[i][1]], L[i][2])
             /\ t.good => Fits(t.p[L[i][1]], L[i][2])
  <2>1. CASE i = k + 1
    <3>1. \A j \in 1..k : name # L[j][1]
      <4>1. \A j \in 1..k : j \in 1..n /\ j # k + 1
        BY <1>1
      <4>2. QED
        BY <1>1, <1>3, <4>1 DEF field
    <3>2. s.p[name] = r.p[name]
      BY <1>4, <3>1 DEF SoFar
    <3>3. L[i] = field
      BY <2>1 DEF field
    <3>4. QED
      BY <1>5, <3>2, <3>3
  <2>2. CASE i # k + 1
    <3>1. i \in 1..k /\ i \in 1..n /\ k + 1 \in 1..n
      BY <1>1, <2>2
    <3>2. L[i][1] \in D \ {name}
      BY <1>2, <1>3, <2>2, <3>1, Zenon DEF field
    <3>3. t.p[L[i][1]] = s.p[L[i][1]]
      BY <1>5, <3>2, Zenon
    <3>4. /\ s.p[L[i][1]] = r.p[L[i][1]] \/ Fits(s.p[L[i][1]], L[i][2])
          /\ s.good => Fits(s.p[L[i][1]], L[i][2])
      BY <3>1, Zenon DEF SoFar
    <3>5. QED
      BY <1>5, <3>3, <3>4
  <2>3. QED
    BY <2>1, <2>2
<1>8. t.good => r.good
  BY <1>5 DEF SoFar
<1>9. SoFar(r, t, L, k + 1, D)
  BY <1>5, <1>6, <1>7, <1>8, Zenon DEF SoFar
<1>10. QED
  BY <1>9 DEF t, field

(***************************************************************************)
(* Reading a layout changes only its fields, and where the stream stays    *)
(* good each has a value that fits it.                                     *)
(***************************************************************************)
LEMMA ReadFieldsSound ==
  ASSUME NEW D, NEW r, Stream(r, D), NEW L, NEW n, LayoutOf(L, n, D)
  PROVE  SoFar(r, ReadFields(r, L), L, n, D)
<1>1. n \in Nat /\ DOMAIN L = 1..n
  BY Zenon DEF LayoutOf
<1>2. PICK h : Readings(h, r, L, n)
  BY <1>1, ReadFieldsSteps
<1>3. h[0] = r /\ (\A k \in 1..n : h[k] = ReadField(h[k - 1], L[k])) /\ ReadFields(r, L) = h[n]
  BY <1>2 DEF Readings
<1> DEFINE T == {k \in 0..n : SoFar(r, h[k], L, k, D)}
<1>4. 0 \in T
  BY <1>1, <1>3 DEF SoFar
<1>5. ASSUME NEW k \in 0..(n - 1), k \in T PROVE k + 1 \in T
  <2>1. k + 1 \in 1..n /\ (k + 1) - 1 = k /\ k + 1 \in 0..n
    BY <1>1
  <2>2. h[k + 1] = ReadField(h[k], L[k + 1])
    BY <1>3, <2>1
  <2>3. SoFar(r, h[k], L, k, D)
    BY <1>5
  <2>4. SoFar(r, ReadField(h[k], L[k + 1]), L, k + 1, D)
    BY <2>3, OneMoreField
  <2>5. QED
    BY <2>1, <2>2, <2>4
<1>6. SoFar(r, h[n], L, n, D)
  <2> HIDE DEF T
  <2>1. \A k \in 0..n : k \in T
    BY <1>1, <1>4, <1>5, Climb
  <2>2. n \in T
    BY <1>1, <2>1
  <2>3. QED
    BY <2>2 DEF T
<1>7. QED
  BY <1>3, <1>6

-----------------------------------------------------------------------------
(***************************************************************************)
(* The first n fields of the layout have values that fit them.             *)
(***************************************************************************)
Filled(p, L, n) == \A i \in 1..n : Fits(p[L[i][1]], L[i][2])

(***************************************************************************)
(* The first n fields of the layout have values that can be written.       *)
(***************************************************************************)
Writable(p, L, n) == \A i \in 1..n : Loose(p[L[i][1]], L[i][2])

(***************************************************************************)
(* Values that fit can be.                                                 *)
(***************************************************************************)
LEMMA FilledWritable ==
  ASSUME NEW p, NEW L, NEW n, Filled(p, L, n)
  PROVE  Writable(p, L, n)
BY LooseBy DEF Filled, Writable

(***************************************************************************)
(* The bytes of the fields, one by one.                                    *)
(***************************************************************************)
Written(p, L) == [i \in DOMAIN L |-> Bytes(p[L[i][1]], L[i][2])]

(***************************************************************************)
(* What WriteFields puts together: of each field as many bytes as it is    *)
(* wide.                                                                   *)
(***************************************************************************)
LEMMA PiecesWritten ==
  ASSUME NEW D, NEW p, NEW L, NEW n, LayoutOf(L, n, D), Writable(p, L, n)
  PROVE  /\ n \in Nat /\ Written(p, L) \in [1..n -> Seq(Byte)]
         /\ \A i \in 1..n : Written(p, L)[i] = Bytes(p[L[i][1]], L[i][2]) /\
              Len(Written(p, L)[i]) = L[i][2]
         /\ WriteFields(p, L) = FlattenSeq(Written(p, L))
<1> DEFINE seqs == Written(p, L)
<1>1. n \in Nat /\ DOMAIN L = 1..n /\ \A i \in 1..n : L[i][2] \in Nat \ {0}
  BY Zenon DEF LayoutOf
<1>2. \A i \in 1..n : Loose(p[L[i][1]], L[i][2])
  BY Zenon DEF Writable
<1>3. ASSUME NEW i \in 1..n
      PROVE  /\ Bytes(p[L[i][1]], L[i][2]) \in Seq(Byte)
             /\ Len(Bytes(p[L[i][1]], L[i][2])) = L[i][2]
  BY <1>1, <1>2, BytesFit
<1>4. seqs = [i \in 1..n |-> Bytes(p[L[i][1]], L[i][2])]
  BY <1>1, Zenon DEF Written
<1>5. \A i \in 1..n : seqs[i] = Bytes(p[L[i][1]], L[i][2])
  BY <1>4, Zenon
<1>6. seqs \in [1..n -> Seq(Byte)]
  BY <1>3, <1>4, Zenon
<1>7. WriteFields(p, L) = FlattenSeq(seqs)
  BY Zenon DEF WriteFields, Written
<1> HIDE DEF seqs
<1>8. \A i \in 1..n : Len(seqs[i]) = L[i][2]
  BY <1>3, <1>5
<1>9. QED
  BY <1>1, <1>5, <1>6, <1>7, <1>8, Zenon DEF seqs

(***************************************************************************)
(* A packet whose fields can be written is written in as many bytes as its *)
(* layout is wide: what GetEncodeSpace counts is what StreamTo writes.     *)
(***************************************************************************)
LEMMA WriteFieldsFit ==
  ASSUME NEW D, NEW p, NEW L, NEW n, LayoutOf(L, n, D), Writable(p, L, n)
  PROVE  WriteFields(p, L) \in Seq(Byte) /\ Len(WriteFields(p, L)) = Width(L)
<1> DEFINE seqs == Written(p, L)
           widths == [i \in DOMAIN L |-> L[i][2]]
<1>1. DOMAIN L = 1..n /\ \A i \in 1..n : L[i][2] \in Nat \ {0}
  BY Zenon DEF LayoutOf
<1>2. DOMAIN widths = 1..n /\ \A i \in 1..n : widths[i] = L[i][2]
  BY <1>1
<1>3. Width(L) = SumOf(widths)
  BY Zenon DEF Width
<1> HIDE DEF seqs, widths
<1>4. n \in Nat /\ seqs \in [1..n -> Seq(Byte)] /\ WriteFields(p, L) = FlattenSeq(seqs)
  BY PiecesWritten DEF seqs
<1>5. \A i \in 1..n : Len(seqs[i]) = L[i][2]
  BY PiecesWritten DEF seqs
<1>6. PICK h : Piles(h, seqs, n, Byte)
  BY <1>4, FlattenSteps
<1>7. PICK g : Sums(g, widths, n)
  BY <1>2, <1>4, SumOfSteps
<1>8. /\ h[0] = <<>> /\ FlattenSeq(seqs) = h[n]
      /\ \A k \in 1..n : h[k] = h[k - 1] \o seqs[k]
  BY <1>6 DEF Piles
<1>9. \A k \in 0..n : h[k] \in Seq(Byte)
  BY <1>6 DEF Piles
<1>10. g[0] = 0 /\ SumOf(widths) = g[n] /\ \A k \in 1..n : g[k] = g[k - 1] + widths[k]
  BY <1>7 DEF Sums
<1> DEFINE T == {k \in 0..n : Len(h[k]) = g[k]}
<1>11. 0 \in T
  BY <1>4, <1>8, <1>10
<1>12. ASSUME NEW k \in 0..(n - 1), k \in T PROVE k + 1 \in T
  <2>1. k + 1 \in 1..n /\ (k + 1) - 1 = k /\ k + 1 \in 0..n
    BY <1>4
  <2>2. h[k + 1] = h[k] \o seqs[k + 1] /\ g[k + 1] = g[k] + widths[k + 1]
    BY <1>8, <1>10, <2>1
  <2>3. h[k] \in Seq(Byte) /\ seqs[k + 1] \in Seq(Byte) /\ Len(h[k]) = g[k]
    BY <1>4, <1>9, <1>12, <2>1
  <2>4. Len(h[k] \o seqs[k + 1]) = Len(h[k]) + Len(seqs[k + 1])
    <3> DEFINE a == h[k]
               b == seqs[k + 1]
    <3>1. a \in Seq(Byte) /\ b \in Seq(Byte)
      BY <2>3
    <3> HIDE DEF a, b
    <3>2. Len(a \o b) = Len(a) + Len(b)
      BY <3>1, BytesAndBytes
    <3>3. QED
      BY <3>2 DEF a, b
  <2>5. Len(h[k + 1]) = g[k + 1]
    BY <1>2, <1>5, <2>1, <2>2, <2>3, <2>4
  <2>6. QED
    BY <2>1, <2>5
<1>13. Len(h[n]) = g[n]
  <2> HIDE DEF T
  <2>1. \A k \in 0..n : k \in T
    BY <1>4, <1>11, <1>12, Climb
  <2>2. n \in T
    BY <1>4, <2>1
  <2>3. QED
    BY <2>2 DEF T
<1>14. h[n] \in Seq(Byte)
  BY <1>4, <1>9
<1>15. QED
  BY <1>3, <1>4, <1>8, <1>10, <1>13, <1>14

(***************************************************************************)
(* After k fields of what p wrote: they are those of p, the others are as  *)
(* they were, and what was behind them is left.                            *)
(***************************************************************************)
ReadBack(r, s, p, left, L, k, D) ==
  /\ Stream(s, D) /\ s.good /\ s.rest = left
  /\ \A i \in 1..k : s.p[L[i][1]] = p[L[i][1]]
  /\ \A x \in D : (\A i \in 1..k : x # L[i][1]) => s.p[x] = r.p[x]

(***************************************************************************)
(* t is s after a field was read from the bytes that its value had         *)
(* written.                                                                *)
(***************************************************************************)
BackFrom(s, t, name, value, tail, D) ==
  /\ Stream(t, D) /\ t.good /\ t.rest = tail /\ t.p[name] = value
  /\ \A x \in D \ {name} : t.p[x] = s.p[x]

(***************************************************************************)
(* A field is read back from what was written of it.                       *)
(***************************************************************************)
LEMMA FieldReadBack ==
  ASSUME NEW D, NEW s, Stream(s, D), s.good, NEW field, field[1] \in D, field[2] \in Nat \ {0},
         NEW value, Fits(value, field[2]), NEW tail \in Seq(Byte),
         s.rest = Bytes(value, field[2]) \o tail
  PROVE  BackFrom(s, ReadField(s, field), field[1], value, tail, D)
<1> DEFINE w == field[2]
           name == field[1]
           t == ReadField(s, field)
           b == Bytes(value, w) \o tail
<1>0. w \in Nat \ {0} /\ Fits(value, w) /\ s.rest = b
  OBVIOUS
<1>1. /\ Len(s.rest) = w + Len(tail) /\ ValueAt(s.rest, w) = value
      /\ SubSeq(s.rest, w + 1, Len(s.rest)) = tail
  <2> HIDE DEF w
  <2>1. Len(b) = w + Len(tail) /\ ValueAt(b, w) = value /\ SubSeq(b, w + 1, Len(b)) = tail
    BY <1>0, ValueOfBytes, SMTT(30)
  <2> HIDE DEF b
  <2>2. QED
    BY <1>0, <2>1
<1>2. w \in Nat /\ w <= Len(s.rest) /\ ~(Len(s.rest) < w) /\ name \in D
  BY <1>1
<1>3. t = Taken(s, name, value, w)
  BY <1>1, <1>2, Zenon DEF ReadField
<1> HIDE DEF w, name, t
<1>4. BackFrom(s, t, name, value, tail, D)
  <2>1. TookFrom(s, t, name, value, w, D)
    BY <1>2, <1>3, TakenSound
  <2>2. QED
    BY <1>1, <2>1 DEF TookFrom, BackFrom
<1>5. QED
  BY <1>4 DEF t, name

(***************************************************************************)
(* One field more is read back.                                            *)
(***************************************************************************)
LEMMA OneMoreBack ==
  ASSUME NEW D, NEW r, NEW s, NEW p, NEW L, NEW n, LayoutOf(L, n, D), Filled(p, L, n),
         NEW k \in 0..(n - 1), NEW tail \in Seq(Byte),
         ReadBack(r, s, p, Bytes(p[L[k + 1][1]], L[k + 1][2]) \o tail, L, k, D)
  PROVE  ReadBack(r, ReadField(s, L[k + 1]), p, tail, L, k + 1, D)
<1> DEFINE field == L[k + 1]
           name == field[1]
           t == ReadField(s, field)
<1>1. n \in Nat /\ k + 1 \in 1..n /\ \A i \in 1..(k + 1) : i \in 1..n /\ (i = k + 1 \/ i \in 1..k)
  BY DEF LayoutOf
<1>2. \A i \in 1..n : L[i][1] \in D /\ L[i][2] \in Nat \ {0}
  BY Zenon DEF LayoutOf
<1>3. \A i, j \in 1..n : L[i][1] = L[j][1] => i = j
  BY Zenon DEF LayoutOf
<1>4. Stream(s, D) /\ s.good /\ name \in D /\ field[2] \in Nat \ {0}
  BY <1>1, <1>2 DEF ReadBack
<1>5. Fits(p[name], field[2])
  BY <1>1, Zenon DEF Filled
<1>6. s.rest = Bytes(p[name], field[2]) \o tail
  BY DEF ReadBack
<1> HIDE DEF field
<1>7. /\ Stream(t, D) /\ t.good /\ t.rest = tail /\ t.p[name] = p[name]
      /\ \A x \in D \ {name} : t.p[x] = s.p[x]
  <2>1. BackFrom(s, t, name, p[name], tail, D)
    BY <1>4, <1>5, <1>6, FieldReadBack
  <2>2. QED
    BY <2>1 DEF BackFrom
<1> HIDE DEF t
<1>8. \A x \in D : (\A i \in 1..(k + 1) : x # L[i][1]) => t.p[x] = r.p[x]
  <2>1. ASSUME NEW x \in D, \A i \in 1..(k + 1) : x # L[i][1] PROVE t.p[x] = r.p[x]
    <3>1. x # name /\ \A i \in 1..k : x # L[i][1]
      BY <2>1, <1>1 DEF field
    <3>2. s.p[x] = r.p[x]
      BY <3>1 DEF ReadBack
    <3>3. QED
      BY <3>1, <3>2, <1>7
  <2>2. QED
    BY <2>1, Zenon
<1>9. ASSUME NEW i \in 1..(k + 1)
      PROVE  t.p[L[i][1]] = p[L[i][1]]
  <2>1. CASE i = k + 1
    BY <1>7, <2>1 DEF field
  <2>2. CASE i # k + 1
    <3>1. i \in 1..k /\ i \in 1..n /\ k + 1 \in 1..n
      BY <1>1, <2>2
    <3>2. L[i][1] \in D \ {name}
      BY <1>2, <1>3, <2>2, <3>1, Zenon DEF field
    <3>3. t.p[L[i][1]] = s.p[L[i][1]]
      BY <1>7, <3>2, Zenon
    <3>4. s.p[L[i][1]] = p[L[i][1]]
      BY <3>1, Zenon DEF ReadBack
    <3>5. QED
      BY <3>3, <3>4
  <2>3. QED
    BY <2>1, <2>2
<1>10. ReadBack(r, t, p, tail, L, k + 1, D)
  BY <1>7, <1>8, <1>9, Zenon DEF ReadBack
<1>11. QED
  BY <1>10 DEF t, field

(***************************************************************************)
(* What WriteFields writes of a packet, ReadFields reads: every field gets *)
(* the value it had, no other changes, and what is behind them stays in    *)
(* the stream.                                                             *)
(***************************************************************************)
THEOREM RoundTrip ==
  ASSUME NEW D, NEW r, Stream(r, D), r.good, NEW p, NEW L,
           NEW n, LayoutOf(L, n, D), Filled(p, L, n),
         NEW tail \in Seq(Byte), r.rest = WriteFields(p, L) \o tail
  PROVE  ReadBack(r, ReadFields(r, L), p, tail, L, n, D)
<1> DEFINE seqs == Written(p, L)
<1>1. DOMAIN L = 1..n
  BY Zenon DEF LayoutOf
<1> HIDE DEF seqs
<1>2. n \in Nat /\ seqs \in [1..n -> Seq(Byte)] /\ WriteFields(p, L) = FlattenSeq(seqs)
  BY PiecesWritten, FilledWritable DEF seqs
<1>3. \A i \in 1..n : seqs[i] = Bytes(p[L[i][1]], L[i][2])
  BY PiecesWritten, FilledWritable DEF seqs
<1>12. PICK z : Splits(z, seqs, n, Byte)
  BY <1>2, FlattenSplits
<1>4. /\ z \in [0..n -> Seq(Byte)] /\ z[0] = FlattenSeq(seqs) /\ z[n] = <<>>
      /\ \A k \in 1..n : z[k - 1] = seqs[k] \o z[k]
  BY <1>12 DEF Splits
<1>5. PICK h : Readings(h, r, L, n)
  BY <1>1, <1>2, ReadFieldsSteps
<1>6. h[0] = r /\ (\A k \in 1..n : h[k] = ReadField(h[k - 1], L[k])) /\ ReadFields(r, L) = h[n]
  BY <1>5 DEF Readings
<1> DEFINE T == {k \in 0..n : ReadBack(r, h[k], p, z[k] \o tail, L, k, D)}
<1>7. 0 \in T
  <2>1. ReadBack(r, r, p, FlattenSeq(seqs) \o tail, L, 0, D)
    BY <1>2 DEF ReadBack
  <2>2. QED
    BY <1>2, <1>4, <1>6, <2>1
<1>8. ASSUME NEW k \in 0..(n - 1), k \in T PROVE k + 1 \in T
  <2>1. k + 1 \in 1..n /\ (k + 1) - 1 = k /\ k + 1 \in 0..n
    BY <1>2
  <2>2. h[k + 1] = ReadField(h[k], L[k + 1]) /\ z[k] = seqs[k + 1] \o z[k + 1]
    BY <1>4, <1>6, <2>1
  <2>3. ReadBack(r, h[k], p, z[k] \o tail, L, k, D)
    BY <1>8
  <2> DEFINE a == seqs[k + 1]
             c == z[k + 1]
  <2>4. a \in Seq(Byte) /\ c \in Seq(Byte) /\ a = Bytes(p[L[k + 1][1]], L[k + 1][2])
    BY <1>2, <1>3, <1>4, <2>1
  <2>5. z[k] = a \o c
    BY <2>2
  <2> HIDE DEF a, c
  <2>6. (a \o c) \o tail = a \o (c \o tail) /\ c \o tail \in Seq(Byte)
    <3>1. c \o tail \in Seq(Byte)
      BY <2>4, BytesAndBytes
    <3>2. (a \o c) \o tail = a \o (c \o tail)
      BY <2>4, ConcatAssociative, SMTT(30)
    <3>3. QED
      BY <3>1, <3>2
  <2>10. Bytes(p[L[k + 1][1]], L[k + 1][2]) \o (c \o tail) = z[k] \o tail
    BY <2>4, <2>5, <2>6
  <2>7. ReadBack(r, h[k], p, Bytes(p[L[k + 1][1]], L[k + 1][2]) \o (c \o tail), L, k, D)
    BY <2>3, <2>10
  <2>8. ReadBack(r, ReadField(h[k], L[k + 1]), p, c \o tail, L, k + 1, D)
    BY <2>6, <2>7, OneMoreBack
  <2>9. QED
    BY <2>1, <2>2, <2>8 DEF c
<1>9. ReadBack(r, h[n], p, z[n] \o tail, L, n, D)
  <2> HIDE DEF T
  <2>1. \A k \in 0..n : k \in T
    BY <1>2, <1>7, <1>8, Climb
  <2>2. n \in T
    BY <1>2, <2>1
  <2>3. QED
    BY <2>2 DEF T
<1>10. z[n] \o tail = tail
  BY <1>4
<1>11. QED
  BY <1>6, <1>9, <1>10

-----------------------------------------------------------------------------
(***************************************************************************)
(* A name finds its field in a layout.                                     *)
(***************************************************************************)
LEMMA FieldOfName ==
  ASSUME NEW D, NEW L, NEW n, LayoutOf(L, n, D), NEW i \in 1..n
  PROVE  Field(L, L[i][1]) = L[i]
<1>1. DOMAIN L = 1..n
  BY Zenon DEF LayoutOf
<1>2. ToSet(L) = {L[j] : j \in 1..n}
  BY <1>1, Zenon DEF ToSet
<1>3. L[i] \in ToSet(L)
  BY <1>2
<1>4. ASSUME NEW field \in ToSet(L), field[1] = L[i][1] PROVE field = L[i]
  <2>1. PICK j \in 1..n : field = L[j]
    BY <1>2, Zenon
  <2>2. j = i
    BY <1>4, <2>1, Zenon DEF LayoutOf
  <2>3. QED
    BY <2>1, <2>2, Zenon
<1>5. QED
  BY <1>3, <1>4, Zenon DEF Field

(***************************************************************************)
(* The names of a layout.                                                  *)
(***************************************************************************)
LEMMA NamesOf ==
  ASSUME NEW D, NEW L, NEW n, LayoutOf(L, n, D)
  PROVE  Names(L) = {L[i][1] : i \in 1..n}
<1>1. DOMAIN L = 1..n
  BY Zenon DEF LayoutOf
<1>2. QED
  BY <1>1, Zenon DEF Names

(***************************************************************************)
(* The value of a field that was not set fits it.                          *)
(***************************************************************************)
LEMMA EmptyFits ==
  ASSUME NEW w \in Nat \ {0}
  PROVE  Fits(IF w <= 2 THEN 0 ELSE Zeros(w), w)
<1>1. 0 \in Byte /\ 0 \in Short
  BY DEF Byte, Short
<1>2. CASE w <= 2
  <2>1. w = 1 \/ w = 2
    BY <1>2
  <2>2. QED
    BY <1>1, <1>2, <2>1, FitsBy
<1>3. CASE ~(w <= 2)
  <2>1. w # 1 /\ w # 2
    BY <1>3
  <2>2. Zeros(w) \in [1..w -> Byte]
    BY <1>1 DEF Zeros
  <2>3. QED
    BY <1>3, <2>1, <2>2, FitsBy
<1>4. QED
  BY <1>2, <1>3

(***************************************************************************)
(* A packet that was cleared has every field of the layout, with a value   *)
(* that fits.                                                              *)
(***************************************************************************)
LEMMA ClearedFits ==
  ASSUME NEW D, NEW L, NEW n, LayoutOf(L, n, D)
  PROVE  Function(Cleared(L), Names(L)) /\ Filled(Cleared(L), L, n)
<1> DEFINE p == Cleared(L)
           Value(name) == LET width == Field(L, name)[2] IN IF width <= 2 THEN 0 ELSE Zeros(width)
<1>1. p = [name \in Names(L) |-> Value(name)]
  BY Zenon DEF Cleared
<1> HIDE DEF p
<1>2. Function(p, Names(L))
  BY <1>1, Zenon DEF Function
<1>3. ASSUME NEW i \in 1..n PROVE Fits(p[L[i][1]], L[i][2])
  <2>1. L[i][1] \in Names(L)
    BY NamesOf
  <2>2. p[L[i][1]] = Value(L[i][1])
    BY <1>1, <2>1, Zenon
  <2>3. Field(L, L[i][1]) = L[i]
    BY FieldOfName
  <2>4. p[L[i][1]] = IF L[i][2] <= 2 THEN 0 ELSE Zeros(L[i][2])
    BY <2>2, <2>3, Zenon
  <2>5. L[i][2] \in Nat \ {0}
    BY Zenon DEF LayoutOf
  <2>6. QED
    BY <2>4, <2>5, EmptyFits
<1>4. QED
  BY <1>2, <1>3 DEF Filled, p

(***************************************************************************)
(* h is f, and g where f says nothing.                                     *)
(***************************************************************************)
IsJoin(h, f, g, A, B) ==
  /\ Function(h, A \cup B)
  /\ (\A x \in A : h[x] = f[x]) /\ (\A x \in B \ A : h[x] = g[x])

(***************************************************************************)
(* Joined gives such a function.                                           *)
(***************************************************************************)
LEMMA JoinedFacts ==
  ASSUME NEW A, NEW B, NEW f, NEW g, Function(f, A), Function(g, B)
  PROVE  IsJoin(Joined(f, g), f, g, A, B)
<1>1. DOMAIN f = A /\ DOMAIN g = B
  BY FunctionDomain
<1> DEFINE h == Joined(f, g)
<1>2. h = [x \in A \cup B |-> IF x \in A THEN f[x] ELSE g[x]]
  BY <1>1, Zenon DEF Joined
<1> HIDE DEF h
<1>3. IsJoin(h, f, g, A, B)
  BY <1>2, Zenon DEF Function, IsJoin
<1>4. QED
  BY <1>3 DEF h

(***************************************************************************)
(* h[k] is the width of the first k fields.                                *)
(***************************************************************************)
WidthSteps(h, L, n) ==
  /\ h[0] = 0 /\ (\A k \in 1..n : h[k] = h[k - 1] + L[k][2]) /\ Width(L) = h[n]

(***************************************************************************)
(* The width of a layout adds up field by field.                           *)
(***************************************************************************)
LEMMA WidthBySteps ==
  ASSUME NEW n \in Nat, NEW L, DOMAIN L = 1..n
  PROVE  \E h : WidthSteps(h, L, n)
<1> DEFINE widths == [i \in DOMAIN L |-> L[i][2]]
<1>1. DOMAIN widths = 1..n /\ \A i \in 1..n : widths[i] = L[i][2]
  BY Zenon
<1>2. Width(L) = SumOf(widths)
  BY Zenon DEF Width
<1> HIDE DEF widths
<1>3. PICK h : Sums(h, widths, n)
  BY <1>1, SumOfSteps
<1>4. WidthSteps(h, L, n)
  BY <1>1, <1>2, <1>3 DEF Sums, WidthSteps
<1>5. QED
  BY <1>4

(***************************************************************************)
(* Where n pieces of 32 bytes are put behind each other, the i-th is at    *)
(* the i-th place.                                                         *)
(***************************************************************************)
LEMMA PieceOfPile ==
  ASSUME NEW n \in Nat, NEW seqs \in [1..n -> Seq(Byte)], \A i \in 1..n : Len(seqs[i]) = 32
  PROVE  /\ FlattenSeq(seqs) \in Seq(Byte) /\ Len(FlattenSeq(seqs)) = 32 * n
         /\ \A i \in 1..n : SubSeq(FlattenSeq(seqs), 32 * (i - 1) + 1, 32 * i) = seqs[i]
<1>1. PICK h : Piles(h, seqs, n, Byte)
  BY FlattenSteps
<1>2. /\ h[0] = <<>> /\ FlattenSeq(seqs) = h[n]
      /\ \A k \in 1..n : h[k] = h[k - 1] \o seqs[k]
  BY <1>1 DEF Piles
<1>3. \A k \in 0..n : h[k] \in Seq(Byte)
  BY <1>1 DEF Piles
<1> DEFINE T == {k \in 0..n : /\ Len(h[k]) = 32 * k
                              /\ \A i \in 1..k : SubSeq(h[k], 32 * (i - 1) + 1, 32 * i) = seqs[i]}
<1>4. 0 \in T
  BY <1>2
<1>5. ASSUME NEW k \in 0..(n - 1), k \in T PROVE k + 1 \in T
  <2> DEFINE a == h[k]
             b == seqs[k + 1]
  <2>1. k \in Nat /\ k + 1 \in 1..n /\ (k + 1) - 1 = k /\ k + 1 \in 0..n /\ k \in 0..n
    OBVIOUS
  <2>2. h[k + 1] = a \o b
    BY <1>2, <2>1
  <2>3. a \in Seq(Byte) /\ b \in Seq(Byte) /\ Len(a) = 32 * k /\ Len(b) = 32
    BY <1>3, <1>5, <2>1
  <2>4. \A i \in 1..k : SubSeq(a, 32 * (i - 1) + 1, 32 * i) = seqs[i]
    BY <1>5
  <2>6. b = seqs[k + 1]
    OBVIOUS
  <2> HIDE DEF a, b
  <2>5. Len(a \o b) = 32 * (k + 1)
    <3>1. Len(a \o b) = Len(a) + Len(b)
      BY <2>3, BytesAndBytes
    <3>2. QED
      BY <2>1, <2>3, <3>1
  <2>7. ASSUME NEW i \in 1..(k + 1)
        PROVE  SubSeq(a \o b, 32 * (i - 1) + 1, 32 * i) = seqs[i]
    <3>1. CASE i = k + 1
      <4>1. SubSeq(a \o b, Len(a) + 1, Len(a \o b)) = b
        <5>1. a \in Seq(Byte) /\ b \in Seq(Byte)
          BY <2>3
        <5>2. QED
          BY <5>1, HeadAndTail, SMTT(30)
      <4>2. 32 * (i - 1) + 1 = Len(a) + 1 /\ 32 * i = Len(a \o b)
        BY <2>1, <2>3, <2>5, <3>1
      <4>3. QED
        BY <2>6, <3>1, <4>1, <4>2
    <3>2. CASE i # k + 1
      <4> DEFINE x == 32 * (i - 1) + 1
                 y == 32 * i
      <4>1. i \in 1..k /\ x \in 1..Len(a) /\ y \in 1..Len(a)
        BY <2>1, <2>3, <3>2
      <4>2. SubSeq(a, x, y) = seqs[i]
        BY <2>4, <4>1
      <4> HIDE DEF x, y
      <4>3. SubSeq(a \o b, x, y) = SubSeq(a, x, y)
        BY <2>3, <4>1, SubSeqOfConcat1
      <4>4. SubSeq(a \o b, x, y) = seqs[i]
        BY <4>2, <4>3
      <4>5. QED
        BY <4>4 DEF x, y
    <3>3. QED
      BY <3>1, <3>2
  <2>8. QED
    BY <2>1, <2>2, <2>5, <2>7
<1>6. Len(h[n]) = 32 * n /\ \A i \in 1..n : SubSeq(h[n], 32 * (i - 1) + 1, 32 * i) = seqs[i]
  <2> HIDE DEF T
  <2>1. \A k \in 0..n : k \in T
    BY <1>4, <1>5, Climb
  <2>2. n \in T
    BY <2>1
  <2>3. QED
    BY <2>2 DEF T
<1>8. h[n] \in Seq(Byte)
  BY <1>3
<1>7. QED
  BY <1>2, <1>8, <1>6

-----------------------------------------------------------------------------
(***************************************************************************)
(* The fields of a connect point, with values that fit them; a link has    *)
(* two points.                                                             *)
(***************************************************************************)
PointNames == {"dpit", "port", "pad"}

Point(q) ==
  /\ Function(q, PointNames)
  /\ q.dpit \in [1..8 -> Byte] /\ q.port \in [1..4 -> Byte] /\ q.pad \in [1..4 -> Byte]

Link(l) == l = [src |-> l.src, dst |-> l.dst] /\ Point(l.src) /\ Point(l.dst)

(***************************************************************************)
(* The fields of a discovery packet, and those in its head.                *)
(***************************************************************************)
DiscoveryNames == {"length", "linklength", "xid", "from", "to", "class", "m_links"}

HeadNames == {"length", "linklength", "xid", "from", "to"}

(***************************************************************************)
(* A connect point has 16 bytes, and a link 32 (ConnectPoint and           *)
(* DeviceLink of discovery.h).                                             *)
(***************************************************************************)
LEMMA PointLayout ==
  /\ LayoutOf(ConnectPoint, 3, PointNames) /\ Names(ConnectPoint) = PointNames /\
       Width(ConnectPoint) = 16
  /\ LinkSize = 32
  /\ \A q : Point(q) <=> Function(q, PointNames) /\ Filled(q, ConnectPoint, 3)
<1>1. DOMAIN ConnectPoint = 1..3 /\ 1..3 = {1, 2, 3}
  BY DEF ConnectPoint
<1>2. /\ ConnectPoint[1][1] = "dpit" /\ ConnectPoint[1][2] = 8
      /\ ConnectPoint[2][1] = "port" /\ ConnectPoint[2][2] = 4
      /\ ConnectPoint[3][1] = "pad" /\ ConnectPoint[3][2] = 4
  BY DEF ConnectPoint
<1>3. LayoutOf(ConnectPoint, 3, PointNames)
  BY <1>1, <1>2 DEF LayoutOf, PointNames
<1>4. Names(ConnectPoint) = PointNames
  BY <1>1, <1>2 DEF Names, PointNames
<1>5. Width(ConnectPoint) = 16
  <2>1. PICK h : WidthSteps(h, ConnectPoint, 3)
    BY <1>1, WidthBySteps
  <2>2. h[1] = h[1 - 1] + 8 /\ h[2] = h[2 - 1] + 4 /\ h[3] = h[3 - 1] + 4 /\ h[0] = 0
    BY <1>2, <2>1 DEF WidthSteps
  <2>3. QED
    BY <2>1, <2>2 DEF WidthSteps
<1>6. LinkSize = 32
  BY <1>5 DEF LinkSize
<1>7. \A q : Filled(q, ConnectPoint, 3) <=>
               /\ q.dpit \in [1..8 -> Byte] /\ q.port \in [1..4 -> Byte] /\ q.pad \in [1..4 -> Byte]
  <2>1. ASSUME NEW q
        PROVE  Filled(q, ConnectPoint, 3) <=> Fits(q.dpit, 8) /\ Fits(q.port, 4) /\ Fits(q.pad, 4)
    BY <1>1, <1>2 DEF Filled
  <2>2. \A v : (Fits(v, 8) <=> v \in [1..8 -> Byte]) /\ (Fits(v, 4) <=> v \in [1..4 -> Byte])
    BY FitsWide, Zenon
  <2>3. TAKE q
  <2>4. QED
    BY <2>1, <2>2
<1>8. QED
  BY <1>3, <1>4, <1>5, <1>6, <1>7 DEF Point

(***************************************************************************)
(* The head has 24 bytes.                                                  *)
(***************************************************************************)
LEMMA DiscoveryLayout ==
  /\ LayoutOf(DiscoveryHead, 5, DiscoveryNames) /\ Names(DiscoveryHead) = HeadNames
  /\ Width(DiscoveryHead) = 24
  /\ \A q : Filled(q, DiscoveryHead, 5) <=>
              /\ q.length \in Short /\ q.linklength \in Short /\ q.xid \in [1..4 -> Byte]
              /\ q.from \in [1..8 -> Byte] /\ q.to \in [1..8 -> Byte]
<1>1. DOMAIN DiscoveryHead = 1..5 /\ 1..5 = {1, 2, 3, 4, 5}
  BY DEF DiscoveryHead
<1>2. /\ DiscoveryHead[1][1] = "length" /\ DiscoveryHead[1][2] = 2
      /\ DiscoveryHead[2][1] = "linklength" /\ DiscoveryHead[2][2] = 2
      /\ DiscoveryHead[3][1] = "xid" /\ DiscoveryHead[3][2] = 4
      /\ DiscoveryHead[4][1] = "from" /\ DiscoveryHead[4][2] = 8
      /\ DiscoveryHead[5][1] = "to" /\ DiscoveryHead[5][2] = 8
  BY DEF DiscoveryHead
<1>3. LayoutOf(DiscoveryHead, 5, DiscoveryNames)
  BY <1>1, <1>2 DEF LayoutOf, DiscoveryNames
<1>4. Names(DiscoveryHead) = HeadNames
  BY <1>1, <1>2 DEF Names, HeadNames
<1>5. Width(DiscoveryHead) = 24
  <2>1. PICK h : WidthSteps(h, DiscoveryHead, 5)
    BY <1>1, WidthBySteps
  <2>2. /\ h[1] = h[1 - 1] + 2 /\ h[2] = h[2 - 1] + 2 /\ h[3] = h[3 - 1] + 4
        /\ h[4] = h[4 - 1] + 8 /\ h[5] = h[5 - 1] + 8 /\ h[0] = 0
    BY <1>2, <2>1 DEF WidthSteps
  <2>3. QED
    BY <2>1, <2>2 DEF WidthSteps
<1>6. \A q : Filled(q, DiscoveryHead, 5) <=>
              /\ q.length \in Short /\ q.linklength \in Short /\ q.xid \in [1..4 -> Byte]
              /\ q.from \in [1..8 -> Byte] /\ q.to \in [1..8 -> Byte]
  <2>1. ASSUME NEW q
        PROVE  Filled(q, DiscoveryHead, 5) <=>
                 Fits(q.length, 2) /\ Fits(q.linklength, 2) /\ Fits(q.xid, 4) /\
                   Fits(q.from, 8) /\ Fits(q.to, 8)
    BY <1>1, <1>2 DEF Filled
  <2>2. \A v : (Fits(v, 8) <=> v \in [1..8 -> Byte]) /\ (Fits(v, 4) <=> v \in [1..4 -> Byte])
    BY FitsWide, Zenon
  <2>3. \A v : Fits(v, 2) <=> v \in Short
    BY FitsBy, Zenon
  <2>4. TAKE q
  <2>5. QED
    BY <2>1, <2>2, <2>3
<1>7. QED
  BY <1>3, <1>4, <1>5, <1>6

(***************************************************************************)
(* A new point has values that fit.                                        *)
(***************************************************************************)
LEMMA NewPointFits == Point(NewPoint)
<1>1. Function(Cleared(ConnectPoint), PointNames) /\ Filled(Cleared(ConnectPoint), ConnectPoint, 3)
  BY PointLayout, ClearedFits
<1>2. QED
  BY <1>1, PointLayout DEF NewPoint

(***************************************************************************)
(* The bytes of a point, and of a link.                                    *)
(***************************************************************************)
PointBytes(q) == WriteFields(q, ConnectPoint)

LinkBytes(l) == PointBytes(l.src) \o PointBytes(l.dst)

(***************************************************************************)
(* A connect point is read back from its bytes.                            *)
(***************************************************************************)
LEMMA PointReadBack ==
  ASSUME NEW q, Point(q), NEW tail \in Seq(Byte)
  PROVE  /\ PointBytes(q) \in Seq(Byte) /\ Len(PointBytes(q)) = 16
         /\ ReadFields(Reading(NewPoint, PointBytes(q) \o tail), ConnectPoint).p = q
         /\ ReadFields(Reading(NewPoint, PointBytes(q) \o tail), ConnectPoint).rest = tail
<1> DEFINE b == PointBytes(q) \o tail
           r == Reading(NewPoint, b)
           s == ReadFields(r, ConnectPoint)
<1>1. LayoutOf(ConnectPoint, 3, PointNames) /\ Filled(q, ConnectPoint, 3) /\ Function(q, PointNames)
  BY PointLayout
<1>2. PointBytes(q) \in Seq(Byte) /\ Len(PointBytes(q)) = 16
  BY <1>1, PointLayout, WriteFieldsFit, FilledWritable DEF PointBytes
<1>3. b \in Seq(Byte)
  BY <1>2, BytesAndBytes
<1>4. b = WriteFields(q, ConnectPoint) \o tail
  BY DEF PointBytes
<1>5. Function(NewPoint, PointNames)
  BY NewPointFits DEF Point
<1> HIDE DEF b
<1>6. Stream(r, PointNames) /\ r.rest = b /\ r.good
  BY <1>3, <1>5, MakeStream DEF Reading
<1> HIDE DEF r
<1>7. ReadBack(r, s, q, tail, ConnectPoint, 3, PointNames)
  BY <1>1, <1>4, <1>6, RoundTrip
<1> HIDE DEF s
<1>8. s.rest = tail /\ Function(s.p, PointNames) /\
      \A i \in 1..3 : s.p[ConnectPoint[i][1]] = q[ConnectPoint[i][1]]
  BY <1>7 DEF ReadBack, Stream
<1>9. \A x \in PointNames : s.p[x] = q[x]
  BY <1>8 DEF ConnectPoint, PointNames
<1>10. s.p = q
  BY <1>1, <1>8, <1>9, SameFunction
<1>11. QED
  BY <1>2, <1>8, <1>10 DEF s, r, b

(***************************************************************************)
(* A link is read back from its 32 bytes.                                  *)
(***************************************************************************)
LEMMA LinkReadBack ==
  ASSUME NEW l, Link(l)
  PROVE  LinkBytes(l) \in Seq(Byte) /\ Len(LinkBytes(l)) = 32 /\ LinkOf(LinkBytes(l)) = l
<1> DEFINE a == PointBytes(l.src)
           c == PointBytes(l.dst)
           s == ReadFields(Reading(NewPoint, a \o c), ConnectPoint)
<1>1. Point(l.src) /\ Point(l.dst) /\ l = [src |-> l.src, dst |-> l.dst] /\ <<>> \in Seq(Byte)
  BY DEF Link
<1>2. c \in Seq(Byte) /\ Len(c) = 16 /\
      ReadFields(Reading(NewPoint, c \o <<>>), ConnectPoint).p = l.dst
  <2> DEFINE q == l.dst
  <2>1. Point(q)
    BY <1>1
  <2> HIDE DEF q
  <2>2. /\ PointBytes(q) \in Seq(Byte) /\ Len(PointBytes(q)) = 16
        /\ ReadFields(Reading(NewPoint, PointBytes(q) \o <<>>), ConnectPoint).p = q
    BY <1>1, <2>1, PointReadBack
  <2>3. QED
    BY <2>2 DEF q
<1>3. a \in Seq(Byte) /\ Len(a) = 16
  BY <1>1, PointReadBack
<1>11. c \in Seq(Byte)
  BY <1>2
<1>4. s.p = l.src /\ s.rest = c
  <2> DEFINE q == l.src
  <2>1. Point(q)
    BY <1>1
  <2> HIDE DEF c, q
  <2>2. /\ ReadFields(Reading(NewPoint, PointBytes(q) \o c), ConnectPoint).p = q
        /\ ReadFields(Reading(NewPoint, PointBytes(q) \o c), ConnectPoint).rest = c
    BY <1>11, <2>1, PointReadBack
  <2>3. QED
    BY <2>2 DEF q
<1>5. LinkBytes(l) = a \o c
  BY DEF LinkBytes
<1>6. LinkOf(a \o c) = [src |-> s.p, dst |-> ReadFields(Reading(NewPoint, s.rest), ConnectPoint).p]
  BY Zenon DEF LinkOf
<1> HIDE DEF a, c, s
<1>7. c \o <<>> = c
  BY <1>2
<1>8. LinkOf(a \o c) = l
  <2>1. ReadFields(Reading(NewPoint, c), ConnectPoint).p = l.dst
    BY <1>2, <1>7
  <2>2. LinkOf(a \o c) = [src |-> l.src, dst |-> ReadFields(Reading(NewPoint, c), ConnectPoint).p]
    BY <1>4, <1>6, Zenon
  <2>3. QED
    BY <1>1, <2>1, <2>2, Zenon
<1>9. a \o c \in Seq(Byte) /\ Len(a \o c) = 32
  <2>1. a \o c \in Seq(Byte) /\ Len(a \o c) = Len(a) + Len(c)
    BY <1>3, <1>11, BytesAndBytes
  <2>2. QED
    BY <1>2, <1>3, <2>1
<1>10. QED
  BY <1>5, <1>8, <1>9

-----------------------------------------------------------------------------
(***************************************************************************)
(* The points and the links as sets.                                       *)
(***************************************************************************)
Points == [dpit : [1..8 -> Byte], port : [1..4 -> Byte], pad : [1..4 -> Byte]]

AllLinks == [src : Points, dst : Points]

(***************************************************************************)
(* They are the points and links of before.                                *)
(***************************************************************************)
LEMMA LinksAre ==
  /\ \A q : Point(q) <=> q \in Points
  /\ \A l : Link(l) <=> l \in AllLinks
<1> DEFINE A == [1..8 -> Byte]
           B == [1..4 -> Byte]
<1>1. ASSUME NEW q PROVE Point(q) <=> q \in Points
  <2>1. Point(q) <=> /\ q = [x \in {"dpit", "port", "pad"} |-> q[x]]
                     /\ q.dpit \in A /\ q.port \in B /\ q.pad \in B
    BY Zenon DEF Point, Function, PointNames
  <2>2. Points = [dpit : A, port : B, pad : B]
    BY DEF Points
  <2> HIDE DEF A, B
  <2>3. QED
    BY <2>1, <2>2
<1>2. ASSUME NEW l PROVE Link(l) <=> l \in AllLinks
  <2>1. Link(l) <=> l = [src |-> l.src, dst |-> l.dst] /\ l.src \in Points /\ l.dst \in Points
    BY <1>1, Zenon DEF Link
  <2>2. QED
    BY <2>1 DEF AllLinks
<1>3. QED
  BY <1>1, <1>2, Zenon

(***************************************************************************)
(* The bytes of each of the links.                                         *)
(***************************************************************************)
PilesOf(links) == [i \in DOMAIN links |-> WriteFields(links[i].src,
  ConnectPoint) \o WriteFields(links[i].dst, ConnectPoint)]

(***************************************************************************)
(* The bytes of a list of links, cut every 32, give the links again, in    *)
(* their order.                                                            *)
(***************************************************************************)
LEMMA ListReadBack ==
  ASSUME NEW links \in Seq(AllLinks)
  PROVE  /\ FlattenSeq(PilesOf(links)) \in Seq(Byte) /\
              Len(FlattenSeq(PilesOf(links))) = 32 * Len(links)
         /\ \A i \in 1..Len(links) :
              LinkOf(SubSeq(FlattenSeq(PilesOf(links)), 32 * (i - 1) + 1, 32 * i)) = links[i]
<1> DEFINE n == Len(links)
           seqs == PilesOf(links)
<1>1. n \in Nat /\ DOMAIN links = 1..n /\ \A i \in 1..n : links[i] \in AllLinks
  OBVIOUS
<1>2. seqs = [i \in 1..n |-> LinkBytes(links[i])]
  BY <1>1 DEF PilesOf, LinkBytes, PointBytes
<1>3. ASSUME NEW i \in 1..n
      PROVE  /\ LinkBytes(links[i]) \in Seq(Byte) /\ Len(LinkBytes(links[i])) = 32
             /\ LinkOf(LinkBytes(links[i])) = links[i]
  BY <1>1, LinksAre, LinkReadBack
<1> HIDE DEF seqs, n
<1>4. seqs \in [1..n -> Seq(Byte)] /\ \A i \in 1..n : seqs[i] = LinkBytes(links[i])
  BY <1>2, <1>3
<1>5. \A i \in 1..n : Len(seqs[i]) = 32
  BY <1>3, <1>4
<1>6. /\ FlattenSeq(seqs) \in Seq(Byte) /\ Len(FlattenSeq(seqs)) = 32 * n
      /\ \A i \in 1..n : SubSeq(FlattenSeq(seqs), 32 * (i - 1) + 1, 32 * i) = seqs[i]
  BY <1>1, <1>4, <1>5, PieceOfPile, ZenonT(30)
<1>7. \A i \in 1..n : LinkOf(SubSeq(FlattenSeq(seqs), 32 * (i - 1) + 1, 32 * i)) = links[i]
  BY <1>3, <1>4, <1>6, ZenonT(30)
<1>8. QED
  BY <1>6, <1>7 DEF seqs, n

(***************************************************************************)
(* A discovery packet whose fields fit.                                    *)
(***************************************************************************)
DPacket(p) ==
  /\ Function(p, DiscoveryNames) /\ p.class = "Discovery"
  /\ Filled(p, DiscoveryHead, 5) /\ p.m_links \in Seq(AllLinks)

(***************************************************************************)
(* A new discovery packet is one, and has no links.                        *)
(***************************************************************************)
LEMMA NewDiscoveryFits == DPacket(NewDiscovery) /\ NewDiscovery.m_links = <<>>
<1> DEFINE f == Cleared(DiscoveryHead)
           g == [class |-> "Discovery", m_links |-> <<>>]
           p == NewDiscovery
<1>1. Function(f, HeadNames) /\ Filled(f, DiscoveryHead, 5)
  BY DiscoveryLayout, ClearedFits
<1>2. Function(g, {"class", "m_links"}) /\ g.class = "Discovery" /\ g.m_links = <<>>
  BY DEF Function
<1>3. p = Joined(f, g)
  BY DEF NewDiscovery
<1> HIDE DEF f, g, p
<1>4. /\ Function(p, HeadNames \cup {"class", "m_links"})
      /\ \A x \in HeadNames : p[x] = f[x]
      /\ \A x \in {"class", "m_links"} \ HeadNames : p[x] = g[x]
  <2>1. IsJoin(p, f, g, HeadNames, {"class", "m_links"})
    BY <1>1, <1>2, <1>3, JoinedFacts
  <2>2. QED
    BY <2>1 DEF IsJoin
<1>5. HeadNames \cup {"class", "m_links"} = DiscoveryNames
  BY DEF HeadNames, DiscoveryNames
<1>6. p.class = "Discovery" /\ p.m_links = <<>>
  BY <1>2, <1>4 DEF HeadNames
<1>7. Filled(p, DiscoveryHead, 5)
  BY <1>1, <1>4, DiscoveryLayout DEF HeadNames
<1>9. p.m_links \in Seq(AllLinks)
  BY <1>6
<1>8. QED
  BY <1>4, <1>5, <1>6, <1>7, <1>9, Zenon DEF DPacket, p

(***************************************************************************)
(* A discovery packet is written in 24 bytes and 32 for each link, which   *)
(* is the space that was made for it.                                      *)
(***************************************************************************)
LEMMA DiscoveryWritten ==
  ASSUME NEW p, DPacket(p)
  PROVE  /\ DiscoveryStreamTo(p) \in Seq(Byte) /\ Len(DiscoveryStreamTo(p)) = DiscoveryLen(p)
         /\ DiscoveryLen(p) = 24 + 32 * Len(p.m_links) /\ Len(p.m_links) \in Nat
         /\ DiscoveryStreamTo(p) = WriteFields(p, DiscoveryHead) \o FlattenSeq(PilesOf(p.m_links))
<1> DEFINE a == WriteFields(p, DiscoveryHead)
           b == FlattenSeq(PilesOf(p.m_links))
<1>1. a \in Seq(Byte) /\ Len(a) = 24
  BY DiscoveryLayout, WriteFieldsFit, FilledWritable DEF DPacket
<1>2. b \in Seq(Byte) /\ Len(b) = 32 * Len(p.m_links) /\ Len(p.m_links) \in Nat
  BY ListReadBack DEF DPacket
<1>3. DiscoveryStreamTo(p) = a \o b
  BY Zenon DEF DiscoveryStreamTo, PilesOf
<1>4. DiscoveryLen(p) = 24 + 32 * Len(p.m_links)
  BY DiscoveryLayout, PointLayout DEF DiscoveryLen
<1> HIDE DEF a, b
<1>5. a \o b \in Seq(Byte) /\ Len(a \o b) = Len(a) + Len(b)
  BY <1>1, <1>2, BytesAndBytes
<1>6. DiscoveryStreamTo(p) = WriteFields(p, DiscoveryHead) \o FlattenSeq(PilesOf(p.m_links))
  BY <1>3 DEF a, b
<1>7. QED
  BY <1>1, <1>2, <1>3, <1>4, <1>5, <1>6

(***************************************************************************)
(* A discovery packet whose length says how many links it has is read back *)
(* from its bytes as it was (StreamFrom after StreamTo).                   *)
(***************************************************************************)
THEOREM DiscoveryReadBack ==
  ASSUME NEW p, DPacket(p), p.linklength = 32 * Len(p.m_links)
  PROVE  /\ DiscoveryStreamFrom(Reading(NewDiscovery, DiscoveryStreamTo(p))).good
         /\ DiscoveryStreamFrom(Reading(NewDiscovery, DiscoveryStreamTo(p))).p = p
<1> DEFINE b == FlattenSeq(PilesOf(p.m_links))
           frame == DiscoveryStreamTo(p)
           r0 == Reading(NewDiscovery, frame)
           r == ReadFields(r0, DiscoveryHead)
           n == Len(p.m_links)
           read == [i \in 1..n |-> LinkOf(SubSeq(b, 32 * (i - 1) + 1, 32 * i))]
           s == DiscoveryStreamFrom(r0)
<1>1. b \in Seq(Byte) /\ Len(b) = 32 * n /\
      \A i \in 1..n : LinkOf(SubSeq(b, 32 * (i - 1) + 1, 32 * i)) = p.m_links[i]
  BY ListReadBack DEF DPacket
<1>2. frame \in Seq(Byte) /\ frame = WriteFields(p, DiscoveryHead) \o b /\ n \in Nat
  BY DiscoveryWritten
<1>3. Function(NewDiscovery, DiscoveryNames) /\ NewDiscovery.m_links = <<>> /\
      NewDiscovery.class = "Discovery"
  BY NewDiscoveryFits DEF DPacket
<1> HIDE DEF b, frame
<1>4. Stream(r0, DiscoveryNames) /\ r0.good /\ r0.rest = frame /\ r0.p = NewDiscovery
  BY <1>2, <1>3, MakeStream DEF Reading
<1>5. Filled(p, DiscoveryHead, 5) /\ LayoutOf(DiscoveryHead, 5, DiscoveryNames)
  BY DiscoveryLayout DEF DPacket
<1> HIDE DEF r0
<1>6. ReadBack(r0, r, p, b, DiscoveryHead, 5, DiscoveryNames)
  BY <1>1, <1>2, <1>4, <1>5, RoundTrip
<1> HIDE DEF r
<1>7. /\ Stream(r, DiscoveryNames) /\ r.good /\ r.rest = b
      /\ \A i \in 1..5 : r.p[DiscoveryHead[i][1]] = p[DiscoveryHead[i][1]]
      /\ \A x \in DiscoveryNames : (\A i \in 1..5 : x # DiscoveryHead[i][1]) => r.p[x] = r0.p[x]
  BY <1>6 DEF ReadBack
<1>8. /\ r.p.length = p.length /\ r.p.linklength = p.linklength /\ r.p.xid = p.xid
      /\ r.p.from = p.from /\ r.p.to = p.to
  BY <1>7 DEF DiscoveryHead
<1>9. r.p.m_links = <<>> /\ r.p.class = "Discovery"
  <2>1. \A i \in 1..5 : DiscoveryHead[i][1] \in HeadNames
    BY DiscoveryLayout, NamesOf
  <2>2. "m_links" \notin HeadNames /\ "class" \notin HeadNames /\ "m_links" \in DiscoveryNames /\
        "class" \in DiscoveryNames
    BY DEF HeadNames, DiscoveryNames
  <2>3. QED
    BY <1>3, <1>4, <1>7, <2>1, <2>2, Zenon
<1>10. read = p.m_links /\ <<>> \o read = read
  <2> DEFINE links == p.m_links
  <2>1. links \in Seq(AllLinks) /\ n = Len(links) /\
        \A i \in 1..n : LinkOf(SubSeq(b, 32 * (i - 1) + 1, 32 * i)) = links[i]
    BY <1>1 DEF DPacket
  <2> HIDE DEF links
  <2>2. read = links
    BY <2>1
  <2>3. <<>> \o links = links
    BY <2>1
  <2>4. QED
    BY <2>2, <2>3 DEF links
<1>11. (32 * n) \div LinkSize = n /\ (32 * n) % LinkSize = 0 /\ LinkSize = 32
  <2>1. \A m \in Nat : (32 * m) \div 32 = m /\ (32 * m) % 32 = 0
    BY SMT
  <2>2. LinkSize = 32
    BY PointLayout
  <2> HIDE DEF n
  <2>3. QED
    BY <1>2, <2>1, <2>2
<1>12. s = Taken(r, "m_links", r.p.m_links \o [i \in 1..n |-> LinkOf(SubSeq(r.rest,
      LinkSize * (i - 1) + 1, LinkSize * i))], r.p.linklength)
  <2>1. ~(~r.good \/ r.p.linklength % LinkSize # 0 \/ Len(r.rest) < r.p.linklength)
    <3>1. r.p.linklength = 32 * n /\ Len(r.rest) = 32 * n /\ n \in Nat /\ r.good
      BY <1>1, <1>2, <1>7, <1>8
    <3> HIDE DEF n
    <3>2. QED
      BY <1>11, <3>1
  <2>2. r.p.linklength \div LinkSize = n
    BY <1>8, <1>11
  <2>3. QED
    BY <2>1, <2>2, Zenon DEF DiscoveryStreamFrom, r
<1>13. s = Taken(r, "m_links", p.m_links, 32 * n)
  <2> HIDE DEF s
  <2>1. [i \in 1..n |-> LinkOf(SubSeq(r.rest, LinkSize * (i - 1) + 1, LinkSize * i))] = read
    BY <1>7, <1>11
  <2> HIDE DEF read
  <2>2. QED
    BY <1>8, <1>9, <1>10, <1>12, <2>1, Zenon
<1> HIDE DEF s, n
<1>14. TookFrom(r, s, "m_links", p.m_links, 32 * n, DiscoveryNames)
  <2>1. 32 * n \in Nat /\ 32 * n <= Len(r.rest) /\ "m_links" \in DiscoveryNames
    BY <1>1, <1>2, <1>7 DEF DiscoveryNames
  <2>2. QED
    BY <1>7, <1>13, <2>1, TakenSound
<1>15. Function(s.p, DiscoveryNames) /\ Function(p, DiscoveryNames) /\ s.good
  BY <1>7, <1>14 DEF TookFrom, Stream, DPacket
<1>16. \A x \in DiscoveryNames : s.p[x] = p[x]
  <2>1. \A x \in DiscoveryNames \ {"m_links"} : s.p[x] = r.p[x]
    BY <1>14 DEF TookFrom
  <2>2. s.p.m_links = p.m_links
    BY <1>14 DEF TookFrom
  <2>3. \A x \in DiscoveryNames \ {"m_links"} : r.p[x] = p[x]
    BY <1>8, <1>9 DEF DiscoveryNames, DPacket
  <2>4. QED
    BY <2>1, <2>2, <2>3
<1>17. s.p = p
  BY <1>15, <1>16, SameFunction
<1>18. QED
  BY <1>15, <1>17 DEF s, r0, frame

-----------------------------------------------------------------------------
(***************************************************************************)
(* Each link starts at the datapath where the one before it ends.          *)
(***************************************************************************)
Connected(links) == \A i \in 1..(Len(links) - 1) : links[i].dst.dpit = links[i + 1].src.dpit

(***************************************************************************)
(* The fields of a discovery packet are those of the head, the class and   *)
(* the links.                                                              *)
(***************************************************************************)
LEMMA NamesOfDiscovery ==
  /\ "class" \in DiscoveryNames /\ "m_links" \in DiscoveryNames /\ "class" # "m_links"
  /\ HeadNames \subseteq DiscoveryNames /\ DiscoveryNames = HeadNames \cup {"class", "m_links"}
  /\ "class" \notin HeadNames /\ "m_links" \notin HeadNames
BY DEF DiscoveryNames, HeadNames

(***************************************************************************)
(* The fields of a discovery packet one by one.                            *)
(***************************************************************************)
LEMMA DPacketBy ==
  ASSUME NEW p
  PROVE  DPacket(p) <=>
           /\ Function(p, DiscoveryNames) /\ p.class = "Discovery" /\ p.m_links \in Seq(AllLinks)
           /\ p.length \in Short /\ p.linklength \in Short /\ p.xid \in [1..4 -> Byte]
           /\ p.from \in [1..8 -> Byte] /\ p.to \in [1..8 -> Byte]
<1>1. Filled(p, DiscoveryHead, 5) <=>
        /\ p.length \in Short /\ p.linklength \in Short /\ p.xid \in [1..4 -> Byte]
        /\ p.from \in [1..8 -> Byte] /\ p.to \in [1..8 -> Byte]
  BY DiscoveryLayout
<1>2. QED
  BY <1>1, Zenon DEF DPacket

(***************************************************************************)
(* A discovery packet with other links is one.                             *)
(***************************************************************************)
LEMMA LinksPut ==
  ASSUME NEW p, DPacket(p), NEW links \in Seq(AllLinks)
  PROVE  DPacket(Put(p, "m_links", links)) /\ Put(p, "m_links", links).m_links = links
<1> DEFINE q == Put(p, "m_links", links)
<1>1. Function(p, DiscoveryNames)
  BY DEF DPacket
<1>2. Function(q, DiscoveryNames) /\ q.m_links = links /\
      \A x \in DiscoveryNames \ {"m_links"} : q[x] = p[x]
  <2>1. "m_links" \in DiscoveryNames
    BY NamesOfDiscovery
  <2>2. IsPut(q, p, "m_links", links, DiscoveryNames)
    BY <1>1, <2>1, PutIs
  <2>3. QED
    BY <2>2 DEF IsPut
<1> HIDE DEF q
<1>3. /\ q.class = p.class /\ q.length = p.length /\ q.linklength = p.linklength /\ q.xid = p.xid
      /\ q.from = p.from /\ q.to = p.to
  BY <1>2 DEF DiscoveryNames
<1>4. DPacket(q)
  BY <1>2, <1>3, DPacketBy
<1>5. QED
  BY <1>2, <1>4 DEF q

(***************************************************************************)
(* The links are as many as 16 bits of length can count.                   *)
(***************************************************************************)
FewLinks(p) == Len(p.m_links) <= 2047

(***************************************************************************)
(* StreamTo sets the lengths of a packet, which count its links, and       *)
(* leaves the links as they are.                                           *)
(***************************************************************************)
LEMMA DiscoveryPreparedFits ==
  ASSUME NEW p, DPacket(p), FewLinks(p)
  PROVE  /\ DPacket(DiscoveryPrepared(p)) /\ DiscoveryPrepared(p).m_links = p.m_links
         /\ DiscoveryPrepared(p).linklength = 32 * Len(p.m_links)
         /\ DiscoveryPrepared(p).to = p.to
         /\ DiscoveryLen(DiscoveryPrepared(p)) = DiscoveryLen(p)
<1> DEFINE n == Len(p.m_links)
           u == DiscoveryLen(p)
           v == LinkSize * n
           a == Put(p, "length", u)
           q == Put(a, "linklength", v)
<1>1. n \in Nat /\ DiscoveryLen(p) = 24 + 32 * n /\ LinkSize = 32
  BY DiscoveryWritten, PointLayout
<1>2. DiscoveryPrepared(p) = q
  <2>1. DiscoveryPrepared(p) = [p EXCEPT !.length = u, !.linklength = v]
    BY DEF DiscoveryPrepared
  <2> HIDE DEF u, v
  <2>2. QED
    BY <2>1, Zenon DEF Put
<1>3. u \in Short /\ v \in Short /\ v = 32 * n
  <2>1. n \in Nat /\ n <= 2047 /\ u = 24 + 32 * n /\ v = 32 * n
    BY <1>1 DEF FewLinks
  <2> HIDE DEF n, u, v
  <2>2. QED
    BY <2>1, SMT DEF Short
<1>4. Function(p, DiscoveryNames)
  BY DEF DPacket
<1> HIDE DEF u, v
<1>5. Function(a, DiscoveryNames) /\ a.length = u /\
      \A x \in DiscoveryNames \ {"length"} : a[x] = p[x]
  BY <1>4, Updated DEF DiscoveryNames
<1> HIDE DEF a
<1>6. Function(q, DiscoveryNames) /\ q.linklength = v /\
      \A x \in DiscoveryNames \ {"linklength"} : q[x] = a[x]
  BY <1>5, Updated DEF DiscoveryNames
<1> HIDE DEF q
<1>7. /\ q.class = p.class /\ q.length = u /\ q.linklength = v /\ q.xid = p.xid
      /\ q.from = p.from /\ q.to = p.to /\ q.m_links = p.m_links
  BY <1>5, <1>6 DEF DiscoveryNames
<1>8. DPacket(q)
  BY <1>3, <1>6, <1>7, DPacketBy
<1>9. DiscoveryLen(q) = DiscoveryLen(p)
  BY <1>7 DEF DiscoveryLen
<1>10. QED
  BY <1>2, <1>3, <1>7, <1>8, <1>9 DEF n

(***************************************************************************)
(* Assignment copies a discovery packet whole (operator=).                 *)
(***************************************************************************)
LEMMA AssignedIsSame ==
  ASSUME NEW p, DPacket(p)
  PROVE  AssignDiscovery(p) = p
<1> DEFINE a == Put(NewDiscovery, "length", p.length)
           b == Put(a, "linklength", p.linklength)
           c == Put(b, "xid", p.xid)
           d == Put(c, "from", p.from)
           e == Put(d, "to", p.to)
           q == Put(e, "m_links", p.m_links)
<1>1. AssignDiscovery(p) = q
  BY Zenon DEF AssignDiscovery, Put
<1>2. Function(NewDiscovery, DiscoveryNames) /\ NewDiscovery.class = "Discovery"
  BY NewDiscoveryFits DEF DPacket
<1>3. Function(a, DiscoveryNames) /\ a.length = p.length /\
      \A x \in DiscoveryNames \ {"length"} : a[x] = NewDiscovery[x]
  BY <1>2, Updated DEF DiscoveryNames
<1> HIDE DEF a
<1>4. Function(b, DiscoveryNames) /\ b.linklength = p.linklength /\
      \A x \in DiscoveryNames \ {"linklength"} : b[x] = a[x]
  BY <1>3, Updated DEF DiscoveryNames
<1> HIDE DEF b
<1>5. Function(c, DiscoveryNames) /\ c.xid = p.xid /\
      \A x \in DiscoveryNames \ {"xid"} : c[x] = b[x]
  BY <1>4, Updated DEF DiscoveryNames
<1> HIDE DEF c
<1>6. Function(d, DiscoveryNames) /\ d.from = p.from /\
      \A x \in DiscoveryNames \ {"from"} : d[x] = c[x]
  BY <1>5, Updated DEF DiscoveryNames
<1> HIDE DEF d
<1>7. Function(e, DiscoveryNames) /\ e.to = p.to /\ \A x \in DiscoveryNames \ {"to"} : e[x] = d[x]
  BY <1>6, Updated DEF DiscoveryNames
<1> HIDE DEF e
<1>8. Function(q, DiscoveryNames) /\ q.m_links = p.m_links /\
      \A x \in DiscoveryNames \ {"m_links"} : q[x] = e[x]
  BY <1>7, Updated DEF DiscoveryNames
<1> HIDE DEF q
<1>9. /\ q.class = p.class /\ q.length = p.length /\ q.linklength = p.linklength /\ q.xid = p.xid
      /\ q.from = p.from /\ q.to = p.to /\ q.m_links = p.m_links
  BY <1>2, <1>3, <1>4, <1>5, <1>6, <1>7, <1>8 DEF DiscoveryNames, DPacket
<1>10. \A x \in DiscoveryNames : q[x] = p[x]
  BY <1>9 DEF DiscoveryNames
<1>11. Function(p, DiscoveryNames)
  BY DEF DPacket
<1>12. q = p
  BY <1>8, <1>10, <1>11, SameFunction
<1>13. QED
  BY <1>1, <1>12

(***************************************************************************)
(* A link that AddNewLink adds starts where the last one ends, so that the *)
(* links stay a path.                                                      *)
(***************************************************************************)
LEMMA AddNewLinkKeeps ==
  ASSUME NEW p, DPacket(p), Connected(p.m_links),
         NEW port \in [1..4 -> Byte], NEW dpid \in [1..8 -> Byte], NEW cost \in [1..4 -> Byte]
  PROVE  /\ DPacket(AddNewLink(p, port, dpid, cost)) /\
              Connected(AddNewLink(p, port, dpid, cost).m_links)
         /\ Len(AddNewLink(p, port, dpid, cost).m_links) <= Len(p.m_links) + 1
<1> DEFINE links == p.m_links
           link == OpenLink(port, dpid, cost)
           q == AddNewLink(p, port, dpid, cost)
           more == Append(links, link)
<1>1. links \in Seq(AllLinks) /\ Len(links) \in Nat
  BY DEF DPacket
<1>2. link \in AllLinks /\ link.src.dpit = dpid
  <2>1. NewPoint \in Points
    BY NewPointFits, LinksAre
  <2>2. [dpit |-> dpid, port |-> port, pad |-> cost] \in Points
    <3> DEFINE A == [1..8 -> Byte]
               B == [1..4 -> Byte]
    <3>1. dpid \in A /\ port \in B /\ cost \in B
      OBVIOUS
    <3>2. Points = [dpit : A, port : B, pad : B]
      BY DEF Points
    <3> HIDE DEF A, B
    <3>3. QED
      BY <3>1, <3>2
  <2>3. QED
    BY <2>1, <2>2 DEF OpenLink, AllLinks
<1> HIDE DEF link
<1>3. CASE ~Continues(p, dpid)
  <2>1. q = p
    BY <1>3 DEF AddNewLink
  <2>2. QED
    BY <1>1, <2>1
<1>4. CASE Continues(p, dpid)
  <2>1. q = Put(p, "m_links", more)
    BY <1>4, Zenon DEF AddNewLink, Put, link
  <2>2. /\ more \in Seq(AllLinks) /\ Len(more) = Len(links) + 1 /\ more[Len(links) + 1] = link
        /\ \A i \in 1..Len(links) : more[i] = links[i]
    BY <1>1, <1>2, AppendProperties
  <2>3. links = <<>> \/ links[Len(links)].dst.dpit = dpid
    BY <1>4 DEF Continues, Last
  <2> HIDE DEF more
  <2>4. DPacket(q) /\ q.m_links = more
    BY <2>1, <2>2, LinksPut
  <2>5. Connected(more)
    <3>1. ASSUME NEW i \in 1..(Len(more) - 1) PROVE more[i].dst.dpit = more[i + 1].src.dpit
      <4>1. CASE i = Len(links)
        <5>1. links # <<>>
          BY <4>1
        <5>2. more[i] = links[Len(links)] /\ more[i + 1] = link
          BY <2>2, <4>1
        <5>3. QED
          BY <1>2, <2>3, <5>1, <5>2, SMTT(30)
      <4>2. CASE i # Len(links)
        <5>1. i \in 1..(Len(links) - 1) /\ i \in 1..Len(links) /\ i + 1 \in 1..Len(links)
          BY <1>1, <2>2, <4>2
        <5>2. links[i].dst.dpit = links[i + 1].src.dpit
          BY <5>1 DEF Connected
        <5>3. QED
          BY <2>2, <5>1, <5>2
      <4>3. QED
        BY <4>1, <4>2
    <3>2. QED
      BY <3>1 DEF Connected
  <2>6. QED
    BY <1>1, <2>2, <2>4, <2>5
<1>5. QED
  BY <1>3, <1>4

(***************************************************************************)
(* ModifyLastDpPort sets a port of the last link and the datapath it ends  *)
(* at: the path still holds, for no link follows it.                       *)
(***************************************************************************)
LEMMA ModifyLastDpPortKeeps ==
  ASSUME NEW p, DPacket(p), Connected(p.m_links), NEW port \in [1..4 -> Byte],
           NEW dp \in [1..8 -> Byte]
  PROVE  /\ DPacket(ModifyLastDpPort(p, port, dp)) /\
              Connected(ModifyLastDpPort(p, port, dp).m_links)
         /\ Len(ModifyLastDpPort(p, port, dp).m_links) = Len(p.m_links)
<1> DEFINE links == p.m_links
           n == Len(links)
           end == [dpit |-> dp, port |-> port, pad |-> links[n].dst.pad]
           link == [src |-> links[n].src, dst |-> end]
           q == ModifyLastDpPort(p, port, dp)
           changed == [links EXCEPT ![n] = link]
<1>1. links \in Seq(AllLinks) /\ n \in Nat
  BY DEF DPacket
<1>2. CASE links = <<>>
  <2>1. q = p
    BY <1>2, Zenon DEF ModifyLastDpPort
  <2>2. QED
    BY <2>1
<1>3. CASE links # <<>>
  <2>1. q = Put(p, "m_links", changed)
    BY <1>3, Zenon DEF ModifyLastDpPort, Put
  <2>2. n \in 1..n /\ links[n] \in AllLinks
    BY <1>1, <1>3
  <2>3. link \in AllLinks /\ link.src = links[n].src
    <3> DEFINE A == [1..8 -> Byte]
               B == [1..4 -> Byte]
               c == links[n].dst.pad
    <3>1. dp \in A /\ port \in B
      OBVIOUS
    <3>2. Points = [dpit : A, port : B, pad : B]
      BY DEF Points
    <3>3. links[n].dst \in Points /\ links[n].src \in Points
      BY <2>2 DEF AllLinks
    <3> HIDE DEF A, B
    <3>4. c \in B
      BY <3>2, <3>3
    <3> HIDE DEF c
    <3>5. [dpit |-> dp, port |-> port, pad |-> c] \in Points
      BY <3>1, <3>2, <3>4
    <3>6. QED
      BY <3>3, <3>5 DEF AllLinks, c
  <2> HIDE DEF link
  <2>4. /\ changed \in Seq(AllLinks) /\ Len(changed) = n
        /\ \A i \in 1..n : changed[i] = IF i = n THEN link ELSE links[i]
    BY <1>1, <2>2, <2>3, ExceptSeq
  <2> HIDE DEF changed
  <2>5. DPacket(q) /\ q.m_links = changed
    BY <2>1, <2>4, LinksPut
  <2>6. Connected(changed)
    <3>1. ASSUME NEW i \in 1..(n - 1) PROVE changed[i].dst.dpit = changed[i + 1].src.dpit
      <4>1. i \in 1..n /\ i + 1 \in 1..n /\ i # n
        BY <1>1
      <4>2. links[i].dst.dpit = links[i + 1].src.dpit
        BY DEF Connected
      <4>3. changed[i] = links[i] /\ changed[i + 1].src = links[i + 1].src
        BY <2>3, <2>4, <4>1
      <4>4. QED
        BY <4>2, <4>3
    <3>2. QED
      BY <2>4, <3>1 DEF Connected
  <2>7. QED
    BY <2>4, <2>5, <2>6
<1>4. QED
  BY <1>2, <1>3

-----------------------------------------------------------------------------
(***************************************************************************)
(* A number of 16 bits is cut to 16 bits without loss.                     *)
(***************************************************************************)
LEMMA ShortRemainder == \A v \in Short : v % 65536 = v
<1>1. ASSUME NEW v \in Short PROVE v % 65536 = v
  <2>1. v \in Int /\ 0 <= v /\ v < 65536
    BY SMT DEF Short
  <2>2. QED
    BY <2>1, SMT
<1>2. QED
  BY <1>1

(***************************************************************************)
(* A value that fits its field is read back from what JSON holds of it.    *)
(***************************************************************************)
LEMMA FieldFromJsonBack ==
  ASSUME NEW field, NEW w, w = field[2], w \in Nat \ {0}, NEW v, Fits(v, w), NEW old
  PROVE  FieldFromJson(FieldToJson(v, field[3]), old, field) = v
<1> DEFINE json == [type |-> "string", value |-> v]
<1>1. json.type = "string" /\ json.value = v
  OBVIOUS
<1>2. FieldToJson(v, field[3]) = json
  BY Zenon DEF FieldToJson, MacAddressToJson, IPv4ToJson, ValueToJson, String
<1> HIDE DEF json
<1>3. ValueFromJson(json, old, w) = v
  <2>1. CASE w = 1
    <3>1. v % 256 = v
      BY <2>1, FitsBy, Words
    <3>2. QED
      BY <1>1, <2>1, <3>1 DEF ValueFromJson
  <2>2. CASE w = 2
    <3>1. v % 65536 = v
      BY <2>2, FitsBy, ShortRemainder
    <3>2. QED
      BY <1>1, <2>2, <3>1 DEF ValueFromJson
  <2>3. CASE w # 1 /\ w # 2
    <3>1. ~(w <= 2)
      BY <2>3
    <3>2. QED
      BY <1>1, <3>1 DEF ValueFromJson
  <2>4. QED
    BY <2>1, <2>2, <2>3
<1>4. MacAddressFromJson(json, old) = v /\ IPv4FromJson(json, old) = v
  BY <1>1, Zenon DEF MacAddressFromJson, IPv4FromJson
<1>5. FieldFromJson(json, old, field) = v
  BY <1>3, <1>4, Zenon DEF FieldFromJson
<1>6. QED
  BY <1>2, <1>5

(***************************************************************************)
(* a is q with the fields of F as p has them.                              *)
(***************************************************************************)
AssignedFrom(a, q, p, F, D) ==
  /\ Function(a, D) /\ (\A x \in Names(F) : a[x] = p[x])
  /\ \A x \in D \ Names(F) : a[x] = q[x]

(***************************************************************************)
(* A section of JSON that p wrote gives its fields to the packet that      *)
(* reads it, and leaves the others.                                        *)
(***************************************************************************)
LEMMA AssignedBack ==
  ASSUME NEW D, NEW q, Function(q, D), NEW F, NEW m, LayoutOf(F, m, D), NEW p, Filled(p, F, m)
  PROVE  AssignedFrom(Assigned(q, ObjectOf(p, F), F), q, p, F, D)
<1> DEFINE json == ObjectOf(p, F)
           a == Assigned(q, json, F)
<1>1. DOMAIN q = D
  BY FunctionDomain
<1>2. Names(F) = {F[i][1] : i \in 1..m} /\ Names(F) \subseteq D
  <2>1. Names(F) = {F[i][1] : i \in 1..m}
    BY NamesOf, Zenon
  <2>2. \A i \in 1..m : F[i][1] \in D
    BY Zenon DEF LayoutOf
  <2>3. QED
    BY <2>1, <2>2
<1>3. DOMAIN json = Names(F) /\ \A x \in Names(F) : json[x] = FieldToJson(p[x], Field(F, x)[3])
  BY Zenon DEF ObjectOf
<1> HIDE DEF json
<1>4. a = [x \in D |-> IF x \in Names(F) \cap Names(F) THEN FieldFromJson(json[x], q[x], Field(F,
      x)) ELSE q[x]]
  BY <1>1, <1>3, Zenon DEF Assigned
<1> HIDE DEF a
<1>5. Function(a, D) /\ \A x \in D \ Names(F) : a[x] = q[x]
  BY <1>4, Zenon DEF Function
<1>6. ASSUME NEW x \in Names(F) PROVE a[x] = p[x]
  <2>1. a[x] = FieldFromJson(json[x], q[x], Field(F, x))
    BY <1>2, <1>4, Zenon
  <2>2. PICK i \in 1..m : x = F[i][1]
    BY <1>2
  <2>3. Field(F, x) = F[i] /\ F[i][2] \in Nat \ {0} /\ Fits(p[x], F[i][2])
    <3>1. Field(F, x) = F[i]
      BY <2>2, FieldOfName
    <3>2. F[i][2] \in Nat \ {0}
      BY <2>2, Zenon DEF LayoutOf
    <3>3. Fits(p[x], F[i][2])
      BY <2>2, Zenon DEF Filled
    <3>4. QED
      BY <3>1, <3>2, <3>3
  <2>4. FieldFromJson(FieldToJson(p[x], F[i][3]), q[x], F[i]) = p[x]
    BY <2>3, FieldFromJsonBack
  <2>5. QED
    BY <1>3, <2>1, <2>3, <2>4
<1>7. AssignedFrom(a, q, p, F, D)
  BY <1>5, <1>6, Zenon DEF AssignedFrom
<1>8. QED
  BY <1>7 DEF a, json

(***************************************************************************)
(* A connect point keeps its datapath through JSON.                        *)
(***************************************************************************)
LEMMA PointFromJson ==
  ASSUME NEW q, Point(q)
  PROVE  Assigned(UnsetPoint, ObjectOf(q, PointJson), PointJson).dpit = q.dpit
<1>1. DOMAIN PointJson = 1..2 /\ 1..2 = {1, 2}
  BY DEF PointJson
<1>2. /\ PointJson[1][1] = "dpit" /\ PointJson[1][2] = 8
      /\ PointJson[2][1] = "port" /\ PointJson[2][2] = 4
  BY DEF PointJson
<1>3. LayoutOf(PointJson, 2, PointNames)
  BY <1>1, <1>2 DEF LayoutOf, PointNames
<1>4. "dpit" \in Names(PointJson)
  BY <1>1, <1>2 DEF Names
<1>5. Filled(q, PointJson, 2)
  <2>1. Fits(q.dpit, 8) /\ Fits(q.port, 4)
    BY FitsWide, Zenon DEF Point
  <2>2. QED
    BY <1>1, <1>2, <2>1 DEF Filled
<1>6. Function(UnsetPoint, PointNames)
  <2>1. UnsetPoint = Put(NewPoint, "pad", <<-1>>)
    BY Zenon DEF UnsetPoint, Put
  <2>2. Function(NewPoint, PointNames) /\ "pad" \in PointNames
    BY NewPointFits DEF Point, PointNames
  <2>3. QED
    BY <2>1, <2>2, Updated
<1>7. AssignedFrom(Assigned(UnsetPoint, ObjectOf(q, PointJson), PointJson), UnsetPoint, q,
      PointJson, PointNames)
  BY <1>3, <1>5, <1>6, AssignedBack
<1>8. QED
  BY <1>4, <1>7, Zenon DEF AssignedFrom

(***************************************************************************)
(* The links go from datapath to datapath as the old ones do.              *)
(***************************************************************************)
Follows(links, old) ==
  /\ \E S : links \in Seq(S)
  /\ Len(links) = Len(old) /\ Len(old) \in Nat
  /\ \A i \in 1..Len(old) : links[i].src.dpit = old[i].src.dpit /\
       links[i].dst.dpit = old[i].dst.dpit

(***************************************************************************)
(* The links that are read from the paths of JSON go as those that were    *)
(* written.                                                                *)
(***************************************************************************)
LEMMA LinksFromJsonFollow ==
  ASSUME NEW p, p.m_links \in Seq(AllLinks)
  PROVE  Follows(LinksFromJson(PathsOf(p)), p.m_links)
<1> DEFINE n == Len(p.m_links)
           paths == PathsOf(p)
           links == LinksFromJson(paths)
<1>1. n \in Nat /\ DOMAIN p.m_links = 1..n
  OBVIOUS
<1>2. DOMAIN paths = 1..n /\ \A i \in 1..n : /\ paths[i].src = ObjectOf(p.m_links[i].src, PointJson)
                                             /\ paths[i].dst = ObjectOf(p.m_links[i].dst, PointJson)
  BY <1>1 DEF PathsOf
<1> HIDE DEF paths
<1>3. links = [i \in 1..n |-> [src |-> Assigned(UnsetPoint, paths[i].src, PointJson),
                               dst |-> Assigned(UnsetPoint, paths[i].dst, PointJson)]]
  BY <1>2, Zenon DEF LinksFromJson
<1> HIDE DEF links
<1>4. \A i \in 1..n :
        /\ links[i].src = Assigned(UnsetPoint, ObjectOf(p.m_links[i].src, PointJson), PointJson)
        /\ links[i].dst = Assigned(UnsetPoint, ObjectOf(p.m_links[i].dst, PointJson), PointJson)
  BY <1>2, <1>3
<1>5. \A i \in 1..n : Point(p.m_links[i].src) /\ Point(p.m_links[i].dst)
  <2>1. \A i \in 1..n : p.m_links[i] \in AllLinks
    BY <1>1
  <2>2. QED
    BY <2>1, LinksAre, Zenon DEF Link
<1>6. \A i \in 1..n : links[i].src.dpit = p.m_links[i].src.dpit /\
      links[i].dst.dpit = p.m_links[i].dst.dpit
  BY <1>4, <1>5, PointFromJson
<1>7. links \in Seq({links[i] : i \in 1..n}) /\ Len(links) = n
  BY <1>1, <1>3
<1>8. Follows(links, p.m_links)
  BY <1>1, <1>6, <1>7 DEF Follows
<1>9. QED
  BY <1>8 DEF links, paths

(***************************************************************************)
(* Links that go as a path does are a path.                                *)
(***************************************************************************)
LEMMA FollowersConnected ==
  ASSUME NEW links, NEW old, Follows(links, old), Connected(old)
  PROVE  Connected(links)
<1>1. ASSUME NEW i \in 1..(Len(links) - 1) PROVE links[i].dst.dpit = links[i + 1].src.dpit
  <2>1. i \in 1..Len(old) /\ i + 1 \in 1..Len(old) /\ i \in 1..(Len(old) - 1)
    BY DEF Follows
  <2>2. old[i].dst.dpit = old[i + 1].src.dpit
    BY <2>1 DEF Connected
  <2>3. QED
    BY <2>1, <2>2 DEF Follows
<1>2. QED
  BY <1>1 DEF Connected

(***************************************************************************)
(* A discovery packet that is read from JSON has the path that was         *)
(* written.                                                                *)
(***************************************************************************)
LEMMA DiscoveryFromJsonFollows ==
  ASSUME NEW p, p.m_links \in Seq(AllLinks), NEW json, json.paths = PathsOf(p)
  PROVE  /\ DiscoveryFromJson(NewDiscovery, json).class = "Discovery"
         /\ Follows(DiscoveryFromJson(NewDiscovery, json).m_links, p.m_links)
<1> DEFINE read == LinksFromJson(json.paths)
           links == NewDiscovery.m_links \o read
           size == LinkSize * Len(links)
           a == Put(NewDiscovery, "m_links", links)
           q == Put(a, "linklength", size)
           s == Assigned(q, json.top, DiscoveryJson)
<1>1. Function(NewDiscovery, DiscoveryNames) /\ NewDiscovery.class = "Discovery" /\
      NewDiscovery.m_links = <<>>
  BY NewDiscoveryFits DEF DPacket
<1>2. Follows(read, p.m_links)
  BY LinksFromJsonFollow
<1>3. links = read
  <2>1. PICK S : read \in Seq(S)
    BY <1>2 DEF Follows
  <2>2. QED
    BY <1>1, <2>1, ConcatEmptySeq
<1>4. DiscoveryFromJson(NewDiscovery, json) = s
  <2>1. [NewDiscovery EXCEPT !.m_links = links, !.linklength = size] = q
    <3> HIDE DEF links, size
    <3>1. QED
      BY Zenon DEF Put
  <2>2. DiscoveryFromJson(NewDiscovery, json) = Assigned([NewDiscovery EXCEPT !.m_links =
        links, !.linklength = size], json.top, DiscoveryJson)
    BY Zenon DEF DiscoveryFromJson
  <2>3. QED
    BY <2>1, <2>2
<1> HIDE DEF links, size
<1>5. IsPut(a, NewDiscovery, "m_links", links, DiscoveryNames)
  BY <1>1, NamesOfDiscovery, PutIs
<1> HIDE DEF a
<1>6. IsPut(q, a, "linklength", size, DiscoveryNames)
  <2>1. Function(a, DiscoveryNames) /\ "linklength" \in DiscoveryNames
    BY <1>5 DEF IsPut, DiscoveryNames
  <2>2. QED
    BY <2>1, PutIs
<1> HIDE DEF q
<1>7. DOMAIN q = DiscoveryNames /\ q.class = "Discovery" /\ q.m_links = links
  <2>1. Function(q, DiscoveryNames)
    BY <1>6 DEF IsPut
  <2>2. DOMAIN q = DiscoveryNames
    BY <2>1, FunctionDomain
  <2>3. QED
    BY <1>1, <1>5, <1>6, <2>2 DEF IsPut, DiscoveryNames
<1>8. "class" \notin Names(DiscoveryJson) /\ "m_links" \notin Names(DiscoveryJson)
  BY DEF Names, DiscoveryJson
<1>9. s.class = q.class /\ s.m_links = q.m_links
  BY <1>7, <1>8, NamesOfDiscovery, Zenon DEF Assigned
<1>10. QED
  BY <1>2, <1>3, <1>4, <1>7, <1>9

(***************************************************************************)
(* Some numbers have a least one.                                          *)
(***************************************************************************)
LEMMA LeastOf ==
  ASSUME NEW S, S \subseteq Nat, S # {}
  PROVE  \E x \in S : \A y \in S : x <= y
<1>1. PICK x \in S : \A y \in S : <<y, x>> \notin Before
  BY BeforeWellFounded, WFMin
<1>2. ASSUME NEW y \in S PROVE x <= y
  <2>1. x \in Nat /\ y \in Nat /\ <<y, x>> \notin Before
    BY <1>1
  <2>2. QED
    BY <2>1 DEF Before
<1>3. QED
  BY <1>2

(***************************************************************************)
(* The loop that GetLoopList finds at a datapath starts at that datapath,  *)
(* which is on the path.                                                   *)
(***************************************************************************)
LEMMA LoopStarts ==
  ASSUME NEW p, NEW S, p.m_links \in Seq(S), NEW dp, GetLoopList(p, dp) # <<>>
  PROVE  GetLoopList(p, dp)[1].src.dpit = dp /\ IsHaveTheDP(p, dp)
<1> DEFINE links == p.m_links
           leaves == {i \in DOMAIN p.m_links : p.m_links[i].src.dpit = dp}
           first == CHOOSE i \in leaves : \A j \in leaves : i <= j
<1>1. DOMAIN links = 1..Len(links) /\ Len(links) \in Nat
  OBVIOUS
<1>2. leaves \subseteq Nat
  BY <1>1
<1>3. leaves # {} /\ GetLoopList(p, dp) = SubSeq(links, first, Len(links))
  BY Zenon DEF GetLoopList
<1>4. \E i \in leaves : \A j \in leaves : i <= j
  <2> HIDE DEF leaves
  <2>1. QED
    BY <1>2, <1>3, LeastOf
<1>5. first \in leaves
  BY <1>4, Zenon
<1>6. first \in 1..Len(links) /\ links[first].src.dpit = dp /\ first \in DOMAIN links
  BY <1>1, <1>5
<1> HIDE DEF first, leaves
<1>7. SubSeq(links, first, Len(links))[1] = links[first]
  BY <1>1, <1>6
<1>8. IsHaveTheDP(p, dp)
  BY <1>6, Zenon DEF IsHaveTheDP
<1>9. QED
  BY <1>3, <1>6, <1>7, <1>8
=============================================================================
