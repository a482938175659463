------------------------- MODULE BridgeTimersProofs -------------------------
(***************************************************************************)
(* Proofs about BridgeTimers, for every request and every int the          *)
(* constructor may leave in elapsed_remainder.                             *)
(***************************************************************************)
EXTENDS BridgeTimers, TLAPS

(***************************************************************************)
(* The range of 24 bits, how many numbers are in it, and what it has to do *)
(* with an int.                                                            *)
(***************************************************************************)
Signed24 == -Half24..Half24 - 1

Span24 == 2 * Half24

LEMMA Widths ==
  /\ Half24 \in Nat /\ Half24 > 5000000 /\ Span24 \in Nat /\ Span24 = 2 * Half24
  /\ MaxInt \in Nat /\ MaxInt + 1 = 128 * Span24
BY SMT DEF Half24, Span24, MaxInt

(***************************************************************************)
(* What the sum of two ints is, up to the bits that do not fit.            *)
(***************************************************************************)
LEMMA SumFits ==
  ASSUME NEW a \in Int32, NEW b \in Int32
  PROVE  /\ Sum32(a, b) \in Int32
         /\ \E k \in Int : Sum32(a, b) = a + b + Span24 * (256 * k)
<1>1. /\ a \in Int /\ b \in Int /\ MaxInt \in Nat
      /\ -MaxInt - 1 <= a /\ a <= MaxInt /\ -MaxInt - 1 <= b /\ b <= MaxInt
  BY Widths, SMT DEF Int32
<1>2. CASE b >= 0 /\ a > MaxInt - b
  <2>1. Sum32(a, b) = (a - MaxInt - 1) + (b - MaxInt - 1)
    BY <1>2 DEF Sum32
  <2>2. Sum32(a, b) = a + b + Span24 * (256 * (-1))
    BY <1>1, <2>1, Widths, SMT
  <2>3. Sum32(a, b) \in Int32
    BY <1>1, <1>2, <2>1, SMT DEF Int32
  <2>4. QED
    BY <2>2, <2>3, SMT
<1>3. CASE b < 0 /\ a < -MaxInt - 1 - b
  <2>1. Sum32(a, b) = (a + MaxInt + 1) + (b + MaxInt + 1)
    BY <1>1, <1>3, SMT DEF Sum32
  <2>2. Sum32(a, b) = a + b + Span24 * (256 * 1)
    BY <1>1, <2>1, Widths, SMT
  <2>3. Sum32(a, b) \in Int32
    BY <1>1, <1>3, <2>1, SMT DEF Int32
  <2>4. QED
    BY <2>2, <2>3, SMT
<1>4. CASE ~(b >= 0 /\ a > MaxInt - b) /\ ~(b < 0 /\ a < -MaxInt - 1 - b)
  <2>1. Sum32(a, b) = a + b
    BY <1>4 DEF Sum32
  <2>2. Sum32(a, b) = a + b + Span24 * (256 * 0)
    BY <1>1, <2>1, Widths, SMT
  <2>3. Sum32(a, b) \in Int32
    BY <1>1, <1>4, <2>1, SMT DEF Int32
  <2>4. QED
    BY <2>2, <2>3, SMT
<1>5. QED
  BY <1>2, <1>3, <1>4

(***************************************************************************)
(* The lower 24 bits of a number differ from it by what 24 bits do not     *)
(* hold, and no two numbers they hold are alike in that.                   *)
(***************************************************************************)
LEMMA LowIs ==
  ASSUME NEW ms \in Int
  PROVE  /\ Low24(ms) \in Signed24
         /\ \E k \in Int : ms = Low24(ms) + Span24 * k
<1> DEFINE low == ms % (2 * Half24)
           k == ms \div (2 * Half24)
<1>1. /\ low \in Int /\ 0 <= low /\ low < 2 * Half24
      /\ k \in Int /\ ms = 2 * Half24 * k + low
  BY SMT DEF Half24
<1>2. Low24(ms) = IF low < Half24 THEN low ELSE low - 2 * Half24
  BY DEF Low24
<1> HIDE DEF low, k
<1>3. CASE low < Half24
  <2>1. Low24(ms) = low
    BY <1>2, <1>3
  <2>2. ms = Low24(ms) + Span24 * k
    BY <1>1, <2>1, Widths, SMT
  <2>3. Low24(ms) \in Signed24
    BY <1>1, <1>3, <2>1, Widths, SMT DEF Signed24
  <2>4. QED
    BY <1>1, <2>2, <2>3
<1>4. CASE ~(low < Half24)
  <2>1. Low24(ms) = low - 2 * Half24
    BY <1>2, <1>4
  <2>2. k + 1 \in Int /\ ms = Low24(ms) + Span24 * (k + 1)
    BY <1>1, <2>1, Widths, SMT
  <2>3. Low24(ms) \in Signed24
    BY <1>1, <1>4, <2>1, Widths, SMT DEF Signed24
  <2>4. QED
    BY <2>2, <2>3
<1>5. QED
  BY <1>3, <1>4

LEMMA LowOf ==
  ASSUME NEW ms \in Int, NEW low \in Signed24, NEW k \in Int, ms = low + Span24 * k
  PROVE  Low24(ms) = low
<1>1. PICK j \in Int : ms = Low24(ms) + Span24 * j
  BY LowIs
<1> DEFINE other == Low24(ms)
<1>2. other \in Signed24
  BY LowIs
<1>3. ms = other + Span24 * j
  BY <1>1
<1> HIDE DEF other
<1>4. /\ other \in Int /\ -Half24 <= other /\ other < Half24
      /\ low \in Int /\ -Half24 <= low /\ low < Half24
      /\ Half24 \in Nat /\ Span24 \in Nat /\ Span24 = 2 * Half24 /\ Half24 > 0
  BY <1>2, Widths, SMT DEF Signed24
<1>5. other - low = Span24 * (k - j)
  BY <1>3, <1>4, SMT
<1>6. k = j
  <2>1. CASE k - j >= 1
    <3>1. Span24 * (k - j) >= Span24
      BY <1>4, <2>1, SMT
    <3>2. QED
      BY <1>4, <1>5, <3>1, SMT
  <2>2. CASE k - j <= -1
    <3>1. Span24 * (k - j) <= -Span24
      BY <1>4, <2>2, SMT
    <3>2. QED
      BY <1>4, <1>5, <3>1, SMT
  <2>3. QED
    BY <2>1, <2>2, SMT
<1>7. other = low
  <2>1. other - low = 0
    BY <1>4, <1>5, <1>6, SMT
  <2>2. QED
    BY <1>4, <2>1, SMT
<1>8. QED
  BY <1>7 DEF other

(***************************************************************************)
(* What a time at least 0 becomes in STP ticks, rounded down.              *)
(***************************************************************************)
LEMMA TicksOfTime ==
  ASSUME NEW ms \in Nat, ms < Half24
  PROVE  \E n \in Nat : /\ ms_to_timer(ms) = n
                        /\ 1000 * n <= 256 * ms
                        /\ 256 * ms < 1000 * n + 1000
<1>1. Low24(ms) = ms
  <2>1. ms = ms + Span24 * 0 /\ ms \in Signed24
    BY Widths, SMT DEF Signed24
  <2>2. QED
    BY <2>1, LowOf
<1>2. ms_to_timer(ms) = (256 * ms) \div 1000
  BY <1>1, SMT DEF ms_to_timer, Quotient
<1>3. /\ ms_to_timer(ms) \in Nat
      /\ 1000 * ms_to_timer(ms) <= 256 * ms
      /\ 256 * ms < 1000 * ms_to_timer(ms) + 1000
  BY <1>2, SMT
<1>4. QED
  BY <1>3

(***************************************************************************)
(* The times of UpdateBridgeTimers in milliseconds, one after the other.   *)
(***************************************************************************)
LEMMA HelloTimeInRange ==
  ASSUME NEW asked \in Int
  PROVE  /\ HelloTime(asked) \in Int
         /\ 1000 <= HelloTime(asked) /\ HelloTime(asked) <= 10000
BY SMT DEF HelloTime, clamp

LEMMA MaxAgeInRelation ==
  ASSUME NEW asked \in Int, NEW ht \in Int, 1000 <= ht, ht <= 10000
  PROVE  \E ma \in Int : /\ MaxAge(asked, ht) = ma
                         /\ 6000 <= ma /\ ma <= 40000
                         /\ ma >= 2 * (ht + 1000)
BY SMT DEF MaxAge, clamp, caw_max

LEMMA ForwardDelayInRelation ==
  ASSUME NEW asked \in Int, NEW ma \in Int, 6000 <= ma, ma <= 40000
  PROVE  \E fd \in Int : /\ ForwardDelay(asked, ma) = fd
                         /\ 4000 <= fd /\ fd <= 30000
                         /\ 2 * (fd - 1000) >= ma - 1
BY SMT DEF ForwardDelay, clamp

(***************************************************************************)
(* The same in STP ticks: the rounding costs two of them at most.          *)
(***************************************************************************)
LEMMA RelationsInTicks ==
  ASSUME NEW ht \in Nat, NEW ma \in Nat, NEW fd \in Nat,
         1000 <= ht, ht <= 10000, 6000 <= ma, ma <= 40000,
         4000 <= fd, fd <= 30000,
         ma >= 2 * (ht + 1000), 2 * (fd - 1000) >= ma - 1
  PROVE  \E h, a, f \in Nat :
           /\ ms_to_timer(ht) = h /\ ms_to_timer(ma) = a /\ ms_to_timer(fd) = f
           /\ 256 <= h /\ h <= 2560
           /\ 1536 <= a /\ a <= 10240
           /\ 1024 <= f /\ f <= 7680
           /\ a >= 2 * (h + 256)
           /\ 2 * (f - 256) >= a - 2
<1>1. PICK h \in Nat : /\ ms_to_timer(ht) = h
                       /\ 1000 * h <= 256 * ht /\ 256 * ht < 1000 * h + 1000
  BY TicksOfTime, Widths, SMT
<1>2. PICK a \in Nat : /\ ms_to_timer(ma) = a
                       /\ 1000 * a <= 256 * ma /\ 256 * ma < 1000 * a + 1000
  BY TicksOfTime, Widths, SMT
<1>3. PICK f \in Nat : /\ ms_to_timer(fd) = f
                       /\ 1000 * f <= 256 * fd /\ 256 * fd < 1000 * f + 1000
  BY TicksOfTime, Widths, SMT
<1>4. 256 <= h /\ h <= 2560
  BY <1>1, SMT
<1>5. 1536 <= a /\ a <= 10240
  BY <1>2, SMT
<1>6. 1024 <= f /\ f <= 7680
  BY <1>3, SMT
<1>7. a >= 2 * (h + 256)
  BY <1>1, <1>2, SMT
<1>8. 2 * (f - 256) >= a - 2
  BY <1>2, <1>3, SMT
<1>9. QED
  BY <1>1, <1>2, <1>3, <1>4, <1>5, <1>6, <1>7, <1>8

(***************************************************************************)
(* Together, for any request.                                              *)
(***************************************************************************)
LEMMA UpdatedTimesInRelation ==
  ASSUME NEW asked \in Requests
  PROVE  /\ UpdateBridgeTimers(asked)
              \in [hello_time: Nat, max_age: Nat, forward_delay: Nat]
         /\ InRelation(UpdateBridgeTimers(asked))
<1>1. PICK rh \in Int, ra \in Int, rf \in Int :
        asked.hello_time = rh /\ asked.max_age = ra /\ asked.forward_delay = rf
  BY DEF Requests
<1>2. PICK ht \in Int : /\ HelloTime(rh) = ht
                        /\ 1000 <= ht /\ ht <= 10000
  BY HelloTimeInRange, SMT
<1>3. PICK ma \in Int : /\ MaxAge(ra, ht) = ma
                        /\ 6000 <= ma /\ ma <= 40000 /\ ma >= 2 * (ht + 1000)
  BY <1>2, MaxAgeInRelation, SMT
<1>4. PICK fd \in Int : /\ ForwardDelay(rf, ma) = fd
                        /\ 4000 <= fd /\ fd <= 30000
                        /\ 2 * (fd - 1000) >= ma - 1
  BY <1>3, ForwardDelayInRelation, SMT
<1>5. ht \in Nat /\ ma \in Nat /\ fd \in Nat
  BY <1>2, <1>3, <1>4, SMT
<1>6. PICK h \in Nat, a \in Nat, f \in Nat :
        /\ ms_to_timer(ht) = h /\ ms_to_timer(ma) = a /\ ms_to_timer(fd) = f
        /\ 256 <= h /\ h <= 2560
        /\ 1536 <= a /\ a <= 10240
        /\ 1024 <= f /\ f <= 7680
        /\ a >= 2 * (h + 256)
        /\ 2 * (f - 256) >= a - 2
  BY <1>2, <1>3, <1>4, <1>5, RelationsInTicks, SMT
<1>7. UpdateBridgeTimers(asked)
        = [hello_time |-> h, max_age |-> a, forward_delay |-> f]
  BY <1>1, <1>2, <1>3, <1>4, <1>6 DEF UpdateBridgeTimers
<1>8. InRelation([hello_time |-> h, max_age |-> a, forward_delay |-> f])
  <2>1. h \in 256..2560
    BY <1>6, SMT
  <2>2. a \in 1536..10240
    BY <1>6, SMT
  <2>3. f \in 1024..7680
    BY <1>6, SMT
  <2>4. a >= 2 * (h + 256)
    BY <1>6
  <2>5. 2 * (f - 256) >= a - 2
    BY <1>6
  <2>6. QED
    BY <2>1, <2>2, <2>3, <2>4, <2>5 DEF InRelation
<1>9. QED
  BY <1>7, <1>8

(***************************************************************************)
(* What a conversion leaves over of the milliseconds it counts: less than  *)
(* two STP ticks.                                                          *)
(***************************************************************************)
LEMMA LeftIsSmall ==
  ASSUME NEW ms \in Int
  PROVE  /\ Low24(ms) - timer_to_ms(ms_to_timer(ms)) \in -4..4
         /\ timer_to_ms(ms_to_timer(ms)) \in -Span24..Span24
<1> DEFINE low == Low24(ms)
           e == ms_to_timer(ms)
           c == timer_to_ms(e)
<1>1. low \in Int /\ -Half24 <= low /\ low <= Half24
  <2>1. low \in Signed24
    BY LowIs
  <2> HIDE DEF low
  <2>2. QED
    BY <2>1, Widths, SMT DEF Signed24
<1>2. e = Quotient(256 * low, 1000)
  BY DEF ms_to_timer
<1> HIDE DEF low
<1>3. CASE low >= 0
  <2>1. e = (256 * low) \div 1000
    BY <1>1, <1>2, <1>3, SMT DEF Quotient
  <2>2. e \in Nat /\ 1000 * e <= 256 * low /\ 256 * low < 1000 * e + 1000
    BY <1>1, <1>3, <2>1, SMT
  <2> HIDE DEF e
  <2>3. c = (e * 1000) \div 256
    BY <2>2, SMT DEF timer_to_ms, Quotient
  <2>4. c \in Nat /\ 256 * c <= 1000 * e /\ 1000 * e < 256 * c + 256
    BY <2>2, <2>3, SMT
  <2> HIDE DEF c
  <2>5. low - c \in -4..4 /\ c \in -Span24..Span24
    BY <1>1, <1>3, <2>2, <2>4, Widths, SMT
  <2>6. QED
    BY <2>5 DEF low, c, e
<1>4. CASE low < 0
  <2>1. e = (256 * low + 999) \div 1000
    BY <1>1, <1>2, <1>4, SMT DEF Quotient
  <2>2. e \in Int /\ e <= 0 /\ 1000 * e <= 256 * low + 999 /\ 256 * low <= 1000 * e
    BY <1>1, <1>4, <2>1, SMT
  <2> HIDE DEF e
  <2>3. c \in Int /\ 256 * c <= 1000 * e + 255 /\ 1000 * e <= 256 * c
    <3>1. CASE e = 0
      <4>1. c = 0
        BY <3>1, SMT DEF timer_to_ms, Quotient
      <4>2. QED
        BY <3>1, <4>1
    <3>2. CASE e # 0
      <4>1. c = (e * 1000 + 255) \div 256
        BY <2>2, <3>2, SMT DEF timer_to_ms, Quotient
      <4>2. QED
        BY <2>2, <4>1, SMT
    <3>3. QED
      BY <3>1, <3>2
  <2> HIDE DEF c
  <2>4. low - c \in -4..4 /\ c \in -Span24..Span24
    BY <1>1, <1>4, <2>2, <2>3, Widths, SMT
  <2>5. QED
    BY <2>4 DEF low, c, e
<1>5. QED
  BY <1>1, <1>3, <1>4, SMT

(***************************************************************************)
(* A Tick leaves over an int, and in its lower 24 bits what the conversion *)
(* leaves over: what overflows is a multiple of what they do not hold.     *)
(***************************************************************************)
LEMMA RemainderIs ==
  ASSUME NEW ms \in Int32
  PROVE  /\ Remainder(ms) \in Int32
         /\ Low24(Remainder(ms)) = Low24(ms) - timer_to_ms(ms_to_timer(ms))
<1> DEFINE low == Low24(ms)
           c == timer_to_ms(ms_to_timer(ms))
           rest == Remainder(ms)
<1>1. ms \in Int
  BY Widths, SMT DEF Int32
<1>2. low - c \in -4..4 /\ c \in -Span24..Span24 /\ low \in Signed24
  BY <1>1, LeftIsSmall, LowIs
<1>3. PICK j \in Int : ms = low + Span24 * j
  BY <1>1, LowIs
<1>4. rest = Sum32(ms, -c)
  BY DEF Remainder
<1> HIDE DEF low, c, rest
<1>5. -c \in Int32
  BY <1>2, Widths, SMT DEF Int32
<1>6. rest \in Int32
  BY <1>4, <1>5, SumFits
<1>7. PICK k \in Int : rest = ms + (-c) + Span24 * (256 * k)
  BY <1>4, <1>5, SumFits
<1>8. /\ rest \in Int /\ low - c \in Signed24 /\ j + 256 * k \in Int
      /\ rest = (low - c) + Span24 * (j + 256 * k)
  <2>1. rest \in Int
    BY <1>6, Widths, SMT DEF Int32
  <2>2. low - c \in Signed24 /\ j + 256 * k \in Int
    BY <1>2, Widths, SMT DEF Signed24
  <2>3. low \in Int /\ c \in Int
    BY <1>2, Widths, SMT DEF Signed24
  <2>4. rest = (low - c) + Span24 * (j + 256 * k)
    BY <1>3, <1>7, <2>3, SMT DEF Span24, Half24
  <2>5. QED
    BY <2>1, <2>2, <2>4
<1>9. Low24(rest) = low - c
  BY <1>8, LowOf
<1>10. QED
  BY <1>6, <1>9 DEF low, c, rest

(***************************************************************************)
(* The milliseconds that Tick converts: it adds to what was left over, in  *)
(* the lower 24 bits, what has passed.                                     *)
(***************************************************************************)
LEMMA TickedIs ==
  ASSUME NEW rest \in Int32
  PROVE  /\ Sum32(3000, rest) \in Int32
         /\ Low24(rest) \in -4..4 => Low24(Sum32(3000, rest)) = 3000 + Low24(rest)
<1> DEFINE low == Low24(rest)
           ms == Sum32(3000, rest)
<1>1. rest \in Int /\ 3000 \in Int32
  BY Widths, SMT DEF Int32
<1>2. PICK j \in Int : rest = low + Span24 * j
  BY <1>1, LowIs
<1>3. low \in Signed24
  BY <1>1, LowIs
<1>4. ms \in Int32
  BY <1>1, SumFits
<1>5. PICK k \in Int : ms = 3000 + rest + Span24 * (256 * k)
  BY <1>1, SumFits
<1> HIDE DEF low, ms
<1>6. ASSUME low \in -4..4 PROVE Low24(ms) = 3000 + low
  <2>1. ms \in Int
    BY <1>4, Widths, SMT DEF Int32
  <2>2. 3000 + low \in Signed24 /\ j + 256 * k \in Int
    BY <1>6, Widths, SMT DEF Signed24
  <2>3. ms = (3000 + low) + Span24 * (j + 256 * k)
    BY <1>2, <1>5, <1>6, SMT DEF Span24, Half24
  <2>4. QED
    BY <2>1, <2>2, <2>3, LowOf
<1>7. QED
  BY <1>4, <1>6 DEF low, ms

(***************************************************************************)
(* What the later Ticks count and leave over, for each of the nine values  *)
(* that can be left over.                                                  *)
(***************************************************************************)
LEMMA LaterTicks ==
  ASSUME NEW ms \in Int, NEW r \in -4..4, Low24(ms) = 3000 + r
  PROVE  LET left == Low24(ms) - timer_to_ms(ms_to_timer(ms))
         IN  /\ r \in 0..3 => ms_to_timer(ms) = 768 /\ left = r
             /\ r = 4 => ms_to_timer(ms) = 769 /\ left = 1
             /\ r \in -3..-1 => ms_to_timer(ms) = 767 /\ left = r + 4
             /\ r = -4 => ms_to_timer(ms) = 766 /\ left = 4
<1> DEFINE e == (256 * (3000 + r)) \div 1000
<1>1. ms_to_timer(ms) = e
  BY SMT DEF ms_to_timer, Quotient
<1>2. /\ r \in 0..3 => e = 768
      /\ r = 4 => e = 769
      /\ r \in -3..-1 => e = 767
      /\ r = -4 => e = 766
  BY SMT
<1>3. /\ timer_to_ms(769) = 3003 /\ timer_to_ms(768) = 3000
      /\ timer_to_ms(767) = 2996 /\ timer_to_ms(766) = 2992
  BY SMT DEF timer_to_ms, Quotient
<1> HIDE DEF e
<1>4. r \in 0..3 \/ r = 4 \/ r \in -3..-1 \/ r = -4
  BY SMT
<1>5. QED
  BY <1>1, <1>2, <1>3, <1>4, SMT

-----------------------------------------------------------------------------
(***************************************************************************)
(* The inductive invariant.                                                *)
(***************************************************************************)
IInv == TypeOK /\ TimesInRelation /\ Leftover

LEMMA InitIInv == Init => IInv
<1> SUFFICES ASSUME Init PROVE IInv
  OBVIOUS
<1>1. Defaults \in Requests
  BY DEF Defaults, Requests
<1>2. bridge_times = UpdateBridgeTimers(Defaults)
  BY DEF Init
<1>3. TypeOK
  <2>1. rq \in Requests
    BY <1>1 DEF Init
  <2>2. bridge_times \in [hello_time: Nat, max_age: Nat, forward_delay: Nat]
    BY <1>1, <1>2, UpdatedTimesInRelation
  <2>3. elapsed_remainder \in Int32 /\ started \in BOOLEAN /\ lead \in Int
    <3>1. elapsed_remainder \in Int32
      BY RemaindersAssumption DEF Init
    <3>2. started \in BOOLEAN
      BY DEF Init
    <3>3. lead \in Int
      BY DEF Init
    <3>4. QED
      BY <3>1, <3>2, <3>3
  <2>4. QED
    BY <2>1, <2>2, <2>3 DEF TypeOK
<1>4. TimesInRelation
  BY <1>1, <1>2, UpdatedTimesInRelation DEF TimesInRelation
<1>5. Leftover
  BY DEF Init, Leftover
<1>6. QED
  BY <1>3, <1>4, <1>5 DEF IInv

(***************************************************************************)
(* The setters may ask for anything.                                       *)
(***************************************************************************)
LEMMA RequestKeepsIInv ==
  ASSUME IInv, NEW r \in Requests, Request(r)
  PROVE  IInv'
<1>1. TypeOK'
  BY UpdatedTimesInRelation DEF IInv, Request, TypeOK
<1>2. TimesInRelation'
  BY UpdatedTimesInRelation DEF Request, TimesInRelation
<1>3. Leftover'
  BY DEF IInv, Request, Leftover
<1>4. QED
  BY <1>1, <1>2, <1>3 DEF IInv

(***************************************************************************)
(* A Tick keeps the lead and what is left over together.                   *)
(***************************************************************************)
LEMMA TickKeepsIInv ==
  ASSUME IInv, Tick
  PROVE  IInv'
<1> DEFINE ms == Sum32(3000, elapsed_remainder)
           left == Low24(ms) - timer_to_ms(ms_to_timer(ms))
<1>1. ms \in Int32 /\ ms \in Int /\ lead \in Int
  <2>1. elapsed_remainder \in Int32 /\ lead \in Int
    BY DEF IInv, TypeOK
  <2>2. ms \in Int32
    BY <2>1, TickedIs
  <2>3. QED
    BY <2>1, <2>2, Widths, SMT DEF Int32
<1>2. /\ elapsed_remainder' = Remainder(ms) /\ started' = TRUE
      /\ lead' = IF started THEN lead + ms_to_timer(ms) - ms_to_timer(3000)
                 ELSE 0
      /\ rq' = rq /\ bridge_times' = bridge_times
  BY DEF Tick, SWITCH_TICK
<1>3. /\ elapsed_remainder' \in Int32
      /\ Low24(elapsed_remainder') = left /\ left \in -4..4
  BY <1>1, <1>2, RemainderIs, LeftIsSmall
<1>4. ms_to_timer(3000) = 768
  BY SMT DEF ms_to_timer, Quotient, Low24, Half24
<1>5. Leftover' /\ lead' \in Int
  <2>1. CASE ~started
    <3>1. lead' = 0 /\ started' = TRUE
      BY <2>1, <1>2
    <3>2. QED
      BY <3>1, <1>3 DEF Leftover
  <2>2. CASE started
    <3> DEFINE r == Low24(elapsed_remainder)
    <3>1. \/ lead = 0 /\ r \in -4..4
          \/ lead = 1 /\ r = 1
          \/ lead = -1 /\ r \in 1..3
          \/ lead = -2 /\ r = 4
      BY <2>2 DEF IInv, Leftover
    <3>2. r \in -4..4
      BY <3>1, SMT
    <3>3. Low24(ms) = 3000 + r
      BY <3>2, TickedIs DEF IInv, TypeOK
    <3>4. lead' = lead + ms_to_timer(ms) - 768 /\ started' = TRUE
      BY <2>2, <1>2, <1>4
    <3> DEFINE e == ms_to_timer(ms)
    <3>5. /\ r \in 0..3 => e = 768 /\ left = r
          /\ r = 4 => e = 769 /\ left = 1
          /\ r \in -3..-1 => e = 767 /\ left = r + 4
          /\ r = -4 => e = 766 /\ left = 4
      BY <1>1, <3>2, <3>3, LaterTicks
    <3>6. lead' = lead + e - 768
      BY <3>4
    <3> HIDE DEF r, e, left
    <3>7. /\ lead' \in Int
          /\ \/ lead' = 0 /\ left \in -4..4
             \/ lead' = 1 /\ left = 1
             \/ lead' = -1 /\ left \in 1..3
             \/ lead' = -2 /\ left = 4
      BY <1>1, <3>1, <3>5, <3>6, SMT
    <3>8. QED
      BY <1>3, <3>4, <3>7 DEF Leftover
  <2>3. QED
    BY <2>1, <2>2 DEF IInv, TypeOK
<1>6. TypeOK'
  BY <1>2, <1>3, <1>5 DEF IInv, TypeOK
<1>7. TimesInRelation'
  BY <1>2 DEF IInv, TimesInRelation
<1>8. QED
  BY <1>5, <1>6, <1>7 DEF IInv

LEMMA NextIInv == IInv /\ [Next]_vars => IInv'
<1> SUFFICES ASSUME IInv, [Next]_vars PROVE IInv'
  OBVIOUS
<1>1. ASSUME NEW ms \in Requested,
             SetHelloTime(ms) \/ SetMaxAge(ms) \/ SetForwardDelay(ms)
      PROVE  IInv'
  <2>1. ms \in Int
    BY RequestedAssumption
  <2>2. /\ [rq EXCEPT !.hello_time = ms]
             \in Requests
        /\ [rq EXCEPT !.max_age = ms]
             \in Requests
        /\ [rq EXCEPT !.forward_delay = ms]
             \in Requests
    BY <2>1 DEF IInv, TypeOK, Requests
  <2>3. QED
    BY <1>1, <2>2, RequestKeepsIInv
       DEF SetHelloTime, SetMaxAge, SetForwardDelay
<1>2. CASE Tick
  BY <1>2, TickKeepsIInv
<1>3. CASE UNCHANGED vars
  BY <1>3 DEF vars, IInv, TypeOK, TimesInRelation, Leftover
<1>4. QED
  BY <1>1, <1>2, <1>3 DEF Next

(***************************************************************************)
(* All three hold in every reachable state.                                *)
(***************************************************************************)
THEOREM Invariance == Spec => []IInv
BY InitIInv, NextIInv, PTL DEF Spec

(***************************************************************************)
(* The variables keep to their types: no request, however large or         *)
(* negative, makes a time in force that is not a natural number of STP     *)
(* ticks (UpdateBridgeTimers).                                             *)
(***************************************************************************)
THEOREM BridgeTimersTyped == Spec => []TypeOK
<1>1. IInv => TypeOK
  BY DEF IInv
<1>2. QED
  BY <1>1, Invariance, PTL

(***************************************************************************)
(* The times in force are in range and in relation, whatever is asked for. *)
(***************************************************************************)
THEOREM TimesInRelationHolds == Spec => []TimesInRelation
BY Invariance, PTL DEF IInv

(***************************************************************************)
(* The uninitialised remainder, whatever int it is, costs or gains two STP *)
(* ticks in all, once the first Tick has run: what overflows in            *)
(* ms_to_timer stays in elapsed_remainder and is never counted.            *)
(***************************************************************************)
THEOREM ClockKeepsTimeHolds == Spec => []ClockKeepsTime
<1>1. IInv => ClockKeepsTime
  BY DEF IInv, TypeOK, Leftover, ClockKeepsTime
<1>2. QED
  BY <1>1, Invariance, PTL
=============================================================================
