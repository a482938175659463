---------------------------- MODULE BridgeTimers ----------------------------
(***************************************************************************)
(* The arithmetic of CVSwitchSTP: how the times it is asked for, in        *)
(* milliseconds, become the bridge times STPBridge works with, in STP      *)
(* ticks, and how Tick turns the milliseconds that have passed into STP    *)
(* ticks.  What Tick and UpdateBridgeTimers do besides is in STP.          *)
(***************************************************************************)
EXTENDS Integers

CONSTANTS
  Requested,        \* what the setters of the times may be called with
  FirstRemainders   \* what the constructor may leave in elapsed_remainder

(***************************************************************************)
(* An int has 32 bits, and what does not fit is cut to them: the build     *)
(* computes ms_to_timer with one multiplication and one division.          *)
(***************************************************************************)
MaxInt == 2147483647

Int32 == -MaxInt - 1..MaxInt

ASSUME RequestedAssumption == Requested \subseteq Int
ASSUME RemaindersAssumption == FirstRemainders \subseteq Int32

VARIABLES
  rq,                  \* rq_hello_time, rq_max_age and rq_forward_delay
  bridge_times,        \* bridge_hello_time, ..., in STP ticks
  elapsed_remainder,   \* milliseconds not yet counted
  started,             \* whether Tick has run
  lead                 \* STP ticks counted, after the first Tick, in excess
                       \* of the 768 that SWITCH_TICK lasts

vars == <<rq, bridge_times, elapsed_remainder, started, lead>>

SWITCH_TICK == 3000

(***************************************************************************)
(* Division of C: towards zero.                                            *)
(***************************************************************************)
Quotient(a, b) == IF a >= 0 THEN a \div b ELSE (a + b - 1) \div b

(***************************************************************************)
(* The sum of two ints.                                                    *)
(***************************************************************************)
Sum32(a, b) ==
  IF b >= 0 /\ a > MaxInt - b THEN (a - MaxInt - 1) + (b - MaxInt - 1)
  ELSE IF b < 0 /\ a < -MaxInt - 1 - b THEN (a + MaxInt + 1) + (b + MaxInt + 1)
  ELSE a + b

(***************************************************************************)
(* Of a number multiplied by 256 the lower 24 bits stay in an int.         *)
(***************************************************************************)
Half24 == 8388608

Low24(ms) ==
  LET low == ms % (2 * Half24) IN IF low < Half24 THEN low ELSE low - 2 * Half24

ms_to_timer(ms) == Quotient(256 * Low24(ms), 1000)

timer_to_ms(timer) == Quotient(timer * 1000, 256)

clamp(x, min, max) == IF x < min THEN min ELSE IF x > max THEN max ELSE x

caw_max(x, y) == IF x > y THEN x ELSE y

-----------------------------------------------------------------------------
(***************************************************************************)
(* Mutation of HelloTime: no range.                                        *)
(***************************************************************************)
HelloTimeAsked(asked) == asked

HelloTime(asked) == clamp(asked, 1000, 10000)

(***************************************************************************)
(* Mutation of MaxAge: the hello time in force is not looked at.           *)
(***************************************************************************)
MaxAgeAlone(asked, ht) == clamp(asked, 6000, 40000)

MaxAge(asked, ht) == clamp(asked, caw_max(2 * (ht + 1000), 6000), 40000)

ForwardDelay(asked, ma) == clamp(asked, ma \div 2 + 1000, 30000)

(***************************************************************************)
(* Each time is kept in its range, and in its relation to the one before.  *)
(***************************************************************************)
UpdateBridgeTimers(asked) ==
  LET ht == HelloTime(asked.hello_time)
      ma == MaxAge(asked.max_age, ht)
      fd == ForwardDelay(asked.forward_delay, ma)
  IN  [hello_time |-> ms_to_timer(ht), max_age |-> ms_to_timer(ma),
       forward_delay |-> ms_to_timer(fd)]

Defaults == [hello_time |-> 2000, max_age |-> 20000, forward_delay |-> 15000]

Init ==
  /\ rq = Defaults
  /\ bridge_times = UpdateBridgeTimers(Defaults)
  /\ elapsed_remainder \in FirstRemainders
  /\ started = FALSE
  /\ lead = 0

Request(r) ==
  /\ rq' = r
  /\ bridge_times' = UpdateBridgeTimers(r)
  /\ UNCHANGED <<elapsed_remainder, started, lead>>

SetHelloTime(ms) == Request([rq EXCEPT !.hello_time = ms])

SetMaxAge(ms) == Request([rq EXCEPT !.max_age = ms])

SetForwardDelay(ms) == Request([rq EXCEPT !.forward_delay = ms])

(***************************************************************************)
(* Mutation of Remainder: an STP tick is taken for four milliseconds.      *)
(***************************************************************************)
RemainderOfLongTicks(ms) == Sum32(ms, -4 * ms_to_timer(ms))

(***************************************************************************)
(* The beginning of Tick.                                                  *)
(***************************************************************************)
Remainder(ms) == Sum32(ms, -timer_to_ms(ms_to_timer(ms)))

Tick ==
  LET ms == Sum32(SWITCH_TICK, elapsed_remainder)
  IN  /\ elapsed_remainder' = Remainder(ms)
      /\ started' = TRUE
      /\ lead' = IF started
                 THEN lead + ms_to_timer(ms) - ms_to_timer(SWITCH_TICK)
                 ELSE 0
      /\ UNCHANGED <<rq, bridge_times>>

Next ==
  \/ \E ms \in Requested : \/ SetHelloTime(ms)
                           \/ SetMaxAge(ms)
                           \/ SetForwardDelay(ms)
  \/ Tick

Spec == Init /\ [][Next]_vars

-----------------------------------------------------------------------------
InRelation(t) ==
  /\ t.hello_time \in 256..2560
  /\ t.max_age \in 1536..10240
  /\ t.forward_delay \in 1024..7680
  /\ t.max_age >= 2 * (t.hello_time + 256)
  /\ 2 * (t.forward_delay - 256) >= t.max_age - 2

Requests == [hello_time: Int, max_age: Int, forward_delay: Int]

TypeOK ==
  /\ rq \in Requests
  /\ bridge_times \in [hello_time: Nat, max_age: Nat, forward_delay: Nat]
  /\ elapsed_remainder \in Int32
  /\ started \in BOOLEAN
  /\ lead \in Int

(***************************************************************************)
(* Whatever was asked for, and in whatever order, the times in force are   *)
(* in the ranges of 802.1D, two hellos may be lost before a neighbour's    *)
(* information ages out, and a port that has waited two forward delays has *)
(* outlived what is older than the maximal age, but for two STP ticks of   *)
(* rounding.                                                               *)
(***************************************************************************)
TimesInRelation == InRelation(bridge_times)

(***************************************************************************)
(* Only the first Tick sees what the constructor left in                   *)
(* elapsed_remainder, whatever int that was and however ms_to_timer        *)
(* overflows: all later Ticks together count the time that passes, and are *)
(* never off by more than two STP ticks.                                   *)
(***************************************************************************)
ClockKeepsTime == lead \in -2..1

(***************************************************************************)
(* What the comments of SetMaxAge and SetForwardDelay say of the times in  *)
(* force.                                                                  *)
(***************************************************************************)
ForwardDelayRelation ==
  2 * (bridge_times.forward_delay - 256) >= bridge_times.max_age

-----------------------------------------------------------------------------
(***************************************************************************)
(* What makes ClockKeepsTime inductive: the lead and the milliseconds left *)
(* over go together.  Above the lower 24 bits anything may be left over,   *)
(* for good, but no Tick counts it.                                        *)
(***************************************************************************)
Leftover ==
  LET left == Low24(elapsed_remainder)
  IN  /\ ~started => lead = 0
      /\ started =>
        \/ lead = 0 /\ left \in -4..4
        \/ lead = 1 /\ left = 1
        \/ lead = -1 /\ left \in 1..3
        \/ lead = -2 /\ left = 4
=============================================================================
