---------------------------- MODULE MCSTPBridge ----------------------------
(***************************************************************************)
(* STPBridge on small instances: a bridge with id 2 between better (1) and *)
(* worse (3) ones.  One tick stands for SWITCH_TICK; as in the program, it *)
(* is longer than the hello and the hold time and shorter than the others. *)
(***************************************************************************)
EXTENDS STPBridge

MCTimes == [max_age |-> 4, hello_time |-> 1, forward_delay |-> 3]

Config(root, cost, from, port, age, times, tca, tc) ==
  [type |-> "config", root |-> root, cost |-> cost, bridge |-> from,
   port |-> port, message_age |-> age, times |-> times,
   tca |-> tca, tc |-> tc]

(***************************************************************************)
(* A neighbour that is the root, one below it, one worse than this bridge, *)
(* and this bridge's own BPDU come back over a shared segment.             *)
(***************************************************************************)
MCConfigBpdus ==
  {Config(1, 0, 1, 1, 0, MCTimes, tca, tc) : tca \in BOOLEAN, tc \in BOOLEAN}
    \cup {Config(1, 1, 3, 1, 3, MCTimes, FALSE, FALSE),
          Config(3, 0, 3, 1, 0, MCTimes, FALSE, FALSE),
          Config(2, 0, 2, 1, 1, MCTimes, FALSE, FALSE)}

MCOtherBpdus == {[type |-> "tcn"], [type |-> "malformed"]}

(***************************************************************************)
(* Fewer BPDUs, and timers that expire at the first tick or the second,    *)
(* where ids, costs, times and the set of enabled ports change too.        *)
(***************************************************************************)
MCFastTimes == [max_age |-> 2, hello_time |-> 1, forward_delay |-> 1]

MCFastBpdus ==
  {Config(1, 0, 1, 1, 0, MCFastTimes, FALSE, TRUE),
   Config(1, 1, 3, 1, 0, MCFastTimes, FALSE, FALSE)}

MCRootBpdu == {Config(1, 0, 1, 1, 0, MCFastTimes, FALSE, TRUE)}

(***************************************************************************)
(* The first Tick may turn the clock back, or count as any other does.     *)
(***************************************************************************)
MCFirstElapsed == {-1, 1}

MCNewTimes == {[max_age |-> 3, hello_time |-> 1, forward_delay |-> 2]}
=============================================================================
