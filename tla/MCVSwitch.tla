----------------------------- MODULE MCVSwitch -----------------------------
(***************************************************************************)
(* VSwitch on small instances.                                             *)
(***************************************************************************)
EXTENDS VSwitch

MCTimes == [max_age |-> 2, hello_time |-> 1, forward_delay |-> 1]

MCRootBpdu ==
  {[type |-> "config", root |-> 1, cost |-> 0, bridge |-> 1, port |-> 1,
    message_age |-> 0, times |-> MCTimes, tca |-> FALSE, tc |-> FALSE]}

MCTcn == {[type |-> "tcn"]}
=============================================================================
