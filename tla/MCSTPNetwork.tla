--------------------------- MODULE MCSTPNetwork ----------------------------
(***************************************************************************)
(* STPNetwork with three hosts and a session for each pair.                *)
(***************************************************************************)
EXTENDS STPNetwork

(***************************************************************************)
(* The shortest times, in STP ticks, that the setters grant for a maximal  *)
(* age of 8 s.                                                             *)
(***************************************************************************)
MCTimes == [max_age |-> 2048, hello_time |-> 512, forward_delay |-> 1280]

MCTriangle == Pairs

(***************************************************************************)
(* The ends the roles of the tree tell apart: a root port, a port of the   *)
(* root, and both ends of the link that is not in the tree.                *)
(***************************************************************************)
MCLeaving == {<<2, 1>>, <<1, 3>>, <<2, 3>>, <<3, 2>>}

MCRootFirst == {<<1, 2, 3>>}
=============================================================================
