--------------------------- MODULE MCBridgeTimers ---------------------------
(***************************************************************************)
(* BridgeTimers with requests below, at, between and above the limits, odd *)
(* and even, and remainders of every residue around zero elapsed ticks, at *)
(* both ends of an int and where ms_to_timer begins to overflow.           *)
(***************************************************************************)
EXTENDS BridgeTimers

MCRequested == {-5000, 1001, 6047, 9999, 15001, 50000}

MCRemainders ==
  -3009..-2991 \cup -8..8 \cup 8388607 - 3002..8388607 - 2999
    \cup {-MaxInt - 1, -8388611, 16777214, 16777219, 2130703356, MaxInt - 3000, MaxInt}
=============================================================================
