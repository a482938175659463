--------------------------- MODULE LearningSwitch ---------------------------
(***************************************************************************)
(* What a learning switch promises to the sinks attached to it: a frame    *)
(* never returns to the sink it came from, reaches only sinks that are in  *)
(* the tree, and reaches just the one behind which its destination was     *)
(* last heard, when there is one.  Why sinks join or leave the tree, and   *)
(* when addresses are forgotten, is left open here; VSwitch says it.       *)
(***************************************************************************)
CONSTANTS Sinks, Macs, Group, Nowhere, NoFrame

VARIABLES
  attached,  \* the sinks of the switch
  open,      \* the sinks that are in the tree: frames pass through them
  place,     \* the sink behind which an address was last heard
  frame      \* what became of the frame that came in last

vars == <<attached, open, place, frame>>

Init ==
  /\ attached = {} /\ open = {}
  /\ place = [m \in Macs |-> Nowhere]
  /\ frame = NoFrame

(***************************************************************************)
(* The table after some addresses have been forgotten.                     *)
(***************************************************************************)
Forgetting(table) ==
  \A m \in Macs : place'[m] \in {table[m], Nowhere}

Attach(s) ==
  /\ s \notin attached
  /\ attached' = attached \cup {s}
  /\ frame' = NoFrame /\ UNCHANGED <<open, place>>

Detach(s) ==
  /\ s \in attached
  /\ attached' = attached \ {s} /\ open' = open \ {s}
  /\ place' = [m \in Macs |-> IF place[m] = s THEN Nowhere ELSE place[m]]
  /\ frame' = NoFrame

Change ==
  /\ open' \subseteq attached /\ Forgetting(place)
  /\ frame' = NoFrame /\ UNCHANGED attached

(***************************************************************************)
(* The sinks a frame from s to dst must reach.                             *)
(***************************************************************************)
Targets(s, dst, table) ==
  IF dst \in Macs /\ table[dst] # Nowhere
  THEN (open \cap {table[dst]}) \ {s}
  ELSE open \ {s}

Learnt(s, src) ==
  IF src \in Macs THEN [place EXCEPT ![src] = s] ELSE place

Relay(s, src, dst) ==
  /\ s \in open
  /\ place' = Learnt(s, src)
  /\ frame' = [from |-> s, dst |-> dst, to |-> Targets(s, dst, place')]
  /\ UNCHANGED <<attached, open>>

Drop(s, src, dst) ==
  /\ s \in attached \ open
  /\ place' \in {place, Learnt(s, src)}
  /\ frame' = [from |-> s, dst |-> dst, to |-> {}]
  /\ UNCHANGED <<attached, open>>

Next ==
  \/ \E s \in Sinks : Attach(s) \/ Detach(s)
  \/ \E s \in Sinks, src, dst \in Macs \cup {Group} :
       Relay(s, src, dst) \/ Drop(s, src, dst)
  \/ Change

Spec == Init /\ [][Next]_vars
=============================================================================
