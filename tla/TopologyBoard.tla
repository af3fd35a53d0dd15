--------------------------- MODULE TopologyBoard ---------------------------
(***************************************************************************)
(* What the topology ConfigMap promises to its readers: one entry per      *)
(* node, written by that node alone and with a topology it really had.     *)
(***************************************************************************)
EXTENDS Integers

CONSTANTS Node, MaxVersion, NoEntry

VARIABLES
  topo,  \* topo[n]: how often the interconnect of node n changed
  board  \* board[n]: the version its entry shows

Init == topo = [n \in Node |-> 0] /\ board = [n \in Node |-> NoEntry]

Rewire(n) ==
  /\ topo[n] < MaxVersion
  /\ topo' = [topo EXCEPT ![n] = @ + 1]
  /\ UNCHANGED board

Publish(n) ==
  /\ \E v \in 0 .. topo[n] : board' = [board EXCEPT ![n] = v]
  /\ UNCHANGED topo

\* An administrator deletes the ConfigMap.
Clear == board' = [n \in Node |-> NoEntry] /\ UNCHANGED topo

Next == (\E n \in Node : Rewire(n) \/ Publish(n)) \/ Clear

Spec == Init /\ [][Next]_<<topo, board>>
=============================================================================
