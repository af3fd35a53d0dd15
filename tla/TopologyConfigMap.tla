------------------------- MODULE TopologyConfigMap -------------------------
(***************************************************************************)
(* The plugins of all nodes keep the topology of their cards in one        *)
(* ConfigMap of the cluster.  Each patches its own entry, creates the map  *)
(* when there is none, and patches again when another node was faster.     *)
(*                                                                         *)
(* Code: internal/pkg/plugin/register.go (UpdateTopologyConfigMap, called  *)
(* by WatchAndRegister).  The API server is external.                      *)
(***************************************************************************)
EXTENDS Integers

CONSTANTS
  Node,
  Loop,       \* WatchAndRegister goroutines of all nodes
  NodeOf,     \* [Loop -> Node]
  MaxVersion, \* changes of a node's interconnect
  NoEntry,    \* the map has no entry for a node
  NoMap,      \* there is no ConfigMap
  MaxFaults   \* failed calls and deletions of the map

ASSUME TopologyAssumption ==
  /\ NodeOf \in [Loop -> Node]
  /\ MaxVersion \in Nat /\ MaxFaults \in Nat
  /\ NoEntry \notin Nat
  /\ NoMap \notin [Node -> (0 .. MaxVersion) \cup {NoEntry}]

VARIABLES
  topo,   \* topo[n]: version of the interconnect of node n
  cm,     \* the ConfigMap's data, or NoMap
  pc,     \* pc[t]: the next call of goroutine t
  data,   \* data[t]: the topology it discovered
  faults

vars == <<topo, cm, pc, data, faults>>

Empty == [n \in Node |-> NoEntry]
Goto(t, to) == pc' = [pc EXCEPT ![t] = to]
Fault == faults < MaxFaults /\ faults' = faults + 1

\* dcgm.DiscoverInterconnectTopology
Discover(t) ==
  /\ pc[t] = "idle"
  /\ data' = [data EXCEPT ![t] = topo[NodeOf[t]]]
  /\ Goto(t, "patch")
  /\ UNCHANGED <<topo, cm, faults>>

\* The merge patch names one key only.
SetEntry(t) == cm' = [cm EXCEPT ![NodeOf[t]] = data[t]]

\* Mutant of Patch: a map that is not there is left to somebody else.
PatchNoCreate(t) ==
  /\ pc[t] = "patch"
  /\ IF cm = NoMap THEN UNCHANGED cm ELSE SetEntry(t)
  /\ Goto(t, "idle")
  /\ UNCHANGED <<topo, data, faults>>

Patch(t) ==
  /\ pc[t] = "patch"
  /\ IF cm = NoMap THEN UNCHANGED cm /\ Goto(t, "create") ELSE SetEntry(t) /\ Goto(t, "idle")
  /\ UNCHANGED <<topo, data, faults>>

\* Mutant of Create: AlreadyExists is not told apart, the map is replaced.
CreateOrReplace(t) ==
  /\ pc[t] = "create"
  /\ cm' = [Empty EXCEPT ![NodeOf[t]] = data[t]]
  /\ Goto(t, "idle")
  /\ UNCHANGED <<topo, data, faults>>

NewMap(t) == cm' = [Empty EXCEPT ![NodeOf[t]] = data[t]]

Create(t) ==
  /\ pc[t] = "create"
  /\ IF cm = NoMap
       THEN NewMap(t) /\ Goto(t, "idle")
       ELSE UNCHANGED cm /\ Goto(t, "repatch")
  /\ UNCHANGED <<topo, data, faults>>

\* The last attempt: NotFound is an error here.
PatchAgain(t) ==
  /\ pc[t] = "repatch"
  /\ IF cm = NoMap THEN UNCHANGED cm ELSE SetEntry(t)
  /\ Goto(t, "idle")
  /\ UNCHANGED <<topo, data, faults>>

\* Any other error ends the update, applied or not; the loop starts again later.
CallFails(t) ==
  /\ pc[t] # "idle"
  /\ Fault
  /\ \/ UNCHANGED cm
     \/ pc[t] \in {"patch", "repatch"} /\ cm # NoMap /\ SetEntry(t)
     \/ pc[t] = "create" /\ cm = NoMap /\ NewMap(t)
  /\ Goto(t, "idle")
  /\ UNCHANGED <<topo, data>>

Update(t) == Discover(t) \/ Patch(t) \/ Create(t) \/ PatchAgain(t)

\* External: a card or a link is added; an administrator deletes the map.
Rewire(n) ==
  /\ topo[n] < MaxVersion
  /\ topo' = [topo EXCEPT ![n] = @ + 1]
  /\ UNCHANGED <<cm, pc, data, faults>>
DeleteMap ==
  /\ cm # NoMap
  /\ Fault
  /\ cm' = NoMap
  /\ UNCHANGED <<topo, pc, data>>

Init ==
  /\ topo = [n \in Node |-> 0]
  /\ cm = NoMap
  /\ pc = [t \in Loop |-> "idle"]
  /\ data = [t \in Loop |-> 0]
  /\ faults = 0

Next ==
  \/ \E t \in Loop : Update(t) \/ CallFails(t)
  \/ \E n \in Node : Rewire(n)
  \/ DeleteMap

Spec == Init /\ [][Next]_vars

\* WatchAndRegister loops for ever.
FairSpec == Spec /\ \A t \in Loop : WF_vars(Update(t))

-----------------------------------------------------------------------------
Entry == IF cm = NoMap THEN Empty ELSE cm

\* Shapes of the variables; no goroutine carries a topology that is newer than
\* the node's.
TypeOK ==
  /\ topo \in [Node -> 0 .. MaxVersion]
  /\ cm \in [Node -> (0 .. MaxVersion) \cup {NoEntry}] \cup {NoMap}
  /\ pc \in [Loop -> {"idle", "patch", "create", "repatch"}]
  /\ data \in [Loop -> 0 .. MaxVersion]
  /\ \A t \in Loop : data[t] <= topo[NodeOf[t]]
  /\ faults \in 0 .. MaxFaults

\* The three calls of an update, however they interleave with those of other
\* nodes, are one write of one's own entry: no node undoes another's, and a
\* creation never replaces a map that another node filled meanwhile.
Board == INSTANCE TopologyBoard WITH board <- Entry
BoardSpec == Board!Spec

\* When interconnects and map are left alone, the map comes to show the
\* topology of every node that runs a register loop, and keeps showing it.
AllPublished == <>[](\A t \in Loop : Entry[NodeOf[t]] = topo[NodeOf[t]])

=============================================================================
