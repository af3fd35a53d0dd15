---------------------- MODULE TopologyConfigMap_proofs ----------------------
(***************************************************************************)
(* TopologyConfigMap implements TopologyBoard, for any nodes, goroutines   *)
(* and bounds.                                                             *)
(***************************************************************************)
EXTENDS TopologyConfigMap, TLAPS

Version == 0 .. MaxVersion
Entries == [Node -> Version \cup {NoEntry}]

\* What a board reader sees is an entry or none for every node.
LEMMA EntryType ==
  ASSUME TypeOK
  PROVE  Entry \in Entries
BY DEF TypeOK, Entry, Entries, Empty, Version

\* Writing one's own entry into what the readers see is a Publish step of the
\* board, because the written topology is not newer than the node's.
LEMMA OneEntry ==
  ASSUME TypeOK, NEW t \in Loop, UNCHANGED topo,
         Entry' = [Entry EXCEPT ![NodeOf[t]] = data[t]]
  PROVE  Board!Publish(NodeOf[t])
<1>1. NodeOf[t] \in Node
  BY TopologyAssumption
<1>2. data[t] \in 0 .. topo[NodeOf[t]]
  BY <1>1, TopologyAssumption DEF TypeOK
<1> QED
  BY <1>2 DEF Board!Publish

\* The two calls that write leave the readers with just that change.
LEMMA Writes ==
  ASSUME TypeOK, NEW t \in Loop,
         \/ cm # NoMap /\ SetEntry(t)
         \/ cm = NoMap /\ NewMap(t)
  PROVE  /\ Entry' = [Entry EXCEPT ![NodeOf[t]] = data[t]]
         /\ cm' \in Entries
<1> USE TopologyAssumption
<1>1. NodeOf[t] \in Node /\ data[t] \in Version
  BY DEF TypeOK, Version
<1>2. Entry \in Entries
  BY EntryType
<1>3. cm' = [Entry EXCEPT ![NodeOf[t]] = data[t]]
  BY DEF SetEntry, NewMap, Entry
<1>4. cm' \in Entries
  BY <1>1, <1>2, <1>3 DEF Entries
<1>5. cm' # NoMap
  BY <1>4 DEF Entries, Version
<1> QED
  BY <1>3, <1>4, <1>5 DEF Entry

\* Every call either leaves the map alone or writes its own entry.
LEMMA Calls ==
  ASSUME TypeOK, NEW t \in Loop, Update(t) \/ CallFails(t)
  PROVE  /\ UNCHANGED topo
         /\ UNCHANGED cm \/ (cm # NoMap /\ SetEntry(t)) \/ (cm = NoMap /\ NewMap(t))
BY DEF Update, Discover, Patch, Create, PatchAgain, CallFails

\* Every step keeps the types, and a topology that is carried stays old enough.
LEMMA StepKeepsType ==
  TypeOK /\ [Next]_vars => TypeOK'
<1> SUFFICES ASSUME TypeOK, [Next]_vars
             PROVE  TypeOK'
  OBVIOUS
<1> USE TopologyAssumption
<1>1. ASSUME NEW t \in Loop, Update(t) \/ CallFails(t)
      PROVE  TypeOK'
  <2>1. UNCHANGED topo
    BY <1>1, Calls
  <2>2. cm' \in Entries \cup {NoMap}
    BY <1>1, Calls, Writes DEF TypeOK, Entries, Version
  <2>3. pc' \in [Loop -> {"idle", "patch", "create", "repatch"}]
    BY <1>1 DEF TypeOK, Update, Discover, Patch, Create, PatchAgain, CallFails, Goto
  <2>4. /\ data' \in [Loop -> Version]
        /\ \A u \in Loop : data'[u] <= topo'[NodeOf[u]]
    <3>1. CASE Discover(t)
      BY <3>1 DEF TypeOK, Discover, Version
    <3>2. CASE ~Discover(t)
      BY <1>1, <3>2 DEF TypeOK, Update, Patch, Create, PatchAgain, CallFails, Version
    <3> QED
      BY <3>1, <3>2
  <2>5. faults' \in 0 .. MaxFaults
    BY <1>1 DEF TypeOK, Update, Discover, Patch, Create, PatchAgain, CallFails, Fault
  <2> QED
    BY <2>1, <2>2, <2>3, <2>4, <2>5 DEF TypeOK, Entries, Version
<1>2. ASSUME NEW n \in Node, Rewire(n)
      PROVE  TypeOK'
  BY <1>2 DEF TypeOK, Rewire
<1>3. CASE DeleteMap
  BY <1>3 DEF TypeOK, DeleteMap, Fault
<1>4. CASE UNCHANGED vars
  BY <1>4 DEF TypeOK, vars
<1> QED
  BY <1>1, <1>2, <1>3, <1>4 DEF Next

\* TypeOK holds in every reachable state.
THEOREM TypeCorrect == Spec => []TypeOK
<1>1. Init => TypeOK
  BY TopologyAssumption DEF Init, TypeOK
<1> QED
  BY <1>1, StepKeepsType, PTL DEF Spec

\* Every step of the plugins is a step of the board, or none.
LEMMA StepImplements ==
  TypeOK /\ [Next]_vars => [Board!Next]_<<topo, Entry>>
<1> SUFFICES ASSUME TypeOK, [Next]_vars
             PROVE  [Board!Next]_<<topo, Entry>>
  OBVIOUS
<1>1. ASSUME NEW t \in Loop, Update(t) \/ CallFails(t)
      PROVE  [Board!Next]_<<topo, Entry>>
  <2>1. UNCHANGED topo
    BY <1>1, Calls
  <2>2. CASE UNCHANGED cm
    BY <2>1, <2>2 DEF Entry
  <2>3. CASE (cm # NoMap /\ SetEntry(t)) \/ (cm = NoMap /\ NewMap(t))
    <3>1. Board!Publish(NodeOf[t])
      BY <2>1, <2>3, Writes, OneEntry
    <3>2. NodeOf[t] \in Node
      BY TopologyAssumption
    <3> QED
      BY <3>1, <3>2 DEF Board!Next
  <2> QED
    BY <1>1, <2>2, <2>3, Calls
<1>2. ASSUME NEW n \in Node, Rewire(n)
      PROVE  Board!Next
  BY <1>2 DEF Rewire, Entry, Board!Next, Board!Rewire
<1>3. CASE DeleteMap
  BY <1>3 DEF DeleteMap, Entry, Empty, Board!Next, Board!Clear
<1>4. CASE UNCHANGED vars
  BY <1>4 DEF vars, Entry
<1> QED
  BY <1>1, <1>2, <1>3, <1>4 DEF Next

\* The patches and creations of all nodes, interleaved and failing as they may,
\* implement a board on which each node writes its own entry atomically.
THEOREM BoardImplemented == Spec => BoardSpec
<1>1. Init => Board!Init
  BY DEF Init, Board!Init, Entry, Empty
<1> QED
  BY <1>1, StepImplements, TypeCorrect, PTL DEF Spec, BoardSpec, Board!Spec

=============================================================================
