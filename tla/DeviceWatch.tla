---------------------------- MODULE DeviceWatch ----------------------------
(***************************************************************************)
(* What kubelet is told of the cards and their health.  Every connection   *)
(* of kubelet starts a ListAndWatch stream: it lists the cards once, sends *)
(* the list, and then, for every heartbeat it receives, asks DCGM for the  *)
(* health and sends the list again.  One goroutine beats; the streams of a *)
(* plugin receive from one unbuffered channel, first come, first served.   *)
(* Nothing ends a stream but a signal that ends the process: when kubelet  *)
(* restarts, the old stream stays and goes on receiving heartbeats.  The   *)
(* cards' memory, too large a number for a list of devices, is patched     *)
(* into the node's status by a goroutine of its own.                       *)
(*                                                                         *)
(* Code: internal/pkg/plugin/plugin.go (ListAndWatchHCUs and its variants, *)
(* watchDevices, refreshDeviceHealth), cmd/main.go (the heartbeat,         *)
(* startHCUMemReporter), internal/pkg/util/util.go (PatchNodeResources).   *)
(* kubelet, DCGM, the cards and the queue of the channel are external.     *)
(***************************************************************************)
EXTENDS Integers, SequencesExt, Functions

CONSTANTS
  Card,
  Stream,      \* calls of ListAndWatch
  NoStream,    \* kubelet is not connected
  MayFail,     \* queries of DCGM, and patches of the node, that may fail
  NoReport,    \* the node has no quantity of memory yet
  MaxFaults,   \* failed queries
  MaxChanges,  \* times that a card falls ill or recovers
  MaxUnplugs   \* cards taken out

ASSUME DeviceWatchAssumption ==
  /\ IsFiniteSet(Card) /\ NoStream \notin Stream
  /\ MayFail \subseteq {"infos", "health", "patch"}
  /\ MaxFaults \in Nat /\ MaxChanges \in Nat /\ MaxUnplugs \in Nat

VARIABLES
  table,    \* DCGM's cards: the card at position i has the index i
  plugged,  \* the cards that are there
  sick,     \* cards that are not healthy
  everSick, \* history: cards that were sick, taken out or renumbered at some time
  pc,       \* pc[s]: what stream s does next
  dvInd,    \* dvInd[s]: its cards and the index each had when it listed them
  devs,     \* devs[s]: its cards and whether it calls them healthy
  conn,     \* the stream kubelet reads
  shown,    \* kubelet's list, a function like devs[s]
  queue,    \* the streams that wait for a heartbeat
  beat,     \* the heartbeat goroutine: "sleep" or "beat"
  mem,      \* the cards whose memory the node's status counts
  faults, changes

hardware == <<table, plugged, sick, everSick>>
streams == <<dvInd, devs>>
kubelet == <<conn, shown>>
vars == <<hardware, pc, streams, kubelet, queue, beat, mem, faults, changes>>

NoCards == <<>>
Goto(s, to) == pc' = [pc EXCEPT ![s] = to]
Fault(kind) == kind \in MayFail /\ faults < MaxFaults /\ faults' = faults + 1

-----------------------------------------------------------------------------
(* The plugin *)

\* The time.Sleep of the heartbeat is over.
Wake ==
  /\ beat = "sleep"
  /\ beat' = "beat"
  /\ UNCHANGED <<hardware, pc, streams, kubelet, queue, mem, faults, changes>>

\* ListAndWatch: GetAllPhysicalDevices, every card healthy at first.
ListDevices(s) ==
  /\ pc[s] = "list"
  /\ dvInd' = [dvInd EXCEPT ![s] = [c \in ToSet(table) |-> CHOOSE i \in DOMAIN table : table[i] = c]]
  /\ devs' = [devs EXCEPT ![s] = [c \in ToSet(table) |-> TRUE]]
  /\ Goto(s, "send")
  /\ UNCHANGED <<hardware, kubelet, queue, beat, mem, faults, changes>>

\* The error is logged, and the stream's list is empty for as long as it lives.
ListFails(s) ==
  /\ pc[s] = "list"
  /\ Fault("infos")
  /\ Goto(s, "send")
  /\ UNCHANGED <<hardware, streams, kubelet, queue, beat, mem, changes>>

\* s.Send, whose error nobody looks at; then wait for a heartbeat.
Send(s) ==
  /\ pc[s] = "send"
  /\ shown' = IF conn = s THEN devs[s] ELSE shown
  /\ queue' = Append(queue, s)
  /\ Goto(s, "wait")
  /\ UNCHANGED <<hardware, streams, conn, beat, mem, faults, changes>>

\* Mutant of Receive: the health check runs in a goroutine of its own, while
\* its stream waits for the next heartbeat.
ReceiveInBackground ==
  /\ beat = "beat" /\ queue # <<>>
  /\ beat' = "sleep"
  /\ Goto(Head(queue), "check")
  /\ queue' = Append(Tail(queue), Head(queue))
  /\ UNCHANGED <<hardware, streams, kubelet, mem, faults, changes>>

\* The channel hands the heartbeat to the stream that has waited longest.
Receive ==
  /\ beat = "beat" /\ queue # <<>>
  /\ beat' = "sleep"
  /\ Goto(Head(queue), "check")
  /\ queue' = Tail(queue)
  /\ UNCHANGED <<hardware, streams, kubelet, mem, faults, changes>>

\* HCUHealthCheck and SimpleHealthCheck: an index DCGM does not know is not healthy.
HealthyAt(i) == i \in DOMAIN table /\ table[i] \in plugged \ sick

\* Mutant of RefreshDeviceHealth: health is only ever taken away.
LoseHealthOnly(s) ==
  /\ pc[s] = "check"
  /\ devs' = [devs EXCEPT ![s] = [c \in DOMAIN @ |-> @[c] /\ HealthyAt(dvInd[s][c])]]
  /\ Goto(s, "send")
  /\ UNCHANGED <<hardware, dvInd, kubelet, queue, beat, mem, faults, changes>>

RefreshDeviceHealth(s) ==
  /\ pc[s] = "check"
  /\ devs' = [devs EXCEPT ![s] = [c \in DOMAIN @ |-> HealthyAt(dvInd[s][c])]]
  /\ Goto(s, "send")
  /\ UNCHANGED <<hardware, dvInd, kubelet, queue, beat, mem, faults, changes>>

\* Mutant of RefreshFails: a failed query counts as an empty answer.
FailUnhealthy(s) ==
  /\ pc[s] = "check"
  /\ Fault("health")
  /\ devs' = [devs EXCEPT ![s] = [c \in DOMAIN @ |-> FALSE]]
  /\ Goto(s, "send")
  /\ UNCHANGED <<hardware, dvInd, kubelet, queue, beat, mem, changes>>

RefreshFails(s) ==
  /\ pc[s] = "check"
  /\ Fault("health")
  /\ Goto(s, "send")
  /\ UNCHANGED <<hardware, streams, kubelet, queue, beat, mem, changes>>

StreamStep(s) == ListDevices(s) \/ ListFails(s) \/ Send(s) \/ RefreshDeviceHealth(s) \/ RefreshFails(s)

-----------------------------------------------------------------------------
(* startHCUMemReporter                                                     *)

PatchNodeResources(cards) ==
  /\ mem' = cards
  /\ UNCHANGED <<hardware, pc, streams, kubelet, queue, beat, changes>>

\* Mutant of Report: one successful report is enough.
ReportOnce ==
  /\ mem = NoReport
  /\ \/ PatchNodeResources(ToSet(table)) /\ UNCHANGED faults
     \/ PatchNodeResources({}) /\ Fault("infos")
     \/ PatchNodeResources(mem) /\ Fault("patch")

\* GetAllPhysicalDevices, where an error leaves nothing to add up, and the
\* patch, again and again.  Only this goroutine writes the quantity: query and
\* patch are one step.
Report ==
  \/ PatchNodeResources(ToSet(table)) /\ UNCHANGED faults
  \/ PatchNodeResources({}) /\ Fault("infos")
  \/ PatchNodeResources(mem) /\ Fault("patch")

-----------------------------------------------------------------------------
(* External *)

Connect(s) ==
  /\ conn = NoStream /\ pc[s] = "off"
  /\ conn' = s
  /\ Goto(s, "list")
  /\ UNCHANGED <<hardware, streams, shown, queue, beat, mem, faults, changes>>

\* kubelet restarts, as long as there is a stream for it to come back to.
Disconnect ==
  /\ conn # NoStream /\ \E s \in Stream : pc[s] = "off"
  /\ conn' = NoStream /\ shown' = NoCards
  /\ UNCHANGED <<hardware, pc, streams, queue, beat, mem, faults, changes>>

ChangeHealth(c) ==
  /\ changes < MaxChanges /\ changes' = changes + 1
  /\ sick' = (sick \ {c}) \cup ({c} \ sick)
  /\ everSick' = everSick \cup {c}
  /\ UNCHANGED <<table, plugged, pc, streams, kubelet, queue, beat, mem, faults>>

Unplug(c) ==
  /\ Cardinality(Card \ plugged) < MaxUnplugs /\ c \in plugged
  /\ plugged' = plugged \ {c}
  /\ everSick' = everSick \cup {c}
  /\ UNCHANGED <<table, sick, pc, streams, kubelet, queue, beat, mem, faults, changes>>

\* ReconcileDCGMDevices opens DCGM again when the numbers differ: the cards
\* that are left are counted from the first index on, in whatever order.
Renumber ==
  /\ Len(table) # Cardinality(plugged)
  /\ table' \in Injection(1 .. Cardinality(plugged), plugged)
  /\ everSick' = everSick \cup {table[i] : i \in {j \in DOMAIN table :
                                j \notin DOMAIN table' \/ table'[j] # table[j]}}
  /\ UNCHANGED <<plugged, sick, pc, streams, kubelet, queue, beat, mem, faults, changes>>

-----------------------------------------------------------------------------
Init ==
  /\ table = SetToSeq(Card) /\ plugged = Card /\ sick = {} /\ everSick = {}
  /\ pc = [s \in Stream |-> "off"]
  /\ dvInd = [s \in Stream |-> NoCards] /\ devs = [s \in Stream |-> NoCards]
  /\ conn = NoStream /\ shown = NoCards
  /\ queue = <<>> /\ beat = "sleep" /\ mem = NoReport
  /\ faults = 0 /\ changes = 0

Next ==
  \/ Wake \/ Receive \/ Report
  \/ \E s \in Stream : StreamStep(s) \/ Connect(s)
  \/ Disconnect
  \/ \E c \in Card : ChangeHealth(c) \/ Unplug(c)
  \/ Renumber

Spec == Init /\ [][Next]_vars

\* Goroutines go on, the heartbeat and the reports do not stop, kubelet comes
\* back.
Fairness ==
  /\ WF_vars(Wake) /\ WF_vars(Receive) /\ WF_vars(Report) /\ WF_vars(Renumber)
  /\ \A s \in Stream : WF_vars(StreamStep(s))
  /\ WF_vars(\E s \in Stream : Connect(s))
FairSpec == Spec /\ Fairness

-----------------------------------------------------------------------------
\* A stream waits in the queue once or not at all: no heartbeat is received
\* by a stream that is busy, none twice, whatever became of its connection.
TypeOK ==
  /\ beat \in {"sleep", "beat"} /\ mem \in (SUBSET Card) \cup {NoReport}
  /\ \A s \in Stream : DOMAIN devs[s] = DOMAIN dvInd[s]
  /\ conn # NoStream => pc[conn] # "off"
  /\ IsInjective(queue) /\ ToSet(queue) = {s \in Stream : pc[s] = "wait"}

\* "A failed query leaves the previous health intact rather than marking the
\* whole node unhealthy": kubelet, through all failures and reconnections, is
\* never told that a card is unhealthy that always was healthy, there, and known
\* under the same index.
NoFalseAlarm == \A c \in DOMAIN shown : shown[c] \/ c \in everSick

\* However many old streams take heartbeats away, and although queries fail,
\* kubelet is finally shown the present health of every card its stream lists,
\* as long as DCGM does not give the cards other indexes.
HealthShown ==
  <>[](table = SetToSeq(Card) => \A c \in DOMAIN shown : shown[c] <=> c \in plugged \ sick)

\* "Patching node status carries the same number as a single quantity"
\* (main.go:69): whatever queries and patches failed, the node's memory finally
\* is that of the cards that are there, after any number were taken out.
MemReported == <>[](mem = plugged)

\* "Whenever a Device state change or a Device disappears, ListAndWatch returns
\* the new list": kubelet is finally shown the cards that are there.
CardsShown == <>[](DOMAIN shown = plugged)

\* The same for the health of a card that was taken out: it is not shown as
\* healthy for ever.
GoneIsNotHealthy == <>[](\A c \in DOMAIN shown : shown[c] => c \in plugged)

\* AllocateHAMiHCUs has the index of a card from the list of a stream: the vHCU
\* is cut out of the card that the scheduler chose.
CutFromChosen ==
  conn # NoStream => \A c \in DOMAIN dvInd[conn] :
    dvInd[conn][c] \in DOMAIN table => table[dvInd[conn][c]] = c

\* "Device health check interval, in seconds": every heartbeat that is received
\* while kubelet's stream waits for one is received by that stream.
EveryBeatChecks ==
  [][Receive /\ conn # NoStream /\ pc[conn] = "wait" => pc'[conn] = "check"]_vars
=============================================================================
