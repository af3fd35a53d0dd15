------------------------ MODULE DeviceWatch_proofs -------------------------
(***************************************************************************)
(* Proofs that kubelet hears no false alarm, and that no stream waits      *)
(* twice, for any number of cards, streams, failures and changes.          *)
(***************************************************************************)
EXTENDS DeviceWatch, FiniteSetTheorems, TLAPS

Lists == UNION {[S -> BOOLEAN] : S \in SUBSET Card}

Types ==
  /\ \A i \in DOMAIN table : table[i] \in Card
  /\ plugged \subseteq Card
  /\ devs \in [Stream -> Lists]
  /\ DOMAIN dvInd = Stream
  /\ \A s \in Stream : DOMAIN devs[s] = DOMAIN dvInd[s]

\* Whatever card never had trouble is there, and healthy.
Sound == \A c \in Card : c \in everSick \/ c \in plugged \ sick

\* A stream calls no card unhealthy that never had trouble, and knows it under
\* the index it still has.
ListSound(s) == \A c \in DOMAIN devs[s] :
  \/ c \in everSick
  \/ /\ devs[s][c]
     /\ dvInd[s][c] \in DOMAIN table /\ table[dvInd[s][c]] = c

IInv == Types /\ Sound /\ (\A s \in Stream : ListSound(s)) /\ NoFalseAlarm

-----------------------------------------------------------------------------
LEMMA NoCardsType == NoCards \in Lists /\ DOMAIN NoCards = {}
<1>1. NoCards \in [{} -> BOOLEAN]
  BY DEF NoCards
<1> QED BY <1>1 DEF Lists

\* A list's domain is a set of cards.
LEMMA ListsDomain ==
  ASSUME NEW f \in Lists
  PROVE  DOMAIN f \subseteq Card
  BY DEF Lists

\* DCGM counts every card at first.
LEMMA TableInit ==
  \A i \in DOMAIN SetToSeq(Card) : SetToSeq(Card)[i] \in Card
<1>1. Cardinality(Card) \in Nat /\ ExistsBijection(1 .. Cardinality(Card), Card)
  BY FS_CardinalityType, DeviceWatchAssumption
<1>2. PICK g \in Bijection(1 .. Cardinality(Card), Card) : TRUE
  BY <1>1 DEF ExistsBijection
<1>3. /\ g \in [1 .. Cardinality(Card) -> Card]
      /\ \A i, j \in 1 .. Cardinality(Card) : i # j => g[i] # g[j]
      /\ \A c \in Card : \E i \in 1 .. Cardinality(Card) : g[i] = c
  BY <1>2 DEF Bijection, Injection, Surjection, IsInjective
<1> QED BY <1>1, <1>3 DEF SetToSeq, IsInjective

LEMMA InitInv == Init => IInv
<1> SUFFICES ASSUME Init PROVE IInv
  OBVIOUS
<1>1. Types
  BY TableInit, NoCardsType DEF Init, Types
<1>2. \A s \in Stream : ListSound(s)
  BY NoCardsType DEF Init, ListSound
<1>3. NoFalseAlarm
  BY NoCardsType DEF Init, NoFalseAlarm
<1> QED BY <1>1, <1>2, <1>3 DEF Init, IInv, Sound

-----------------------------------------------------------------------------
(* The streams                                                             *)

LEMMA ListKeeps ==
  ASSUME IInv, NEW s \in Stream, ListDevices(s)
  PROVE  IInv'
<1> DEFINE index == [c \in ToSet(table) |-> CHOOSE i \in DOMAIN table : table[i] = c]
           list == [c \in ToSet(table) |-> TRUE]
<1>0. /\ dvInd' = [dvInd EXCEPT ![s] = index] /\ devs' = [devs EXCEPT ![s] = list]
      /\ UNCHANGED <<table, plugged, sick, everSick, shown>>
  BY DEF ListDevices, hardware, kubelet
<1>1. ToSet(table) \subseteq Card
  BY DEF IInv, Types, ToSet
<1>2. list \in Lists
  BY <1>1 DEF Lists
<1>3. \A c \in DOMAIN list : list[c] /\ index[c] \in DOMAIN table /\ table[index[c]] = c
  BY DEF ToSet
<1>4. /\ DOMAIN dvInd' = Stream /\ devs' \in [Stream -> Lists]
      /\ devs'[s] = list /\ dvInd'[s] = index
      /\ \A t \in Stream \ {s} : devs'[t] = devs[t] /\ dvInd'[t] = dvInd[t]
  BY <1>0, <1>2 DEF IInv, Types
<1>5. Types'
  BY <1>0, <1>4 DEF IInv, Types
<1>6. \A t \in Stream : ListSound(t)'
  BY <1>0, <1>3, <1>4 DEF IInv, ListSound
<1> QED BY <1>0, <1>5, <1>6 DEF IInv, Sound, NoFalseAlarm

LEMMA SendKeeps ==
  ASSUME IInv, NEW s \in Stream, Send(s)
  PROVE  IInv'
<1>0. /\ shown' = (IF conn = s THEN devs[s] ELSE shown)
      /\ UNCHANGED <<table, plugged, sick, everSick, dvInd, devs>>
  BY DEF Send, hardware, streams
<1>1. NoFalseAlarm'
  BY <1>0 DEF IInv, ListSound, NoFalseAlarm
<1> QED BY <1>0, <1>1 DEF IInv, Types, Sound, ListSound

LEMMA RefreshKeeps ==
  ASSUME IInv, NEW s \in Stream, RefreshDeviceHealth(s)
  PROVE  IInv'
<1> DEFINE list == [c \in DOMAIN devs[s] |-> HealthyAt(dvInd[s][c])]
<1>0. /\ devs' = [devs EXCEPT ![s] = list]
      /\ UNCHANGED <<table, plugged, sick, everSick, dvInd, shown>>
  BY DEF RefreshDeviceHealth, hardware, kubelet, IInv, Types
<1>1. DOMAIN devs[s] \subseteq Card
  BY ListsDomain DEF IInv, Types
<1>2. \A i : HealthyAt(i) \in BOOLEAN
  BY DEF HealthyAt
<1>3. list \in Lists
  BY <1>1, <1>2 DEF Lists
<1>4. ASSUME NEW c \in DOMAIN list, c \notin everSick
      PROVE  list[c]
  <2>1. c \in Card /\ c \in DOMAIN devs[s]
    BY <1>1
  <2>2. c \in plugged \ sick /\ dvInd[s][c] \in DOMAIN table /\ table[dvInd[s][c]] = c
    BY <1>4, <2>1 DEF IInv, Sound, ListSound
  <2>3. HealthyAt(dvInd[s][c])
    BY <2>2 DEF HealthyAt
  <2> QED BY <2>1, <2>3
<1>5. /\ devs' \in [Stream -> Lists] /\ devs'[s] = list
      /\ \A t \in Stream \ {s} : devs'[t] = devs[t]
  BY <1>0, <1>3 DEF IInv, Types
<1>6. Types'
  BY <1>0, <1>5 DEF IInv, Types
<1>7. \A t \in Stream : ListSound(t)'
  BY <1>0, <1>4, <1>5 DEF IInv, ListSound
<1> QED BY <1>0, <1>6, <1>7 DEF IInv, Sound, NoFalseAlarm

-----------------------------------------------------------------------------
(* The cards                                                               *)

\* More cards had trouble; kubelet's list and the streams are as they were.
LEMMA TroubleKeeps ==
  ASSUME IInv, everSick \subseteq everSick',
         UNCHANGED <<table, dvInd, devs, shown>>, plugged' \subseteq plugged, Sound'
  PROVE  IInv'
<1>1. Types'
  BY DEF IInv, Types
<1>2. \A s \in Stream : ListSound(s)'
  BY DEF IInv, ListSound
<1>3. NoFalseAlarm'
  BY DEF IInv, NoFalseAlarm
<1> QED BY <1>1, <1>2, <1>3 DEF IInv

LEMMA ChangeHealthKeeps ==
  ASSUME IInv, NEW c \in Card, ChangeHealth(c)
  PROVE  IInv'
<1>1. Sound'
  BY DEF IInv, Sound, ChangeHealth
<1> QED BY <1>1, TroubleKeeps DEF ChangeHealth, streams, kubelet

LEMMA UnplugKeeps ==
  ASSUME IInv, NEW c \in Card, Unplug(c)
  PROVE  IInv'
<1>1. Sound'
  BY DEF IInv, Sound, Unplug
<1> QED BY <1>1, TroubleKeeps DEF Unplug, streams, kubelet

LEMMA RenumberKeeps ==
  ASSUME IInv, Renumber
  PROVE  IInv'
<1>0. UNCHANGED <<plugged, sick, dvInd, devs, shown>>
  BY DEF Renumber, streams, kubelet
<1>1. \A i \in DOMAIN table' : table'[i] \in Card
  BY DEF IInv, Types, Renumber, Injection
<1>2. everSick \subseteq everSick'
  BY DEF Renumber
<1>3. \A i \in DOMAIN table : table[i] \in everSick' \/ (i \in DOMAIN table' /\ table'[i] = table[i])
  BY DEF Renumber
<1>4. Types'
  BY <1>0, <1>1 DEF IInv, Types
<1>5. \A s \in Stream : ListSound(s)'
  BY <1>0, <1>2, <1>3 DEF IInv, ListSound
<1> QED BY <1>0, <1>2, <1>4, <1>5 DEF IInv, Sound, NoFalseAlarm

-----------------------------------------------------------------------------
\* What goes on between the streams, the heartbeat and kubelet is no news.
LEMMA OtherwiseKeeps ==
  ASSUME IInv, UNCHANGED <<table, plugged, sick, everSick, dvInd, devs>>,
         shown' = shown \/ shown' = NoCards
  PROVE  IInv'
<1>1. NoFalseAlarm'
  BY NoCardsType DEF IInv, NoFalseAlarm
<1> QED BY <1>1 DEF IInv, Types, Sound, ListSound

LEMMA NextKeeps == IInv /\ [Next]_vars => IInv'
<1> SUFFICES ASSUME IInv, [Next]_vars PROVE IInv'
  OBVIOUS
<1> USE OtherwiseKeeps DEF hardware, streams, kubelet
<1>1. CASE UNCHANGED vars
  BY <1>1 DEF vars
<1>2. CASE Wake \/ Receive
  BY <1>2 DEF Wake, Receive
<1>3. CASE Report
  BY <1>3 DEF Report, PatchNodeResources
<1>4. ASSUME NEW s \in Stream, StreamStep(s) PROVE IInv'
  <2>1. CASE ListFails(s) \/ RefreshFails(s)
    BY <2>1 DEF ListFails, RefreshFails
  <2> QED BY <1>4, <2>1, ListKeeps, SendKeeps, RefreshKeeps DEF StreamStep
<1>5. ASSUME NEW s \in Stream, Connect(s) PROVE IInv'
  BY <1>5 DEF Connect
<1>6. CASE Disconnect
  BY <1>6 DEF Disconnect
<1>7. ASSUME NEW c \in Card, ChangeHealth(c) \/ Unplug(c) PROVE IInv'
  BY <1>7, ChangeHealthKeeps, UnplugKeeps
<1>8. CASE Renumber
  BY <1>8, RenumberKeeps
<1> QED BY <1>1, <1>2, <1>3, <1>4, <1>5, <1>6, <1>7, <1>8 DEF Next

\* kubelet is never told that a card is unhealthy that always was healthy,
\* there, and known under the same index, whatever queries fail and however
\* often it reconnects (refreshDeviceHealth leaves a stream's list as it is when
\* a query fails, plugin.go).
THEOREM NoFalseAlarmCorrect == Spec => []NoFalseAlarm
<1>1. IInv => NoFalseAlarm
  BY DEF IInv
<1> QED BY <1>1, InitInv, NextKeeps, PTL DEF Spec

-----------------------------------------------------------------------------
(* Types, and the queue of the channel                                     *)

Places == {"off", "list", "send", "wait", "check"}
Waiting == {s \in Stream : pc[s] = "wait"}

QInv ==
  /\ pc \in [Stream -> Places]
  /\ conn \in Stream \cup {NoStream}
  /\ conn # NoStream => pc[conn] # "off"
  /\ beat \in {"sleep", "beat"} /\ mem \in (SUBSET Card) \cup {NoReport}
  /\ queue \in Seq(Stream) /\ IsInjective(queue) /\ ToSet(queue) = Waiting

LEMMA InitQueue == Init => QInv
  BY DEF Init, QInv, Places, Waiting, IsInjective, ToSet

\* A stream that does not wait gets in line.
LEMMA AppendKeeps ==
  ASSUME NEW q \in Seq(Stream), IsInjective(q), NEW s \in Stream \ ToSet(q)
  PROVE  /\ Append(q, s) \in Seq(Stream) /\ IsInjective(Append(q, s))
         /\ ToSet(Append(q, s)) = ToSet(q) \cup {s}
<1>1. /\ DOMAIN Append(q, s) = 1 .. Len(q) + 1 /\ DOMAIN q = 1 .. Len(q)
      /\ \A i \in 1 .. Len(q) : Append(q, s)[i] = q[i]
      /\ Append(q, s)[Len(q) + 1] = s /\ Len(q) \in Nat
  OBVIOUS
<1>2. \A i \in 1 .. Len(q) : q[i] # s
  BY <1>1 DEF ToSet
<1>3. IsInjective(Append(q, s))
  BY <1>1, <1>2 DEF IsInjective
<1>4. ToSet(Append(q, s)) = ToSet(q) \cup {s}
  BY <1>1 DEF ToSet
<1> QED BY <1>3, <1>4

\* The first of the line goes.
LEMMA TailKeeps ==
  ASSUME NEW q \in Seq(Stream), q # <<>>, IsInjective(q)
  PROVE  /\ Head(q) \in Stream /\ Tail(q) \in Seq(Stream) /\ IsInjective(Tail(q))
         /\ ToSet(Tail(q)) = ToSet(q) \ {Head(q)}
<1>1. /\ DOMAIN q = 1 .. Len(q) /\ Len(q) \in Nat \ {0} /\ Head(q) = q[1]
      /\ DOMAIN Tail(q) = 1 .. Len(q) - 1
      /\ \A i \in 1 .. Len(q) - 1 : Tail(q)[i] = q[i + 1]
  OBVIOUS
<1>2. IsInjective(Tail(q))
  BY <1>1 DEF IsInjective
<1>3. ToSet(Tail(q)) \subseteq ToSet(q) \ {Head(q)}
  BY <1>1 DEF IsInjective, ToSet
<1>4. ASSUME NEW s \in ToSet(q), s # Head(q)
      PROVE  s \in ToSet(Tail(q))
  <2>1. PICK i \in 1 .. Len(q) : q[i] = s
    BY <1>1 DEF ToSet
  <2>2. i - 1 \in 1 .. Len(q) - 1 /\ Tail(q)[i - 1] = s
    BY <1>1, <1>4, <2>1
  <2> QED BY <1>1, <2>2 DEF ToSet
<1>5. Head(q) \in Stream /\ Tail(q) \in Seq(Stream)
  BY <1>1
<1> QED BY <1>2, <1>3, <1>4, <1>5

\* A stream that neither begins nor ends to wait moves on.
LEMMA MoveKeeps ==
  ASSUME QInv, NEW s \in Stream, pc[s] # "wait",
         NEW to \in Places \ {"off", "wait"}, Goto(s, to),
         UNCHANGED <<beat, mem, queue>>, conn' \in {conn, s}
  PROVE  QInv'
<1>1. pc' \in [Stream -> Places] /\ Waiting' = Waiting
  BY DEF QInv, Goto, Waiting
<1>2. conn' # NoStream => pc'[conn'] # "off"
  BY DEF QInv, Goto
<1> QED BY <1>1, <1>2 DEF QInv

LEMMA SendQueues ==
  ASSUME QInv, NEW s \in Stream, Send(s)
  PROVE  QInv'
<1>1. s \notin ToSet(queue)
  BY DEF QInv, Send, Waiting
<1>2. pc' \in [Stream -> Places] /\ Waiting' = Waiting \cup {s}
  BY DEF QInv, Send, Goto, Waiting, Places
<1>3. /\ queue' \in Seq(Stream) /\ IsInjective(queue')
      /\ ToSet(queue') = ToSet(queue) \cup {s}
  BY <1>1, AppendKeeps DEF QInv, Send
<1>4. conn' # NoStream => pc'[conn'] # "off"
  BY DEF QInv, Send, Goto
<1> QED BY <1>2, <1>3, <1>4 DEF QInv, Send

LEMMA ReceiveQueues ==
  ASSUME QInv, Receive
  PROVE  QInv'
<1>1. /\ Head(queue) \in Stream
      /\ queue' \in Seq(Stream) /\ IsInjective(queue')
      /\ ToSet(queue') = ToSet(queue) \ {Head(queue)}
  BY TailKeeps DEF QInv, Receive
<1>2. pc' \in [Stream -> Places] /\ Waiting' = Waiting \ {Head(queue)}
  BY <1>1 DEF QInv, Receive, Goto, Waiting, Places
<1>3. conn' # NoStream => pc'[conn'] # "off"
  BY <1>1 DEF QInv, Receive, Goto, kubelet
<1> QED BY <1>1, <1>2, <1>3 DEF QInv, Receive, kubelet

LEMMA NextQueues == IInv /\ QInv /\ [Next]_vars => QInv'
<1> SUFFICES ASSUME IInv, QInv, [Next]_vars PROVE QInv'
  OBVIOUS
<1> USE DEF kubelet
<1>1. CASE UNCHANGED <<pc, conn, queue>> /\ (UNCHANGED beat \/ beat' = "beat")
           /\ mem' \in (SUBSET Card) \cup {NoReport}
  BY <1>1 DEF QInv, Waiting
<1>2. CASE Wake
  BY <1>1, <1>2 DEF Wake, QInv
<1>3. CASE Report
  <2>1. ToSet(table) \subseteq Card
    BY DEF IInv, Types, ToSet
  <2> QED BY <1>1, <1>3, <2>1 DEF Report, PatchNodeResources, QInv
<1>4. ASSUME NEW s \in Stream, StreamStep(s) \/ Connect(s) PROVE QInv'
  <2>1. CASE ListDevices(s) \/ ListFails(s) \/ RefreshDeviceHealth(s) \/ RefreshFails(s)
    BY <2>1, MoveKeeps DEF ListDevices, ListFails, RefreshDeviceHealth, RefreshFails, Places
  <2>2. CASE Connect(s)
    BY <2>2, MoveKeeps DEF Connect, Places
  <2> QED BY <1>4, <2>1, <2>2, SendQueues DEF StreamStep
<1>5. CASE Disconnect
  BY <1>5 DEF Disconnect, QInv, Waiting
<1>6. CASE (\E c \in Card : ChangeHealth(c) \/ Unplug(c)) \/ Renumber \/ UNCHANGED vars
  BY <1>1, <1>6 DEF ChangeHealth, Unplug, Renumber, vars, QInv
<1> QED BY <1>2, <1>3, <1>4, <1>5, <1>6, ReceiveQueues DEF Next

\* A stream waits for a heartbeat once or not at all, also when its connection
\* is long lost (watchDevices, plugin.go); the node's memory is that of some of
\* the cards.
THEOREM TypeCorrect == Spec => []TypeOK
<1>1. IInv /\ QInv => TypeOK
  BY DEF IInv, Types, QInv, Waiting, TypeOK
<1> QED BY <1>1, InitInv, NextKeeps, InitQueue, NextQueues, PTL DEF Spec
=============================================================================
