----------------------- MODULE StaticDevices_proofs -----------------------
(***************************************************************************)
(* Proofs of the invariants of the static strategies, for any number of    *)
(* cards, parts, profiles, streams and upsets.                             *)
(***************************************************************************)
EXTENDS StaticDevices, TLAPS

Device == Card \cup Part
Listing == UNION {[S -> Card] : S \in SUBSET Device}
Places == {"off", "list", "store", "send", "watch", "ended"}

Types ==
  /\ part \in [Part -> Carving \cup {Nothing}]
  /\ resources \subseteq Res /\ (phase = "whole" => resources = {})
  /\ pc \in [Res -> [Stream -> Places]]
  /\ listed \in [Res -> [Stream -> Listing]]
  /\ map \in [Res -> Listing]
  /\ conn \in [Res -> {0} \cup Stream]
  /\ shown \in [Res -> SUBSET Device]
  /\ DOMAIN held \subseteq Res \X Device
  /\ late \subseteq Device /\ stale \subseteq Res /\ overtaken \subseteq Res

\* Streams begin in the order of their numbers, kubelet reads the last one that
\* began, and what it was shown is what that one listed.
Order(r) ==
  /\ \A k, l \in Stream : k < l /\ pc[r][k] = "off" => pc[r][l] = "off"
  /\ conn[r] # 0 => /\ r \in resources
                    /\ pc[r][conn[r]] # "off"
                    /\ \A l \in Stream : l > conn[r] => pc[r][l] = "off"
  /\ shown[r] # {} => /\ conn[r] # 0 /\ pc[r][conn[r]] = "watch"
                      /\ shown[r] = DOMAIN listed[r][conn[r]]

\* What kubelet's stream stored is what it sends, unless it was overtaken.
Mapped(r) ==
  conn[r] # 0 /\ pc[r][conn[r]] \in {"send", "watch"}
    => map[r] = listed[r][conn[r]] \/ r \in overtaken

IInv == Types /\ \A r \in Res : Order(r) /\ Mapped(r)

-----------------------------------------------------------------------------
(* Types                                                                   *)

LEMMA StreamNats == Stream \subseteq Nat /\ 0 \notin Stream /\ 1 \in Stream
  BY StaticAssumption DEF Stream

\* What a query of the cards or the parts returns.
LEMMA DevicesType ==
  ASSUME Types, NEW r \in Res
  PROVE  Devices(r) \in Listing
<1>1. CASE r = Whole
  <2>1. Devices(r) \in [{d \in Card : strategy = "mixed" => OnCard(d) = {}} -> Card]
    BY <1>1 DEF Devices
  <2> QED BY <2>1 DEF Listing, Device
<1>2. CASE r # Whole
  <2>1. \A i \in OfProfile(r) : part[i] \in Carving
    BY DEF OfProfile, Carved, Types
  <2>2. Devices(r) \in [OfProfile(r) -> Card]
    BY <1>2, <2>1 DEF Devices, CardOf, Carving
  <2>3. OfProfile(r) \in SUBSET Device
    BY DEF OfProfile, Carved, Device
  <2> QED BY <2>2, <2>3 DEF Listing
<1> QED BY <1>1, <1>2

LEMMA NoDevicesType == NoDevices \in Listing
<1>1. NoDevices \in [{} -> Card]
  BY DEF NoDevices
<1> QED BY <1>1 DEF Listing, Device

\* A listing's domain is a set of devices.
LEMMA ListingDomain ==
  ASSUME NEW f \in Listing
  PROVE  DOMAIN f \subseteq Device
  BY DEF Listing

\* What Allocate adds to the devices in use.
LEMMA GivenDomain ==
  ASSUME Types, NEW r \in Res, NEW ids, ids \subseteq Free(r), NEW card
  PROVE  DOMAIN Given(r, ids, card) \subseteq Res \X Device
<1>1. ids \subseteq Device
  BY DEF Free, Types
<1>2. DOMAIN Given(r, ids, card) = DOMAIN held \cup ({r} \X ids)
  BY DEF Given
<1> QED BY <1>1, <1>2 DEF Types

-----------------------------------------------------------------------------
(* Groups of steps                                                         *)

\* A step of a stream that goes from one place to a later one.
LEMMA GotoOrder ==
  ASSUME Types, NEW r \in Res, Order(r), NEW q \in Res, NEW k \in Stream, NEW to \in Places,
         pc[q][k] # "off", to # "off", Goto(q, k, to),
         conn' = conn, resources' = resources, shown' = shown,
         q = r /\ conn[r] = k => shown[r] = {},
         \A l \in Stream : (q = r /\ l = k) \/ listed'[r][l] = listed[r][l]
  PROVE  Order(r)'
<1>1. \A l \in Stream : pc'[r][l] = IF q = r /\ l = k THEN to ELSE pc[r][l]
  BY DEF Types, Goto
<1>2. \A l \in Stream : (pc'[r][l] = "off") <=> (pc[r][l] = "off")
  BY <1>1
<1>3. conn[r] \in {0} \cup Stream
  BY DEF Types
<1>4. (\A i, l \in Stream : i < l /\ pc[r][i] = "off" => pc[r][l] = "off")'
  BY <1>2 DEF Order
<1>5. (conn[r] # 0 => /\ r \in resources
                      /\ pc[r][conn[r]] # "off"
                      /\ \A l \in Stream : l > conn[r] => pc[r][l] = "off")'
  BY <1>2, <1>3 DEF Order
<1>6. (shown[r] # {} => /\ conn[r] # 0 /\ pc[r][conn[r]] = "watch"
                        /\ shown[r] = DOMAIN listed[r][conn[r]])'
  BY <1>1, <1>3 DEF Order
<1> QED BY <1>4, <1>5, <1>6 DEF Order

\* A stream that has not sent its list has shown nothing.
LEMMA NotYetShown ==
  ASSUME NEW r \in Res, Order(r), NEW k, conn[r] = k, pc[r][k] # "watch"
  PROVE  shown[r] = {}
  BY DEF Order

\* Listing the devices, or failing to.
LEMMA ListStep ==
  ASSUME IInv, NEW q \in Res, NEW k \in Stream,
         List(q, k) \/ ListFails(q, k) \/ (q = Whole /\ NameFails(k))
  PROVE  IInv'
<1>0. Types /\ \A r \in Res : Order(r) /\ Mapped(r)
  BY DEF IInv
<1>1. PICK to \in {"store", "ended"} : Goto(q, k, to)
  BY DEF List, ListFails, NameFails
<1>2. /\ pc[q][k] = "list"
      /\ UNCHANGED <<part, resources, phase, map, conn, shown, held, late, overtaken>>
      /\ listed' \in [Res -> [Stream -> Listing]]
      /\ \A r \in Res, l \in Stream : (q = r /\ l = k) \/ listed'[r][l] = listed[r][l]
      /\ stale' \subseteq Res
  <2>1. CASE List(q, k)
    BY <2>1, <1>0, DevicesType DEF List, Types, parts, plugin, kubelet
  <2>2. CASE ListFails(q, k) \/ (q = Whole /\ NameFails(k))
    BY <2>2, <1>0 DEF ListFails, NameFails, Types, parts, plugin, kubelet
  <2> QED BY <2>1, <2>2
<1>3. Types'
  <2>1. pc' \in [Res -> [Stream -> Places]]
    BY <1>0, <1>1 DEF Types, Goto, Places
  <2> QED BY <1>0, <1>2, <2>1 DEF Types
<1>4. ASSUME NEW r \in Res PROVE Order(r)' /\ Mapped(r)'
  <2>1. q = r /\ conn[r] = k => shown[r] = {}
    BY <1>0, <1>2, NotYetShown
  <2>2. Order(r)'
    BY <1>0, <1>1, <1>2, <2>1, GotoOrder DEF Places
  <2>3. \A l \in Stream : pc'[r][l] = IF q = r /\ l = k THEN to ELSE pc[r][l]
    BY <1>0, <1>1 DEF Types, Goto
  <2>4. conn[r] \in {0} \cup Stream
    BY <1>0 DEF Types
  <2>5. Mapped(r)'
    BY <1>0, <1>2, <2>3, <2>4 DEF Mapped
  <2> QED BY <2>2, <2>5
<1> QED BY <1>3, <1>4 DEF IInv

\* Storing the list: a stream that stores after kubelet's has stored is an
\* older one, and the resource is overtaken.
LEMMA StoreStep ==
  ASSUME IInv, NEW q \in Res, NEW k \in Stream, Store(q, k)
  PROVE  IInv'
<1>0. Types /\ \A r \in Res : Order(r) /\ Mapped(r)
  BY DEF IInv
<1>1. /\ pc[q][k] = "store" /\ Goto(q, k, "send")
      /\ map' = [map EXCEPT ![q] = listed[q][k]] /\ Overtake(q, k)
      /\ UNCHANGED <<part, resources, phase, conn, shown, held, late, stale, listed>>
  BY DEF Store, parts, plugin, kubelet
<1>2. overtaken \subseteq overtaken' /\ overtaken' \subseteq overtaken \cup {q}
  BY <1>1 DEF Overtake
<1>3. Types'
  <2>1. pc' \in [Res -> [Stream -> Places]]
    BY <1>0, <1>1 DEF Types, Goto, Places
  <2>2. map' \in [Res -> Listing]
    BY <1>0, <1>1 DEF Types
  <2> QED BY <1>0, <1>1, <1>2, <2>1, <2>2 DEF Types
<1>4. ASSUME NEW r \in Res PROVE Order(r)' /\ Mapped(r)'
  <2>1. q = r /\ conn[r] = k => shown[r] = {}
    BY <1>0, <1>1, NotYetShown
  <2>2. Order(r)'
    BY <1>0, <1>1, <2>1, GotoOrder DEF Places
  <2>3. \A l \in Stream : pc'[r][l] = IF q = r /\ l = k THEN "send" ELSE pc[r][l]
    BY <1>0, <1>1 DEF Types, Goto
  <2>4. conn[r] \in {0} \cup Stream
    BY <1>0 DEF Types
  <2>5. CASE r # q
    <3>1. map'[r] = map[r]
      BY <1>0, <1>1, <2>5 DEF Types
    <3> QED BY <1>0, <1>1, <1>2, <2>2, <2>3, <2>4, <2>5, <3>1 DEF Mapped
  <2>6. CASE r = q
    <3>1. map'[r] = listed[r][k]
      BY <1>0, <1>1, <2>6 DEF Types
    <3>2. CASE conn[r] = k
      BY <1>1, <2>2, <3>1, <3>2 DEF Mapped
    <3>3. CASE conn[r] # k /\ conn[r] # 0 /\ pc[r][conn[r]] \in {"send", "watch"}
      <4>1. k < conn[r]
        <5>1. conn[r] \in Nat /\ k \in Nat
          BY <2>4, <3>3, StreamNats
        <5>2. k > conn[r] => pc[r][k] = "off"
          BY <1>0, <3>3 DEF Order
        <5> QED BY <1>1, <2>6, <3>3, <5>1, <5>2
      <4>2. conn[r] \in Newer(q, k)
        BY <2>4, <2>6, <3>3, <4>1 DEF Newer
      <4>3. r \in overtaken'
        BY <1>1, <2>6, <4>2 DEF Overtake
      <4> QED BY <2>2, <4>3 DEF Mapped
    <3>4. CASE conn[r] # k /\ (conn[r] = 0 \/ pc[r][conn[r]] \notin {"send", "watch"})
      BY <1>1, <2>2, <2>3, <2>4, <3>4 DEF Mapped
    <3> QED BY <3>2, <3>3, <3>4
  <2> QED BY <2>2, <2>5, <2>6
<1> QED BY <1>3, <1>4 DEF IInv

\* Sending the list.
LEMMA SendStep ==
  ASSUME IInv, NEW q \in Res, NEW k \in Stream, Send(q, k)
  PROVE  IInv'
<1>0. Types /\ \A r \in Res : Order(r) /\ Mapped(r)
  BY DEF IInv
<1>1. /\ pc[q][k] = "send" /\ Goto(q, k, "watch")
      /\ shown' = IF conn[q] = k THEN [shown EXCEPT ![q] = DOMAIN listed[q][k]] ELSE shown
      /\ UNCHANGED <<part, resources, phase, conn, held, late, stale, listed, map, overtaken>>
  BY DEF Send, parts, plugin
<1>2. listed[q][k] \in Listing
  BY <1>0 DEF Types
<1>3. Types'
  <2>1. pc' \in [Res -> [Stream -> Places]]
    BY <1>0, <1>1 DEF Types, Goto, Places
  <2>2. shown' \in [Res -> SUBSET Device]
    BY <1>0, <1>1, <1>2, ListingDomain DEF Types
  <2> QED BY <1>0, <1>1, <2>1, <2>2 DEF Types
<1>4. ASSUME NEW r \in Res PROVE Order(r)' /\ Mapped(r)'
  <2>1. \A l \in Stream : pc'[r][l] = IF q = r /\ l = k THEN "watch" ELSE pc[r][l]
    BY <1>0, <1>1 DEF Types, Goto
  <2>2. conn[r] \in {0} \cup Stream
    BY <1>0 DEF Types
  <2>3. Mapped(r)'
    BY <1>0, <1>1, <2>1, <2>2 DEF Mapped
  <2>4. CASE shown'[r] = shown[r]
    <3>1. (\A i, l \in Stream : i < l /\ pc[r][i] = "off" => pc[r][l] = "off")'
      BY <1>0, <1>1, <2>1 DEF Order
    <3>2. (conn[r] # 0 => /\ r \in resources
                          /\ pc[r][conn[r]] # "off"
                          /\ \A l \in Stream : l > conn[r] => pc[r][l] = "off")'
      BY <1>0, <1>1, <2>1, <2>2 DEF Order
    <3>3. (shown[r] # {} => /\ conn[r] # 0 /\ pc[r][conn[r]] = "watch"
                            /\ shown[r] = DOMAIN listed[r][conn[r]])'
      BY <1>0, <1>1, <2>1, <2>2, <2>4 DEF Order
    <3>4. Order(r)'
      BY <3>1, <3>2, <3>3 DEF Order
    <3> QED BY <2>3, <3>4
  <2>5. CASE shown'[r] # shown[r]
    <3>1. r = q /\ conn[r] = k /\ shown'[r] = DOMAIN listed[r][k]
      BY <1>0, <1>1, <2>5 DEF Types
    <3>2. (\A i, l \in Stream : i < l /\ pc[r][i] = "off" => pc[r][l] = "off")'
      BY <1>0, <1>1, <2>1 DEF Order
    <3>3. (conn[r] # 0 => /\ r \in resources
                          /\ pc[r][conn[r]] # "off"
                          /\ \A l \in Stream : l > conn[r] => pc[r][l] = "off")'
      BY <1>0, <1>1, <2>1, <2>2 DEF Order
    <3>4. conn[r] # 0 /\ pc'[r][k] = "watch"
      BY <2>1, <3>1, StreamNats
    <3>5. Order(r)'
      BY <1>1, <3>1, <3>2, <3>3, <3>4 DEF Order
    <3> QED BY <2>3, <3>5
  <2> QED BY <2>3, <2>4, <2>5
<1> QED BY <1>3, <1>4 DEF IInv

\* A new connection: the next stream.
LEMMA ConnectStep ==
  ASSUME IInv, NEW q \in Res, NEW k \in Stream, Connect(q, k)
  PROVE  IInv'
<1>0. Types /\ \A r \in Res : Order(r) /\ Mapped(r)
  BY DEF IInv
<1>1. /\ q \in resources /\ conn[q] = 0 /\ pc[q][k] = "off"
      /\ \A l \in 1 .. k - 1 : pc[q][l] # "off"
      /\ conn' = [conn EXCEPT ![q] = k] /\ Goto(q, k, "list")
      /\ UNCHANGED <<part, resources, phase, shown, held, late, stale, listed, map, overtaken>>
  BY DEF Connect, parts, plugin
<1>2. Types'
  <2>1. pc' \in [Res -> [Stream -> Places]]
    BY <1>0, <1>1 DEF Types, Goto, Places
  <2>2. conn' \in [Res -> {0} \cup Stream]
    BY <1>0, <1>1 DEF Types
  <2> QED BY <1>0, <1>1, <2>1, <2>2 DEF Types
<1>3. ASSUME NEW r \in Res, r # q PROVE Order(r)' /\ Mapped(r)'
  <2>1. pc'[r] = pc[r] /\ conn'[r] = conn[r]
    BY <1>0, <1>1, <1>3 DEF Types, Goto
  <2> QED BY <1>0, <1>1, <2>1 DEF Order, Mapped
<1>4. Order(q)' /\ Mapped(q)'
  <2>1. \A l \in Stream : pc'[q][l] = IF l = k THEN "list" ELSE pc[q][l]
    BY <1>0, <1>1 DEF Types, Goto
  <2>2. conn'[q] = k /\ k # 0
    BY <1>0, <1>1, StreamNats DEF Types
  <2>3. shown'[q] = {}
    BY <1>0, <1>1 DEF Order
  <2>4. \A i, l \in Stream : i < l /\ pc'[q][i] = "off" => pc'[q][l] = "off"
    <3>1. SUFFICES ASSUME NEW i \in Stream, NEW l \in Stream, i < l, pc'[q][i] = "off"
                   PROVE  pc'[q][l] = "off"
      OBVIOUS
    <3>2. i # k /\ pc[q][i] = "off"
      BY <2>1, <3>1
    <3>3. l # k
      BY <1>1, <3>1, <3>2 DEF Stream
    <3> QED BY <1>0, <2>1, <3>1, <3>2, <3>3 DEF Order
  <2>5. \A l \in Stream : l > k => pc'[q][l] = "off"
    <3>1. SUFFICES ASSUME NEW l \in Stream, l > k PROVE pc'[q][l] = "off"
      OBVIOUS
    <3>2. l \in Nat /\ k \in Nat
      BY StreamNats
    <3>3. pc[q][l] = "off"
      BY <1>0, <1>1, <3>1, <3>2 DEF Order
    <3> QED BY <2>1, <3>1, <3>2, <3>3
  <2>6. Order(q)'
    BY <1>1, <2>1, <2>2, <2>3, <2>4, <2>5 DEF Order
  <2>7. Mapped(q)'
    BY <2>1, <2>2 DEF Mapped
  <2> QED BY <2>6, <2>7
<1> QED BY <1>2, <1>3, <1>4 DEF IInv

\* Naming the resources, before or after which nobody is connected to them.
LEMMA StartStep ==
  ASSUME IInv, Start
  PROVE  IInv'
<1>0. Types /\ \A r \in Res : Order(r) /\ Mapped(r)
  BY DEF IInv
<1>1. /\ UNCHANGED <<part, pc, listed, map, conn, shown, held, late, overtaken>>
      /\ resources \subseteq resources' /\ resources' \subseteq Res
      /\ stale' \subseteq Res /\ phase' # "whole"
  <2>1. CASE StartWhole
    BY <1>0, <2>1 DEF StartWhole, Types, Res, parts, streams, kubelet
  <2>2. CASE StartParts
    BY <1>0, <2>2 DEF StartParts, Types, Res, parts, streams, kubelet
  <2>3. CASE StartPartsFails
    BY <1>0, <2>3 DEF StartPartsFails, Types, Res, parts, streams, kubelet
  <2>4. CASE StartWithoutDriver
    BY <1>0, <2>4 DEF StartWithoutDriver, Types, Res, parts, streams, kubelet
  <2> QED BY <2>1, <2>2, <2>3, <2>4 DEF Start
<1>2. Types'
  BY <1>0, <1>1 DEF Types
<1>3. ASSUME NEW r \in Res PROVE Order(r)' /\ Mapped(r)'
  BY <1>0, <1>1 DEF Order, Mapped
<1> QED BY <1>2, <1>3 DEF IInv

\* Steps that forget kubelet's connections and lists.
LEMMA ForgetStep ==
  ASSUME IInv, KubeletRestart \/ PluginRestart
  PROVE  IInv'
<1>0. Types /\ \A r \in Res : Order(r) /\ Mapped(r)
  BY DEF IInv
<1>1. CASE KubeletRestart
  <2>1. /\ conn' = [r \in Res |-> 0] /\ shown' = [r \in Res |-> {}]
        /\ UNCHANGED <<part, resources, phase, pc, listed, map, held, late, stale, overtaken>>
    BY <1>1 DEF KubeletRestart, parts, plugin, streams
  <2>2. Types'
    BY <1>0, <2>1 DEF Types
  <2>3. ASSUME NEW r \in Res PROVE Order(r)' /\ Mapped(r)'
    BY <1>0, <2>1 DEF Order, Mapped
  <2> QED BY <2>2, <2>3 DEF IInv
<1>2. CASE PluginRestart
  <2>1. /\ conn' = [r \in Res |-> 0] /\ shown' = [r \in Res |-> {}] /\ resources' = {}
        /\ pc' = [r \in Res |-> [k \in Stream |-> "off"]]
        /\ listed' = [r \in Res |-> [k \in Stream |-> NoDevices]]
        /\ map' = [r \in Res |-> NoDevices]
        /\ stale' = {} /\ overtaken' = {} /\ UNCHANGED <<part, held, late>>
    BY <1>2 DEF PluginRestart, parts
  <2>2. Types'
    BY <1>0, <2>1, NoDevicesType DEF Types, Places
  <2>3. ASSUME NEW r \in Res PROVE Order(r)' /\ Mapped(r)'
    BY <2>1 DEF Order, Mapped
  <2> QED BY <2>2, <2>3 DEF IInv
<1> QED BY <1>1, <1>2

\* Steps that touch neither the streams nor what kubelet knows of them.
LEMMA OtherStep ==
  ASSUME IInv, UNCHANGED <<plugin, streams, conn, shown>>,
         part' \in [Part -> Carving \cup {Nothing}],
         DOMAIN held' \subseteq Res \X Device,
         late' \subseteq Device, stale' \subseteq Res
  PROVE  IInv'
<1>1. UNCHANGED <<resources, phase, pc, listed, map, overtaken, conn, shown>>
  BY DEF plugin, streams
<1>2. Types'
  BY <1>1 DEF IInv, Types
<1>3. ASSUME NEW r \in Res PROVE Order(r)' /\ Mapped(r)'
  BY <1>1 DEF IInv, Order, Mapped
<1> QED BY <1>2, <1>3 DEF IInv

-----------------------------------------------------------------------------
LEMMA InitInv == Init => IInv
<1> SUFFICES ASSUME Init PROVE IInv
  OBVIOUS
<1>1. Types
  BY NoDevicesType DEF Init, Types, Places, NoDevices
<1>2. ASSUME NEW r \in Res PROVE Order(r) /\ Mapped(r)
  BY DEF Init, Order, Mapped
<1> QED BY <1>1, <1>2 DEF IInv

LEMMA StepInv == IInv /\ [Next]_vars => IInv'
<1> SUFFICES ASSUME IInv, [Next]_vars PROVE IInv'
  OBVIOUS
<1>0. Types
  BY DEF IInv
<1>1. CASE Start
  BY <1>1, StartStep
<1>2. ASSUME NEW r \in Res, NEW k \in Stream, StreamStep(r, k) PROVE IInv'
  BY <1>2, ListStep, StoreStep, SendStep DEF StreamStep
<1>3. ASSUME NEW r \in Res, NEW k \in Stream, Connect(r, k) PROVE IInv'
  BY <1>3, ConnectStep
<1>4. CASE KubeletRestart \/ PluginRestart
  BY <1>4, ForgetStep
<1>5. ASSUME NEW ids \in SUBSET Card, AllocateCards(ids) PROVE IInv'
  <2>1. DOMAIN held' \subseteq Res \X Device
    BY <1>0, <1>5, GivenDomain DEF AllocateCards, Res
  <2> QED BY <1>0, <1>5, <2>1, OtherStep DEF AllocateCards, parts, Types
<1>6. ASSUME NEW r \in Profile, NEW ids \in SUBSET Part, AllocateParts(r, ids) PROVE IInv'
  <2>1. DOMAIN held' \subseteq Res \X Device
    BY <1>0, <1>6, GivenDomain DEF AllocateParts, Res
  <2> QED BY <1>0, <1>6, <2>1, OtherStep DEF AllocateParts, parts, Types
<1>7. ASSUME NEW x \in DOMAIN held, ContainerEnds(x) PROVE IInv'
  <2>1. DOMAIN held' \subseteq Res \X Device
    BY <1>0, <1>7 DEF ContainerEnds, Types
  <2> QED BY <1>0, <1>7, <2>1, OtherStep DEF ContainerEnds, parts, Types
<1>8. ASSUME NEW i \in Part, NEW c \in Card, NEW p \in Profile, Carve(i, c, p) PROVE IInv'
  <2>1. part' \in [Part -> Carving \cup {Nothing}]
    BY <1>0, <1>8 DEF Carve, Carving, Types
  <2>2. late' \subseteq Device /\ stale' \subseteq Res
    BY <1>0, <1>8 DEF Carve, Change, Types, Device, Res
  <2> QED BY <1>0, <1>8, <2>1, <2>2, OtherStep DEF Carve, kubelet, Types
<1>9. ASSUME NEW i \in Part, DestroyPart(i) PROVE IInv'
  <2>1. part' \in [Part -> Carving \cup {Nothing}]
    BY <1>0, <1>9 DEF DestroyPart, Types
  <2>2. stale' \subseteq Res
    <3>1. part[i].profile \in Res
      BY <1>0, <1>9 DEF DestroyPart, Types, Carved, Carving, Res
    <3> QED BY <1>0, <1>9, <3>1 DEF DestroyPart, Change, Types, Res
  <2> QED BY <1>0, <1>9, <2>1, <2>2, OtherStep DEF DestroyPart, kubelet, Types
<1>10. CASE UNCHANGED vars
  BY <1>0, <1>10, OtherStep DEF vars, parts, kubelet, Types
<1> QED
  BY <1>1, <1>2, <1>3, <1>4, <1>5, <1>6, <1>7, <1>8, <1>9, <1>10 DEF Next, PluginStep

LEMMA InvAlways == Spec => []IInv
  BY InitInv, StepInv, PTL DEF Spec

\* The variables keep their shapes, and kubelet's list is that of the stream it
\* reads, whatever fails, restarts or is carved.
THEOREM TypeCorrect == Spec => []TypeOK
<1>1. IInv => TypeOK
  <2> SUFFICES ASSUME IInv PROVE TypeOK
    OBVIOUS
  <2>1. Types /\ \A r \in Res : Order(r)
    BY DEF IInv
  <2>2. \A r \in Res : conn[r] # 0 => r \in resources /\ pc[r][conn[r]] # "off"
    BY <2>1 DEF Order
  <2>3. \A r \in Res : shown[r] # {} => conn[r] # 0 /\ shown[r] = DOMAIN listed[r][conn[r]]
    BY <2>1 DEF Order
  <2> QED BY <2>1, <2>2, <2>3 DEF Types, TypeOK, Device
<1> QED BY <1>1, InvAlways, PTL

\* What kubelet is shown of a resource is in the map in which Allocate looks,
\* unless a stream that began earlier stored its list later.
THEOREM ShownCanBeFound == Spec => []ShownIsMapped
<1>1. IInv => ShownIsMapped
  <2> SUFFICES ASSUME IInv, NEW r \in Res, r \notin overtaken, shown[r] # {}
               PROVE  shown[r] \subseteq DOMAIN map[r]
    BY DEF ShownIsMapped
  <2> QED BY DEF IInv, Order, Mapped
<1> QED BY <1>1, InvAlways, PTL

-----------------------------------------------------------------------------
(* Nodes and conf files, whole cards and parts                             *)

\* A stream that has not listed anything has an empty list.
Fresh(r) == \A k \in Stream : pc[r][k] \in {"off", "list"} => DOMAIN listed[r][k] = {}

\* The lists on their way to kubelet say of each part what it is, if it exists;
\* they agree with one another, and with the map once kubelet's was stored; but
\* for the parts that were carved anew meanwhile.
ListsTrue(r) ==
  \A k \in Stream, i \in Part :
    InFlight(r, k) /\ i \in DOMAIN listed[r][k]
      => \/ i \in late \/ part[i] = Nothing
         \/ part[i] = [card |-> listed[r][k][i], profile |-> r]
ListsAgree(r) ==
  \A k, l \in Stream, i \in Part :
    /\ InFlight(r, k) /\ InFlight(r, l)
    /\ i \in DOMAIN listed[r][k] /\ i \in DOMAIN listed[r][l]
    => i \in late \/ listed[r][k][i] = listed[r][l][i]
MapAgrees(r) ==
  \A k \in Stream, i \in Part :
    /\ conn[r] = k /\ pc[r][k] \in {"send", "watch"}
    /\ i \in DOMAIN listed[r][k] /\ i \in DOMAIN map[r]
    => i \in late \/ map[r][i] = listed[r][k][i]

\* In mixed mode, no card on offer or in exclusive use has parts, but for those
\* that were carved while on offer.
OfferedWhole ==
  \A k \in Stream, c \in Card :
    InFlight(Whole, k) /\ c \in DOMAIN listed[Whole][k] => OnCard(c) = {} \/ c \in late
HeldWhole == \A c \in Card : <<Whole, c>> \in DOMAIN held => OnCard(c) = {} \/ c \in late

\* A part in use exists, and its user has the nodes of its card.
Users ==
  \A x \in PartUsers :
    /\ x[2] \in Carved
    /\ part[x[2]] = [card |-> held[x], profile |-> x[1]] \/ x[2] \in late

Lists(r) == Fresh(r) /\ (r \in Profile => ListsTrue(r) /\ ListsAgree(r) /\ MapAgrees(r))
Cards == strategy = "mixed" => OfferedWhole /\ HeldWhole
SharingInv == (\A r \in Res : Lists(r)) /\ Cards /\ Users

\* No list comes on its way, no card or part changes.
LEMMA FewerLists ==
  ASSUME Types, SharingInv,
         UNCHANGED <<strategy, part, late, held>>,
         \A r \in Res, k \in Stream : InFlight(r, k)' =>
           \/ InFlight(r, k) /\ listed'[r][k] = listed[r][k]
           \/ DOMAIN listed'[r][k] = {},
         \A r \in Res : Fresh(r)' /\ (r \in Profile => MapAgrees(r)')
  PROVE  SharingInv'
<1>1. ASSUME NEW r \in Profile PROVE ListsTrue(r)' /\ ListsAgree(r)'
  <2>1. r \in Res /\ ListsTrue(r) /\ ListsAgree(r)
    BY DEF SharingInv, Lists, Res
  <2>2. ListsTrue(r)'
    BY <2>1 DEF ListsTrue
  <2>3. ListsAgree(r)'
    BY <2>1 DEF ListsAgree
  <2> QED BY <2>2, <2>3
<1>2. ASSUME NEW c \in Card PROVE OnCard(c)' = OnCard(c)
  BY DEF OnCard, Carved
<1>3. Cards'
  <2>1. Whole \in Res
    BY DEF Res
  <2> QED BY <1>2, <2>1 DEF SharingInv, Cards, OfferedWhole, HeldWhole
<1>4. Users'
  BY DEF SharingInv, Users, PartUsers, Carved
<1> QED BY <1>1, <1>3, <1>4 DEF SharingInv, Lists

\* A stream lists its devices as they are.
LEMMA SharingList ==
  ASSUME IInv, SharingInv, NEW q \in Res, NEW k \in Stream, List(q, k)
  PROVE  SharingInv'
<1>0. Types
  BY DEF IInv
<1>1. /\ pc[q][k] = "list" /\ Goto(q, k, "store")
      /\ listed' = [listed EXCEPT ![q][k] = Devices(q)]
      /\ UNCHANGED <<strategy, part, map, conn, held, late>>
  BY DEF List, parts, kubelet
<1>2. \A r \in Res, l \in Stream :
        /\ pc'[r][l] = IF r = q /\ l = k THEN "store" ELSE pc[r][l]
        /\ listed'[r][l] = IF r = q /\ l = k THEN Devices(q) ELSE listed[r][l]
  BY <1>0, <1>1 DEF Types, Goto
<1>3. \A r \in Res, l \in Stream :
        ~(r = q /\ l = k) => (InFlight(r, l)' <=> InFlight(r, l))
  BY <1>1, <1>2 DEF InFlight
<1>4. ASSUME NEW r \in Res PROVE Fresh(r)'
  BY <1>2 DEF SharingInv, Lists, Fresh
<1>5. ASSUME NEW r \in Profile, q = r, NEW i \in Part, i \in DOMAIN Devices(q)
      PROVE  part[i] # Nothing /\ part[i] = [card |-> Devices(q)[i], profile |-> r]
  <2>1. q # Whole
    BY <1>5, StaticAssumption
  <2>2. Devices(q) = [j \in OfProfile(q) |-> part[j].card]
    BY <2>1 DEF Devices, CardOf
  <2>3. i \in OfProfile(r) /\ Devices(q)[i] = part[i].card
    BY <1>5, <2>2
  <2> QED BY <1>0, <2>3 DEF OfProfile, Carved, Types, Carving
<1>6. ASSUME NEW r \in Profile PROVE ListsTrue(r)' /\ ListsAgree(r)' /\ MapAgrees(r)'
  <2>1. r \in Res /\ ListsTrue(r) /\ ListsAgree(r) /\ MapAgrees(r)
    BY DEF SharingInv, Lists, Res
  <2>2. ListsTrue(r)'
    BY <1>1, <1>2, <1>3, <1>5, <2>1 DEF ListsTrue
  <2>3. ListsAgree(r)'
    <3>1. SUFFICES ASSUME NEW l \in Stream, NEW m \in Stream, NEW i \in Part,
                          InFlight(r, l)', InFlight(r, m)', i \notin late,
                          i \in DOMAIN listed'[r][l], i \in DOMAIN listed'[r][m]
                   PROVE  listed'[r][l][i] = listed'[r][m][i]
      BY <1>1 DEF ListsAgree
    <3>2. CASE q = r /\ (l = k \/ m = k)
      <4>1. part[i] # Nothing
        BY <1>2, <1>5, <2>1, <3>1, <3>2
      <4>2. \A n \in {l, m} : part[i] = [card |-> listed'[r][n][i], profile |-> r]
        BY <1>1, <2>1, <2>2, <3>1, <4>1 DEF ListsTrue
      <4>3. part[i].card = listed'[r][l][i] /\ part[i].card = listed'[r][m][i]
        BY <4>2
      <4> QED BY <4>3
    <3>3. CASE ~(q = r /\ (l = k \/ m = k))
      BY <1>2, <1>3, <2>1, <3>1, <3>3 DEF ListsAgree
    <3> QED BY <3>2, <3>3
  <2>4. MapAgrees(r)'
    BY <1>1, <1>2, <2>1 DEF MapAgrees
  <2> QED BY <2>2, <2>3, <2>4
<1>7. ASSUME NEW c \in Card PROVE OnCard(c)' = OnCard(c)
  BY <1>1 DEF OnCard, Carved
<1>8. Cards'
  <2>1. SUFFICES ASSUME strategy = "mixed" PROVE OfferedWhole' /\ HeldWhole'
    BY <1>1 DEF Cards
  <2>2. OfferedWhole /\ HeldWhole
    BY <2>1 DEF SharingInv, Cards
  <2>3. HeldWhole'
    BY <1>1, <1>7, <2>2 DEF HeldWhole
  <2>4. q = Whole => \A c \in DOMAIN Devices(q) : OnCard(c) = {}
    BY <2>1 DEF Devices
  <2>5. Whole \in Res
    BY DEF Res
  <2>6. OfferedWhole'
    BY <1>1, <1>2, <1>3, <1>7, <2>2, <2>4, <2>5 DEF OfferedWhole
  <2> QED BY <2>3, <2>6
<1>9. Users'
  BY <1>1 DEF SharingInv, Users, PartUsers, Carved
<1> QED BY <1>4, <1>6, <1>8, <1>9 DEF SharingInv, Lists

\* Other steps of the streams.
LEMMA SharingStream ==
  ASSUME IInv, SharingInv, NEW q \in Res, NEW k \in Stream,
         ListFails(q, k) \/ (q = Whole /\ NameFails(k)) \/ Store(q, k) \/ Send(q, k)
  PROVE  SharingInv'
<1>0. Types
  BY DEF IInv
<1>1. PICK to \in {"store", "ended", "send", "watch"} :
        /\ Goto(q, k, to)
        /\ to \in {"store", "ended"} => pc[q][k] = "list"
        /\ to = "send" => pc[q][k] = "store" /\ map' = [map EXCEPT ![q] = listed[q][k]]
        /\ to = "watch" => pc[q][k] = "send"
        /\ to # "send" => map' = map
        /\ UNCHANGED <<strategy, part, listed, conn, held, late>>
  <2>1. CASE ListFails(q, k)
    BY <2>1 DEF ListFails, parts, kubelet
  <2>2. CASE q = Whole /\ NameFails(k)
    BY <2>2 DEF NameFails, parts, kubelet
  <2>3. CASE Store(q, k)
    BY <2>3 DEF Store, parts, kubelet
  <2>4. CASE Send(q, k)
    BY <2>4 DEF Send, parts
  <2> QED BY <2>1, <2>2, <2>3, <2>4
<1>2. \A r \in Res, l \in Stream : pc'[r][l] = IF r = q /\ l = k THEN to ELSE pc[r][l]
  BY <1>0, <1>1 DEF Types, Goto
<1>3. ASSUME NEW r \in Res, NEW l \in Stream, InFlight(r, l)'
      PROVE  \/ InFlight(r, l) /\ listed'[r][l] = listed[r][l]
             \/ DOMAIN listed'[r][l] = {}
  <2>1. CASE r = q /\ l = k /\ to \in {"store", "ended"}
    BY <1>1, <1>2, <1>3, <2>1 DEF SharingInv, Lists, Fresh
  <2>2. CASE ~(r = q /\ l = k /\ to \in {"store", "ended"})
    BY <1>1, <1>2, <1>3, <2>2 DEF InFlight
  <2> QED BY <2>1, <2>2
<1>4. ASSUME NEW r \in Res PROVE Fresh(r)'
  BY <1>1, <1>2 DEF SharingInv, Lists, Fresh
<1>5. ASSUME NEW r \in Profile PROVE MapAgrees(r)'
  <2>1. r \in Res /\ ListsAgree(r) /\ MapAgrees(r)
    BY DEF SharingInv, Lists, Res
  <2>2. CASE to = "send" /\ q = r
    <3>1. map'[r] = listed[r][k]
      BY <1>0, <1>1, <2>1, <2>2 DEF Types
    <3>2. InFlight(r, k)
      BY <1>1, <2>2 DEF InFlight
    <3>3. SUFFICES ASSUME NEW l \in Stream, NEW i \in Part, conn[r] = l,
                          pc'[r][l] \in {"send", "watch"}, i \notin late,
                          i \in DOMAIN listed[r][l], i \in DOMAIN map'[r]
                   PROVE  map'[r][i] = listed[r][l][i]
      BY <1>1 DEF MapAgrees
    <3>4. CASE l = k
      BY <3>1, <3>4
    <3>5. CASE l # k
      <4>1. InFlight(r, l)
        BY <1>2, <2>1, <3>3, <3>5 DEF InFlight
      <4> QED BY <2>1, <3>1, <3>2, <3>3, <4>1 DEF ListsAgree
    <3> QED BY <3>4, <3>5
  <2>3. CASE ~(to = "send" /\ q = r)
    <3>1. map'[r] = map[r]
      BY <1>0, <1>1, <2>1, <2>3 DEF Types
    <3>2. \A l \in Stream : pc'[r][l] \in {"send", "watch"} => pc[r][l] \in {"send", "watch"}
      BY <1>1, <1>2, <2>1, <2>3
    <3> QED BY <1>1, <2>1, <3>1, <3>2 DEF MapAgrees
  <2> QED BY <2>2, <2>3
<1> QED BY <1>0, <1>1, <1>3, <1>4, <1>5, FewerLists

\* kubelet connects or restarts, or the plugin does, or names its resources.
LEMMA SharingConnect ==
  ASSUME IInv, SharingInv,
         \/ \E q \in Res, k \in Stream : Connect(q, k)
         \/ KubeletRestart \/ PluginRestart \/ Start
  PROVE  SharingInv'
<1>0. Types
  BY DEF IInv
<1>1. CASE \E q \in Res, k \in Stream : Connect(q, k)
  <2>1. PICK q \in Res, k \in Stream : Connect(q, k)
    BY <1>1
  <2>2. /\ pc[q][k] = "off" /\ conn' = [conn EXCEPT ![q] = k] /\ Goto(q, k, "list")
        /\ UNCHANGED <<strategy, part, listed, map, held, late>>
    BY <2>1 DEF Connect, parts
  <2>3. \A r \in Res, l \in Stream : pc'[r][l] = IF r = q /\ l = k THEN "list" ELSE pc[r][l]
    BY <1>0, <2>2 DEF Types, Goto
  <2>4. \A r \in Res : conn'[r] = IF r = q THEN k ELSE conn[r]
    BY <1>0, <2>2 DEF Types
  <2>5. \A r \in Res, l \in Stream : InFlight(r, l)' => InFlight(r, l)
    BY <2>3, <2>4 DEF InFlight
  <2>6. \A r \in Res : Fresh(r)'
    BY <2>2, <2>3 DEF SharingInv, Lists, Fresh
  <2>7. ASSUME NEW r \in Profile PROVE MapAgrees(r)'
    <3>1. r \in Res /\ MapAgrees(r)
      BY DEF SharingInv, Lists, Res
    <3> QED BY <2>2, <2>3, <2>4, <3>1 DEF MapAgrees
  <2> QED BY <1>0, <2>2, <2>5, <2>6, <2>7, FewerLists
<1>2. CASE KubeletRestart
  <2>1. /\ conn' = [r \in Res |-> 0]
        /\ UNCHANGED <<strategy, part, pc, listed, map, held, late>>
    BY <1>2 DEF KubeletRestart, parts, streams
  <2>2. \A r \in Res, l \in Stream : InFlight(r, l)' => InFlight(r, l)
    BY <2>1, StreamNats DEF InFlight
  <2>3. \A r \in Res : Fresh(r)'
    BY <2>1 DEF SharingInv, Lists, Fresh
  <2>4. \A r \in Profile : MapAgrees(r)'
    BY <2>1, StreamNats DEF MapAgrees, Res
  <2> QED BY <1>0, <2>1, <2>2, <2>3, <2>4, FewerLists
<1>3. CASE PluginRestart
  <2>1. /\ conn' = [r \in Res |-> 0]
        /\ pc' = [r \in Res |-> [k \in Stream |-> "off"]]
        /\ listed' = [r \in Res |-> [k \in Stream |-> NoDevices]]
        /\ UNCHANGED <<strategy, part, held, late>>
    BY <1>3 DEF PluginRestart, parts
  <2>2. \A r \in Res, l \in Stream : ~InFlight(r, l)'
    BY <2>1 DEF InFlight
  <2>3. \A r \in Res : Fresh(r)'
    BY <2>1 DEF Fresh, NoDevices
  <2>4. \A r \in Profile : MapAgrees(r)'
    BY <2>1 DEF MapAgrees, Res
  <2> QED BY <1>0, <2>1, <2>2, <2>3, <2>4, FewerLists
<1>4. CASE Start
  <2>1. UNCHANGED <<strategy, part, pc, listed, map, conn, held, late>>
    BY <1>4 DEF Start, StartWhole, StartParts, StartPartsFails, StartWithoutDriver,
                parts, streams, kubelet
  <2>2. \A r \in Res, l \in Stream : InFlight(r, l)' => InFlight(r, l)
    BY <2>1 DEF InFlight
  <2>3. \A r \in Res : Fresh(r)' /\ (r \in Profile => MapAgrees(r)')
    BY <2>1 DEF SharingInv, Lists, Fresh, MapAgrees
  <2> QED BY <1>0, <2>1, <2>2, <2>3, FewerLists
<1> QED BY <1>1, <1>2, <1>3, <1>4

\* The lists stay as they are while containers come and go.
LEMMA SameLists ==
  ASSUME SharingInv, UNCHANGED <<part, late, streams, conn>>
  PROVE  /\ \A r \in Res : Lists(r)'
         /\ OfferedWhole => OfferedWhole'
         /\ \A c \in Card : OnCard(c)' = OnCard(c)
<1>1. \A r \in Res, k \in Stream : InFlight(r, k)' <=> InFlight(r, k)
  BY DEF InFlight, streams
<1>2. \A c \in Card : OnCard(c)' = OnCard(c)
  BY DEF OnCard, Carved
<1>3. ASSUME NEW r \in Res PROVE Lists(r)'
  <2>1. Lists(r)
    BY DEF SharingInv
  <2> QED BY <1>1, <2>1 DEF Lists, Fresh, ListsTrue, ListsAgree, MapAgrees, streams
<1>4. OfferedWhole => OfferedWhole'
  <2>1. Whole \in Res
    BY DEF Res
  <2> QED BY <1>1, <1>2, <2>1 DEF OfferedWhole, streams
<1> QED BY <1>2, <1>3, <1>4

\* Whole cards are given while they are on offer.
LEMMA SharingAllocateCards ==
  ASSUME IInv, SharingInv, NEW ids \in SUBSET Card, AllocateCards(ids)
  PROVE  SharingInv'
<1>0. Types /\ Order(Whole) /\ Whole \in Res
  BY DEF IInv, Res
<1>1. /\ ids \subseteq Free(Whole) /\ held' = Given(Whole, ids, WholeCards)
      /\ UNCHANGED <<strategy, part, late, streams, conn>>
  BY DEF AllocateCards, parts
<1>2. /\ \A r \in Res : Lists(r)'
      /\ OfferedWhole => OfferedWhole'
      /\ \A c \in Card : OnCard(c)' = OnCard(c)
  BY <1>1, SameLists
<1>3. /\ DOMAIN held' = DOMAIN held \cup ({Whole} \X ids)
      /\ \A x \in DOMAIN held : held'[x] = held[x]
  BY <1>1 DEF Given
<1>4. Cards'
  <2>1. SUFFICES ASSUME strategy = "mixed" PROVE OfferedWhole' /\ HeldWhole'
    BY <1>1 DEF Cards
  <2>2. OfferedWhole /\ HeldWhole
    BY <2>1 DEF SharingInv, Cards
  <2>3. ASSUME NEW c \in ids PROVE OnCard(c) = {} \/ c \in late
    <3>1. c \in shown[Whole]
      BY <1>1, <2>3 DEF Free
    <3>2. /\ conn[Whole] \in Stream /\ InFlight(Whole, conn[Whole])
          /\ c \in DOMAIN listed[Whole][conn[Whole]]
      BY <1>0, <3>1 DEF Order, Types, InFlight
    <3> QED BY <2>2, <3>2 DEF OfferedWhole
  <2>4. HeldWhole'
    BY <1>1, <1>2, <1>3, <2>2, <2>3 DEF HeldWhole
  <2> QED BY <1>2, <2>2, <2>4
<1>5. Users'
  <2>1. \A x \in PartUsers' : x \in PartUsers /\ held'[x] = held[x]
    BY <1>3, StaticAssumption DEF PartUsers
  <2> QED BY <1>1, <2>1 DEF SharingInv, Users, Carved
<1> QED BY <1>2, <1>4, <1>5 DEF SharingInv

\* Parts are given as the map, hence kubelet's list, describes them.
LEMMA SharingAllocateParts ==
  ASSUME IInv, SharingInv, NEW r \in Profile, NEW ids \in SUBSET Part, AllocateParts(r, ids)
  PROVE  SharingInv'
<1>0. Types /\ r \in Res /\ Order(r) /\ Lists(r)
  BY DEF IInv, SharingInv, Res
<1>1. /\ ids \subseteq Free(r) /\ held' = Given(r, ids, map[r])
      /\ \A i \in ids : i \in DOMAIN map[r] /\ i \in Carved
      /\ UNCHANGED <<strategy, part, late, streams, conn>>
  BY DEF AllocateParts, Allocatable, parts
<1>2. /\ \A q \in Res : Lists(q)'
      /\ OfferedWhole => OfferedWhole'
      /\ \A c \in Card : OnCard(c)' = OnCard(c)
  BY <1>1, SameLists
<1>3. /\ DOMAIN held' = DOMAIN held \cup ({r} \X ids)
      /\ \A x \in DOMAIN held : held'[x] = held[x]
      /\ \A x \in DOMAIN held' \ DOMAIN held : held'[x] = map[r][x[2]]
  BY <1>1 DEF Given
<1>4. Cards'
  <2>1. \A c \in Card : <<Whole, c>> \in DOMAIN held' => <<Whole, c>> \in DOMAIN held
    BY <1>3, StaticAssumption
  <2> QED BY <1>1, <1>2, <2>1 DEF SharingInv, Cards, HeldWhole
<1>5. ASSUME NEW i \in ids
      PROVE  part[i] = [card |-> map[r][i], profile |-> r] \/ i \in late
  <2>1. i \in shown[r]
    BY <1>1, <1>5 DEF Free
  <2>2. /\ conn[r] \in Stream /\ pc[r][conn[r]] = "watch" /\ InFlight(r, conn[r])
        /\ i \in DOMAIN listed[r][conn[r]]
    BY <1>0, <2>1 DEF Order, Types, InFlight
  <2>3. i \in late \/ map[r][i] = listed[r][conn[r]][i]
    BY <1>0, <1>1, <1>5, <2>2 DEF Lists, MapAgrees
  <2>4. i \in late \/ part[i] = [card |-> listed[r][conn[r]][i], profile |-> r]
    BY <1>0, <1>1, <1>5, <2>2 DEF Lists, ListsTrue, Carved
  <2> QED BY <2>3, <2>4
<1>6. Users'
  <2>1. SUFFICES ASSUME NEW x \in PartUsers'
                 PROVE  /\ x[2] \in Carved
                        /\ part[x[2]] = [card |-> held'[x], profile |-> x[1]] \/ x[2] \in late
    BY <1>1 DEF Users, Carved
  <2>2. CASE x \in DOMAIN held
    BY <1>3, <2>1, <2>2 DEF SharingInv, Users, PartUsers
  <2>3. CASE x \notin DOMAIN held
    <3>1. x \in {r} \X ids /\ held'[x] = map[r][x[2]]
      BY <1>3, <2>1, <2>3 DEF PartUsers
    <3> QED BY <1>1, <1>5, <3>1
  <2> QED BY <2>2, <2>3
<1> QED BY <1>2, <1>4, <1>6 DEF SharingInv

\* A container ends.
LEMMA SharingEnd ==
  ASSUME SharingInv, NEW y \in DOMAIN held, ContainerEnds(y)
  PROVE  SharingInv'
<1>1. /\ held' = [x \in DOMAIN held \ {y} |-> held[x]]
      /\ UNCHANGED <<strategy, part, late, streams, conn>>
  BY DEF ContainerEnds, parts
<1>2. /\ \A r \in Res : Lists(r)'
      /\ OfferedWhole => OfferedWhole'
      /\ \A c \in Card : OnCard(c)' = OnCard(c)
  BY <1>1, SameLists
<1>3. Cards'
  BY <1>1, <1>2 DEF SharingInv, Cards, HeldWhole
<1>4. Users'
  BY <1>1 DEF SharingInv, Users, PartUsers, Carved
<1> QED BY <1>2, <1>3, <1>4 DEF SharingInv

\* Carving: who has the card or the part listed otherwise is late from now on,
\* and nobody has the card to himself or uses a part that does not exist.
LEMMA SharingCarve ==
  ASSUME IInv, SharingInv, NEW i \in Part, NEW c \in Card, NEW p \in Profile, Carve(i, c, p)
  PROVE  SharingInv'
<1>0. Types
  BY DEF IInv
<1>1. /\ part[i] = Nothing /\ <<Whole, c>> \notin DOMAIN held
      /\ part' = [part EXCEPT ![i] = [card |-> c, profile |-> p]]
      /\ late' = late \cup {x \in {c} : Offered(c)} \cup {x \in {i} : ListedOtherwise(i, c, p)}
      /\ UNCHANGED <<strategy, streams, conn, held>>
  BY DEF Carve, kubelet
<1>2. \A r \in Res, k \in Stream : InFlight(r, k)' <=> InFlight(r, k)
  BY <1>1 DEF InFlight, streams
<1>3. /\ part'[i] = [card |-> c, profile |-> p]
      /\ \A j \in Part : j # i => part'[j] = part[j]
      /\ late \subseteq late'
  BY <1>0, <1>1 DEF Types
<1>4. ASSUME NEW r \in Res PROVE Lists(r)'
  <2>1. Lists(r)
    BY DEF SharingInv
  <2>2. Fresh(r)'
    BY <1>1, <2>1 DEF Lists, Fresh, streams
  <2>3. ASSUME r \in Profile PROVE ListsTrue(r)' /\ ListsAgree(r)' /\ MapAgrees(r)'
    <3>1. ListsTrue(r) /\ ListsAgree(r) /\ MapAgrees(r)
      BY <2>1, <2>3 DEF Lists
    <3>2. ListsAgree(r)' /\ MapAgrees(r)'
      BY <1>1, <1>2, <1>3, <3>1 DEF ListsAgree, MapAgrees, streams
    <3>3. SUFFICES ASSUME NEW k \in Stream, NEW j \in Part, InFlight(r, k),
                          j \in DOMAIN listed[r][k]
                   PROVE  \/ j \in late' \/ part'[j] = Nothing
                          \/ part'[j] = [card |-> listed[r][k][j], profile |-> r]
      BY <1>1, <1>2, <3>2 DEF ListsTrue, streams
    <3>4. CASE j = i
      <4>1. (r = p /\ listed[r][k][i] = c) \/ ListedOtherwise(i, c, p)
        BY <2>3, <3>3, <3>4 DEF ListedOtherwise
      <4> QED BY <1>1, <1>3, <3>4, <4>1
    <3>5. CASE j # i
      BY <1>3, <3>1, <3>3, <3>5 DEF ListsTrue
    <3> QED BY <3>4, <3>5
  <2> QED BY <2>2, <2>3 DEF Lists
<1>5. ASSUME NEW d \in Card PROVE d # c => OnCard(d)' = OnCard(d)
  BY <1>0, <1>1, <1>3 DEF OnCard, Carved, Types
<1>6. Cards'
  <2>1. SUFFICES ASSUME strategy = "mixed" PROVE OfferedWhole' /\ HeldWhole'
    BY <1>1 DEF Cards
  <2>2. OfferedWhole /\ HeldWhole
    BY <2>1 DEF SharingInv, Cards
  <2>3. HeldWhole'
    BY <1>1, <1>3, <1>5, <2>2 DEF HeldWhole
  <2>4. ASSUME NEW k \in Stream, NEW d \in Card, InFlight(Whole, k), d \in DOMAIN listed[Whole][k]
        PROVE  OnCard(d)' = {} \/ d \in late'
    <3>1. CASE d = c
      BY <1>1, <2>4, <3>1 DEF Offered
    <3>2. CASE d # c
      BY <1>3, <1>5, <2>2, <2>4, <3>2 DEF OfferedWhole
    <3> QED BY <3>1, <3>2
  <2>5. Whole \in Res
    BY DEF Res
  <2>6. OfferedWhole'
    BY <1>1, <1>2, <2>4, <2>5 DEF OfferedWhole, streams
  <2> QED BY <2>3, <2>6
<1>7. Users'
  <2>1. PartUsers' = PartUsers /\ held' = held
    BY <1>1 DEF PartUsers
  <2>2. ASSUME NEW x \in PartUsers
        PROVE  /\ x[2] \in Part /\ part'[x[2]] # Nothing
               /\ part'[x[2]] = [card |-> held[x], profile |-> x[1]] \/ x[2] \in late'
    <3>1. x[2] \in Part /\ part[x[2]] # Nothing /\ x[2] # i
      BY <1>1, <2>2 DEF SharingInv, Users, Carved
    <3>2. part[x[2]] = [card |-> held[x], profile |-> x[1]] \/ x[2] \in late
      BY <2>2 DEF SharingInv, Users
    <3> QED BY <1>3, <3>1, <3>2
  <2> QED BY <2>1, <2>2 DEF Users, Carved
<1> QED BY <1>4, <1>6, <1>7 DEF SharingInv

\* Destroying a part that nobody uses.
LEMMA SharingDestroy ==
  ASSUME IInv, SharingInv, NEW i \in Part, DestroyPart(i)
  PROVE  SharingInv'
<1>0. Types
  BY DEF IInv
<1>1. /\ \A p \in Profile : <<p, i>> \notin DOMAIN held
      /\ part' = [part EXCEPT ![i] = Nothing]
      /\ UNCHANGED <<strategy, late, streams, conn, held>>
  BY DEF DestroyPart, kubelet
<1>2. \A r \in Res, k \in Stream : InFlight(r, k)' <=> InFlight(r, k)
  BY <1>1 DEF InFlight, streams
<1>3. part'[i] = Nothing /\ \A j \in Part : j # i => part'[j] = part[j]
  BY <1>0, <1>1 DEF Types
<1>4. ASSUME NEW r \in Res PROVE Lists(r)'
  <2>1. Lists(r)
    BY DEF SharingInv
  <2>2. Fresh(r)'
    BY <1>1, <2>1 DEF Lists, Fresh, streams
  <2>3. ASSUME r \in Profile PROVE ListsTrue(r)' /\ ListsAgree(r)' /\ MapAgrees(r)'
    <3>1. ListsTrue(r) /\ ListsAgree(r) /\ MapAgrees(r)
      BY <2>1, <2>3 DEF Lists
    <3>2. ListsAgree(r)' /\ MapAgrees(r)'
      BY <1>1, <1>2, <3>1 DEF ListsAgree, MapAgrees, streams
    <3>3. ListsTrue(r)'
      BY <1>1, <1>2, <1>3, <3>1 DEF ListsTrue, streams
    <3> QED BY <3>2, <3>3
  <2> QED BY <2>2, <2>3 DEF Lists
<1>5. \A d \in Card : OnCard(d)' \subseteq OnCard(d)
  BY <1>3 DEF OnCard, Carved
<1>6. Cards'
  <2>1. HeldWhole => HeldWhole'
    BY <1>1, <1>5 DEF HeldWhole
  <2>2. Whole \in Res
    BY DEF Res
  <2>3. OfferedWhole => OfferedWhole'
    BY <1>1, <1>2, <1>5, <2>2 DEF OfferedWhole, streams
  <2> QED BY <1>1, <2>1, <2>3 DEF SharingInv, Cards
<1>7. Users'
  <2>1. PartUsers' = PartUsers /\ held' = held
    BY <1>1 DEF PartUsers
  <2>2. ASSUME NEW x \in PartUsers
        PROVE  /\ x[2] \in Part /\ part'[x[2]] # Nothing
               /\ part'[x[2]] = [card |-> held[x], profile |-> x[1]] \/ x[2] \in late
    <3>1. x[2] # i
      <4>1. x = <<x[1], x[2]>> /\ x \in DOMAIN held /\ x[1] \in Profile
        BY <1>0, <2>2 DEF PartUsers, Types
      <4> QED BY <1>1, <4>1
    <3>2. x[2] \in Part /\ part[x[2]] # Nothing
      BY <2>2 DEF SharingInv, Users, Carved
    <3>3. part[x[2]] = [card |-> held[x], profile |-> x[1]] \/ x[2] \in late
      BY <2>2 DEF SharingInv, Users
    <3> QED BY <1>3, <3>1, <3>2, <3>3
  <2> QED BY <1>1, <2>1, <2>2 DEF Users, Carved
<1> QED BY <1>4, <1>6, <1>7 DEF SharingInv

LEMMA SharingInit == Init => SharingInv
<1> SUFFICES ASSUME Init PROVE SharingInv
  OBVIOUS
<1>1. \A r \in Res, k \in Stream : pc[r][k] = "off" /\ DOMAIN listed[r][k] = {} /\ conn[r] = 0
  BY DEF Init, NoDevices
<1>2. DOMAIN held = {}
  BY DEF Init, NoDevices
<1>3. ASSUME NEW r \in Res PROVE Lists(r)
  BY <1>1 DEF Lists, Fresh, ListsTrue, ListsAgree, MapAgrees
<1>4. Cards
  BY <1>1, <1>2 DEF Cards, OfferedWhole, HeldWhole, Res
<1>5. Users
  BY <1>2 DEF Users, PartUsers
<1> QED BY <1>3, <1>4, <1>5 DEF SharingInv

LEMMA SharingNext == IInv /\ SharingInv /\ [Next]_vars => SharingInv'
<1> SUFFICES ASSUME IInv, SharingInv, [Next]_vars PROVE SharingInv'
  OBVIOUS
<1>1. ASSUME NEW r \in Res, NEW k \in Stream, StreamStep(r, k) PROVE SharingInv'
  BY <1>1, SharingList, SharingStream DEF StreamStep
<1>2. CASE Start \/ KubeletRestart \/ PluginRestart \/ \E r \in Res, k \in Stream : Connect(r, k)
  BY <1>2, SharingConnect
<1>3. ASSUME NEW ids \in SUBSET Card, AllocateCards(ids) PROVE SharingInv'
  BY <1>3, SharingAllocateCards
<1>4. ASSUME NEW r \in Profile, NEW ids \in SUBSET Part, AllocateParts(r, ids) PROVE SharingInv'
  BY <1>4, SharingAllocateParts
<1>5. ASSUME NEW x \in DOMAIN held, ContainerEnds(x) PROVE SharingInv'
  BY <1>5, SharingEnd
<1>6. ASSUME NEW i \in Part, NEW c \in Card, NEW p \in Profile, Carve(i, c, p) PROVE SharingInv'
  BY <1>6, SharingCarve
<1>7. ASSUME NEW i \in Part, DestroyPart(i) PROVE SharingInv'
  BY <1>7, SharingDestroy
<1>8. CASE UNCHANGED vars
  <2>1. UNCHANGED <<strategy, part, late, streams, conn, held>>
    BY <1>8 DEF vars, parts, kubelet
  <2>2. /\ \A r \in Res : Lists(r)'
        /\ OfferedWhole => OfferedWhole'
        /\ \A c \in Card : OnCard(c)' = OnCard(c)
    BY <2>1, SameLists
  <2>3. Cards'
    BY <2>1, <2>2 DEF SharingInv, Cards, HeldWhole
  <2>4. Users'
    BY <2>1 DEF SharingInv, Users, PartUsers, Carved
  <2> QED BY <2>2, <2>3, <2>4 DEF SharingInv
<1> QED BY <1>1, <1>2, <1>3, <1>4, <1>5, <1>6, <1>7, <1>8 DEF Next, PluginStep

LEMMA SharingAlways == Spec => [](Types /\ SharingInv)
<1>1. IInv => Types
  BY DEF IInv
<1> QED BY <1>1, InitInv, StepInv, SharingInit, SharingNext, PTL DEF Spec

\* A container with a part has the device nodes of the card the part is on, and
\* a part of the profile it asked for, unless the part's name was given to
\* another carving while a list held it.
THEOREM NodesAreOfTheirCard == Spec => []NodesMatchConf
<1>1. SharingInv => NodesMatchConf
  BY DEF SharingInv, Users, NodesMatchConf
<1> QED BY <1>1, SharingAlways, PTL

\* No card is given to one container whole while another has a part of it or its
\* nodes, however kubelet and the plugin restart, unless it was carved while it
\* was on offer or the name of the part moved.
THEOREM NeverWholeAndInParts == Spec => []WholeOrParts
<1>1. Types /\ SharingInv => WholeOrParts
  <2> SUFFICES ASSUME Types, SharingInv, strategy = "mixed",
                      NEW x \in PartUsers, NEW c \in Card,
                      <<Whole, c>> \in DOMAIN held, c \in {held[x], part[x[2]].card},
                      x[2] \notin late
               PROVE  c \in late
    BY DEF WholeOrParts
  <2>1. x[2] \in Carved /\ part[x[2]] = [card |-> held[x], profile |-> x[1]]
    BY DEF SharingInv, Users
  <2>2. part[x[2]].card = c
    BY <2>1
  <2>3. x[2] \in OnCard(c)
    BY <2>1, <2>2 DEF OnCard
  <2> QED BY <2>3 DEF SharingInv, Cards, HeldWhole
<1> QED BY <1>1, SharingAlways, PTL

-----------------------------------------------------------------------------
(* All there is is offered                                                 *)

\* The strategies that name the resource.
Named(r) == IF r = Whole THEN strategy \in {"hcu", "mixed", "hami"} ELSE HasParts

\* A resource without a plugin has nothing to offer, but for a failure at the
\* start or a later change.
Unnamed(r) ==
  /\ r \in resources => Named(r)
  /\ phase = "parts" => HasParts /\ (r = Whole /\ Named(r) => r \in resources)
  /\ phase = "up" /\ r \notin resources /\ r \notin stale => Actual(r) = {}

\* kubelet's stream has listed what there is, but for a failure of its own or a
\* later change, and has shown what it listed.
Current(r) ==
  conn[r] # 0 =>
    /\ pc[r][conn[r]] = "ended" => r \in stale
    /\ pc[r][conn[r]] = "watch" => shown[r] = DOMAIN listed[r][conn[r]]
    /\ pc[r][conn[r]] \in {"store", "send", "watch"} /\ r \notin stale
         => DOMAIN listed[r][conn[r]] = Actual(r)

OfferInv ==
  /\ phase \in {"whole", "parts", "up"} /\ strategy \in Strategies
  /\ \A r \in Res : Unnamed(r) /\ Current(r)

\* A plugin lists what its resource really has.
LEMMA DevicesActual ==
  ASSUME NEW r \in Res, Named(r)
  PROVE  DOMAIN Devices(r) = Actual(r)
<1>1. CASE r = Whole
  <2>1. DOMAIN Devices(r) = {d \in Card : strategy = "mixed" => OnCard(d) = {}}
    BY <1>1 DEF Devices
  <2>2. CASE strategy = "mixed"
    BY <1>1, <2>1, <2>2 DEF Actual
  <2>3. CASE strategy \in {"hcu", "hami"}
    BY <1>1, <2>1, <2>3 DEF Actual
  <2> QED BY <1>1, <2>2, <2>3 DEF Named
<1>2. CASE r # Whole
  BY <1>2 DEF Devices, CardOf, Actual, Named
<1> QED BY <1>1, <1>2

\* Only start() names resources.
LEMMA OfferStart ==
  ASSUME IInv, OfferInv, Start
  PROVE  OfferInv'
<1>0. /\ Types /\ \A r \in Res : Order(r) /\ Unnamed(r) /\ Current(r)
      /\ phase \in {"whole", "parts", "up"} /\ strategy \in Strategies
  BY DEF IInv, OfferInv
<1>1. UNCHANGED <<strategy, part, pc, listed, conn, shown>>
  BY DEF Start, StartWhole, StartParts, StartPartsFails, StartWithoutDriver, parts, streams, kubelet
<1>2. /\ HasParts' = HasParts
      /\ \A r \in Res : Named(r)' = Named(r) /\ Actual(r)' = Actual(r)
  BY <1>1 DEF HasParts, Named, Actual, OnCard, OfProfile, Carved
<1>3. stale \subseteq stale'
  <2>1. CASE StartWithoutDriver
    BY <1>0, <2>1 DEF StartWithoutDriver, Types
  <2>2. CASE StartWhole \/ StartParts \/ StartPartsFails
    BY <2>2 DEF StartWhole, StartParts, StartPartsFails
  <2> QED BY <2>1, <2>2 DEF Start
<1>4. ASSUME NEW r \in Res PROVE Current(r)'
  BY <1>0, <1>1, <1>2, <1>3 DEF Current
<1>5. ASSUME NEW r \in Res PROVE Unnamed(r)'
  <2>1. CASE StartWhole
    <3>1. /\ (HasParts /\ phase' = "parts") \/ (~HasParts /\ phase' = "up")
          /\ stale' = stale
          /\ resources' = IF strategy \in {"hcu", "mixed", "hami"} THEN {Whole} ELSE {}
      BY <2>1 DEF StartWhole, HasParts
    <3>2. ~Named(r) => Actual(r) = {}
      BY <1>0, StaticAssumption DEF Named, Actual
    <3>3. r \in resources' <=> r = Whole /\ Named(r)
      BY <3>1 DEF Named
    <3>4. ~HasParts /\ r # Whole => Actual(r) = {}
      BY DEF Actual
    <3> QED BY <1>2, <3>1, <3>2, <3>3, <3>4 DEF Unnamed
  <2>2. CASE StartParts
    <3>1. /\ phase = "parts" /\ phase' = "up" /\ stale' = stale
          /\ resources' = resources \cup {p \in Profile : OfProfile(p) # {}}
      BY <2>2 DEF StartParts
    <3>2. HasParts /\ Unnamed(r)
      BY <1>0, <3>1 DEF Unnamed
    <3>3. CASE r = Whole
      <4>1. r \notin Profile
        BY <3>3, StaticAssumption
      <4>2. ~Named(r) => Actual(r) = {}
        BY <1>0, <3>3, StaticAssumption DEF Named, Actual
      <4> QED BY <1>2, <3>1, <3>2, <3>3, <4>1, <4>2 DEF Unnamed
    <3>4. CASE r # Whole
      <4>1. r \in Profile /\ Named(r) /\ Actual(r) = OfProfile(r)
        BY <3>2, <3>4 DEF Res, Named, Actual
      <4> QED BY <1>2, <3>1, <4>1 DEF Unnamed
    <3> QED BY <3>3, <3>4
  <2>3. CASE StartPartsFails
    <3>1. /\ phase = "parts" /\ phase' = "up" /\ stale' = stale \cup Profile
          /\ resources' = resources
      BY <2>3 DEF StartPartsFails
    <3>2. Unnamed(r)
      BY <1>0
    <3>3. CASE r = Whole
      <4>1. ~Named(r) => Actual(r) = {}
        BY <1>0, <3>3, StaticAssumption DEF Named, Actual
      <4> QED BY <1>2, <3>1, <3>2, <3>3, <4>1 DEF Unnamed
    <3>4. CASE r # Whole
      BY <1>2, <3>1, <3>2, <3>4 DEF Unnamed, Res
    <3> QED BY <3>3, <3>4
  <2>4. CASE StartWithoutDriver
    <3>1. phase' = "up" /\ stale' = Res /\ resources' = resources
      BY <2>4 DEF StartWithoutDriver
    <3> QED BY <1>0, <1>2, <3>1 DEF Unnamed
  <2> QED BY <2>1, <2>2, <2>3, <2>4 DEF Start
<1>6. phase' \in {"whole", "parts", "up"}
  BY DEF Start, StartWhole, StartParts, StartPartsFails, StartWithoutDriver
<1> QED BY <1>0, <1>1, <1>4, <1>5, <1>6 DEF OfferInv

\* Steps of a stream change what its own resource is known to offer.
LEMMA OfferStream ==
  ASSUME IInv, OfferInv, NEW q \in Res, NEW k \in Stream, StreamStep(q, k)
  PROVE  OfferInv'
<1>0. /\ Types /\ \A r \in Res : Order(r) /\ Unnamed(r) /\ Current(r)
      /\ phase \in {"whole", "parts", "up"} /\ strategy \in Strategies
  BY DEF IInv, OfferInv
<1>1. UNCHANGED <<strategy, part, phase, resources, conn>>
  BY DEF StreamStep, List, ListFails, NameFails, Store, Send, parts, plugin, kubelet
<1>2. /\ HasParts' = HasParts
      /\ \A r \in Res : Named(r)' = Named(r) /\ Actual(r)' = Actual(r)
  BY <1>1 DEF HasParts, Named, Actual, OnCard, OfProfile, Carved
<1>3. PICK to \in {"store", "ended", "send", "watch"} :
        /\ Goto(q, k, to) /\ pc[q][k] \in {"list", "store", "send"}
        /\ to \in {"send", "watch"} => stale' = stale
        /\ to = "send" => pc[q][k] = "store"
        /\ to = "watch" => pc[q][k] = "send"
        /\ to \in {"store", "ended"} /\ conn[q] # k => stale' = stale
        /\ \/ to = "store" /\ listed' = [listed EXCEPT ![q][k] = Devices(q)]
              /\ (conn[q] = k => stale' = stale \ {q})
           \/ to \in {"store", "ended"} /\ listed' = listed
              /\ (conn[q] = k => stale' = stale \cup {q})
           \/ to \in {"send", "watch"} /\ listed' = listed
        /\ shown' = IF to = "watch" /\ conn[q] = k
                    THEN [shown EXCEPT ![q] = DOMAIN listed[q][k]] ELSE shown
  <2>1. CASE List(q, k)
    BY <2>1 DEF List, kubelet
  <2>2. CASE ListFails(q, k)
    BY <2>2 DEF ListFails, kubelet
  <2>3. CASE q = Whole /\ NameFails(k)
    BY <2>3 DEF NameFails, kubelet
  <2>4. CASE Store(q, k)
    BY <2>4 DEF Store, kubelet
  <2>5. CASE Send(q, k)
    BY <2>5 DEF Send
  <2> QED BY <2>1, <2>2, <2>3, <2>4, <2>5 DEF StreamStep
<1>4. \A r \in Res, l \in Stream : pc'[r][l] = IF r = q /\ l = k THEN to ELSE pc[r][l]
  BY <1>0, <1>3 DEF Types, Goto
<1>5. ASSUME NEW r \in Res, ~(r = q /\ conn[r] = k)
      PROVE  Unnamed(r)' /\ Current(r)'
  <2>1. r \in stale' <=> r \in stale
    BY <1>3, <1>5
  <2>2. shown'[r] = shown[r]
    BY <1>0, <1>3, <1>5 DEF Types
  <2>3. conn[r] # 0 => /\ pc'[r][conn[r]] = pc[r][conn[r]]
                       /\ listed'[r][conn[r]] = listed[r][conn[r]]
    BY <1>0, <1>3, <1>4, <1>5 DEF Types
  <2>4. Unnamed(r)'
    BY <1>0, <1>1, <1>2, <2>1 DEF Unnamed
  <2>5. Current(r)'
    BY <1>0, <1>1, <1>2, <2>1, <2>2, <2>3 DEF Current
  <2> QED BY <2>4, <2>5
<1>6. ASSUME conn[q] = k PROVE Unnamed(q)' /\ Current(q)'
  <2>1. k # 0 /\ q \in resources /\ Named(q) /\ pc'[q][k] = to
    BY <1>0, <1>4, <1>6, StreamNats DEF Order, Unnamed
  <2>2. Unnamed(q)'
    BY <1>0, <1>1, <1>2, <2>1 DEF Unnamed
  <2>3. CASE to = "store" /\ listed' = [listed EXCEPT ![q][k] = Devices(q)] /\ stale' = stale \ {q}
    <3>1. DOMAIN listed'[q][k] = Actual(q)
      BY <1>0, <2>1, <2>3, DevicesActual DEF Types
    <3> QED BY <1>1, <1>2, <1>6, <2>1, <2>2, <2>3, <3>1 DEF Current
  <2>4. CASE to \in {"store", "ended"} /\ stale' = stale \cup {q}
    BY <1>1, <1>6, <2>1, <2>2, <2>4 DEF Current
  <2>5. CASE to = "send"
    BY <1>0, <1>1, <1>2, <1>3, <1>6, <2>1, <2>2, <2>5 DEF Current
  <2>6. CASE to = "watch"
    <3>1. shown'[q] = DOMAIN listed[q][k] /\ listed' = listed
      BY <1>0, <1>3, <1>6, <2>6 DEF Types
    <3> QED BY <1>0, <1>1, <1>2, <1>3, <1>6, <2>1, <2>2, <2>6, <3>1 DEF Current
  <2> QED BY <1>3, <1>6, <2>3, <2>4, <2>5, <2>6
<1> QED BY <1>0, <1>1, <1>5, <1>6 DEF OfferInv

\* kubelet and the plugin come and go.
LEMMA OfferConnect ==
  ASSUME IInv, OfferInv,
         \/ \E q \in Res, k \in Stream : Connect(q, k)
         \/ KubeletRestart \/ PluginRestart
  PROVE  OfferInv'
<1>0. /\ Types /\ \A r \in Res : Order(r) /\ Unnamed(r) /\ Current(r)
      /\ phase \in {"whole", "parts", "up"} /\ strategy \in Strategies
  BY DEF IInv, OfferInv
<1>1. UNCHANGED <<strategy, part>>
  BY DEF Connect, KubeletRestart, PluginRestart, parts
<1>2. /\ HasParts' = HasParts
      /\ \A r \in Res : Named(r)' = Named(r) /\ Actual(r)' = Actual(r)
  BY <1>1 DEF HasParts, Named, Actual, OnCard, OfProfile, Carved
<1>3. CASE \E q \in Res, k \in Stream : Connect(q, k)
  <2>1. PICK q \in Res, k \in Stream : Connect(q, k)
    BY <1>3
  <2>2. /\ conn' = [conn EXCEPT ![q] = k] /\ Goto(q, k, "list")
        /\ pc[q][k] = "off" /\ conn[q] = 0
        /\ UNCHANGED <<phase, resources, listed, shown, stale>>
    BY <2>1 DEF Connect, plugin
  <2>3. /\ \A r \in Res, l \in Stream :
             pc'[r][l] = IF r = q /\ l = k THEN "list" ELSE pc[r][l]
        /\ \A r \in Res : conn'[r] = IF r = q THEN k ELSE conn[r]
    BY <1>0, <2>2 DEF Types, Goto
  <2>4. ASSUME NEW r \in Res PROVE Unnamed(r)' /\ Current(r)'
    <3>1. Unnamed(r)'
      BY <1>0, <1>2, <2>2 DEF Unnamed
    <3>2. CASE r = q
      BY <2>3, <3>1, <3>2 DEF Current
    <3>3. CASE r # q
      <4>1. conn'[r] = conn[r] /\ (conn[r] # 0 => pc'[r][conn[r]] = pc[r][conn[r]])
        BY <1>0, <2>3, <3>3 DEF Types
      <4> QED BY <1>0, <1>2, <2>2, <3>1, <4>1 DEF Current
    <3> QED BY <3>2, <3>3
  <2> QED BY <1>0, <1>1, <2>2, <2>4 DEF OfferInv
<1>4. CASE KubeletRestart
  <2>1. conn' = [r \in Res |-> 0] /\ UNCHANGED <<phase, resources, stale>>
    BY <1>4 DEF KubeletRestart, plugin
  <2>2. ASSUME NEW r \in Res PROVE Unnamed(r)' /\ Current(r)'
    BY <1>0, <1>2, <2>1 DEF Unnamed, Current
  <2> QED BY <1>0, <1>1, <2>1, <2>2 DEF OfferInv
<1>5. CASE PluginRestart
  <2>1. conn' = [r \in Res |-> 0] /\ phase' = "whole" /\ resources' = {}
    BY <1>5 DEF PluginRestart
  <2>2. ASSUME NEW r \in Res PROVE Unnamed(r)' /\ Current(r)'
    BY <2>1 DEF Unnamed, Current
  <2> QED BY <1>0, <1>1, <2>1, <2>2 DEF OfferInv
<1> QED BY <1>3, <1>4, <1>5

\* Parts change only under a profile of their own, and on the whole cards.
LEMMA OfferChange ==
  ASSUME IInv, OfferInv, NEW i \in Part, NEW p \in Profile, Change(p),
         \A r \in Profile : r # p => OfProfile(r)' = OfProfile(r),
         UNCHANGED <<strategy, plugin, streams, conn, shown>>
  PROVE  OfferInv'
<1>0. /\ \A r \in Res : Unnamed(r) /\ Current(r)
      /\ phase \in {"whole", "parts", "up"} /\ strategy \in Strategies
  BY DEF OfferInv
<1>1. /\ UNCHANGED <<phase, resources, pc, listed, conn, shown>>
      /\ stale' = stale \cup {r \in {p, Whole} : Passed(r)}
  BY DEF plugin, streams, Change
<1>2. HasParts' = HasParts /\ \A r \in Res : Named(r)' = Named(r)
  BY DEF HasParts, Named
<1>3. ASSUME NEW r \in Res PROVE Unnamed(r)' /\ Current(r)'
  <2>1. CASE r \in {p, Whole} /\ Passed(r)
    <3>1. r \in stale'
      BY <1>1, <2>1
    <3> QED BY <1>0, <1>1, <1>2, <3>1 DEF Unnamed, Current
  <2>2. CASE r \in {p, Whole} /\ ~Passed(r)
    <3>1. \/ r \in resources /\ (conn[r] = 0 \/ pc[r][conn[r]] = "list")
          \/ r \notin resources /\ phase # "up"
      BY <2>2 DEF Passed
    <3>2. conn[r] # 0 => r \in resources
      BY DEF IInv, Order
    <3>3. r \in stale' <=> r \in stale
      BY <1>1, <2>2
    <3> QED BY <1>0, <1>1, <1>2, <3>1, <3>2, <3>3 DEF Unnamed, Current
  <2>3. CASE r \notin {p, Whole}
    <3>1. Actual(r)' = Actual(r)
      BY <1>2, <2>3 DEF Actual, Res
    <3>2. r \in stale' <=> r \in stale
      BY <1>1, <2>3
    <3> QED BY <1>0, <1>1, <1>2, <3>1, <3>2 DEF Unnamed, Current
  <2> QED BY <2>1, <2>2, <2>3
<1> QED BY <1>0, <1>1, <1>3 DEF OfferInv

\* Steps of the containers.
LEMMA OfferSame ==
  ASSUME OfferInv, UNCHANGED <<strategy, part, plugin, streams, conn, shown, stale>>
  PROVE  OfferInv'
<1>1. UNCHANGED <<phase, resources, pc, listed>>
  BY DEF plugin, streams
<1>2. /\ HasParts' = HasParts
      /\ \A r \in Res : Named(r)' = Named(r) /\ Actual(r)' = Actual(r)
  BY DEF HasParts, Named, Actual, OnCard, OfProfile, Carved
<1> QED BY <1>1, <1>2 DEF OfferInv, Unnamed, Current

LEMMA OfferInit == Init => OfferInv
  BY DEF Init, OfferInv, Unnamed, Current

LEMMA OfferNext == IInv /\ OfferInv /\ [Next]_vars => OfferInv'
<1> SUFFICES ASSUME IInv, OfferInv, [Next]_vars PROVE OfferInv'
  OBVIOUS
<1>0. Types
  BY DEF IInv
<1>1. CASE Start
  BY <1>1, OfferStart
<1>2. ASSUME NEW r \in Res, NEW k \in Stream, StreamStep(r, k) PROVE OfferInv'
  BY <1>2, OfferStream
<1>3. CASE KubeletRestart \/ PluginRestart \/ \E r \in Res, k \in Stream : Connect(r, k)
  BY <1>3, OfferConnect
<1>4. ASSUME NEW ids \in SUBSET Card, AllocateCards(ids) PROVE OfferInv'
  BY <1>4, OfferSame DEF AllocateCards, parts
<1>5. ASSUME NEW r \in Profile, NEW ids \in SUBSET Part, AllocateParts(r, ids) PROVE OfferInv'
  BY <1>5, OfferSame DEF AllocateParts, parts
<1>6. ASSUME NEW x \in DOMAIN held, ContainerEnds(x) PROVE OfferInv'
  BY <1>6, OfferSame DEF ContainerEnds, parts
<1>7. ASSUME NEW i \in Part, NEW c \in Card, NEW p \in Profile, Carve(i, c, p) PROVE OfferInv'
  <2>1. \A r \in Profile : r # p => OfProfile(r)' = OfProfile(r)
    <3>1. /\ part[i] = Nothing /\ part'[i] = [card |-> c, profile |-> p]
          /\ \A j \in Part : j # i => part'[j] = part[j]
      BY <1>0, <1>7 DEF Carve, Types
    <3> QED BY <3>1 DEF OfProfile, Carved
  <2> QED BY <1>7, <2>1, OfferChange DEF Carve, kubelet
<1>8. ASSUME NEW i \in Part, DestroyPart(i) PROVE OfferInv'
  <2>1. part[i].profile \in Profile
    BY <1>0, <1>8 DEF DestroyPart, Types, Carved, Carving
  <2>2. \A r \in Profile : r # part[i].profile => OfProfile(r)' = OfProfile(r)
    <3>1. part'[i] = Nothing /\ \A j \in Part : j # i => part'[j] = part[j]
      BY <1>0, <1>8 DEF DestroyPart, Types
    <3> QED BY <3>1 DEF OfProfile, Carved
  <2> QED BY <1>8, <2>1, <2>2, OfferChange DEF DestroyPart, kubelet
<1>9. CASE UNCHANGED vars
  BY <1>9, OfferSame DEF vars, parts, kubelet
<1> QED BY <1>1, <1>2, <1>3, <1>4, <1>5, <1>6, <1>7, <1>8, <1>9 DEF Next, PluginStep

\* When start() and kubelet's stream are through, kubelet is shown exactly the
\* cards and parts there are, each in one way, for every resource that did not
\* change, and had no failure, since its list or its name was looked up.
THEOREM AllOfferedOnce == Spec => []OfferedOnce
<1>1. IInv /\ OfferInv => OfferedOnce
  <2> SUFFICES ASSUME IInv, OfferInv, NEW r \in Res, Settled(r), r \notin stale
               PROVE  shown[r] = Actual(r)
    BY DEF OfferedOnce
  <2>0. Order(r) /\ Unnamed(r) /\ Current(r)
    BY DEF IInv, OfferInv
  <2>1. CASE r \in resources
    BY <2>0, <2>1 DEF Settled, Current
  <2>2. CASE r \notin resources
    BY <2>0, <2>2 DEF Settled, Order, Unnamed
  <2> QED BY <2>1, <2>2
<1> QED BY <1>1, InitInv, StepInv, OfferInit, OfferNext, PTL DEF Spec
=============================================================================
