---------------------------- MODULE StaticDevices ----------------------------
(***************************************************************************)
(* Cards and parts of cards that an administrator has carved out, offered  *)
(* to kubelet under resources of their own: the strategies "hcu", "vhcu",  *)
(* "mig" and "mixed"; and the cards of strategy "hami", as far as their    *)
(* list goes.  The resources are named once, when the process starts.      *)
(* Each has a plugin object, whose ListAndWatch streams list the           *)
(* devices when they start, store the list in the plugin's map and send    *)
(* it; Allocate looks devices up in that map.  Meanwhile the administrator *)
(* carves and destroys parts, kubelet and the plugin restart.              *)
(*                                                                         *)
(* Code: cmd/main.go (start, startDevicePlugin), internal/pkg/plugin/      *)
(* plugin.go (ListAndWatchHCUs, -VirtualHCUs, -MigHCUs, AllocateHCUs,      *)
(* -VirtualHCUs, -MigHCUs), internal/pkg/util/hcu.go (GetAll...).          *)
(* kubelet, DCGM and the administrator are external.  The health that      *)
(* heartbeats refresh is in DeviceWatch.                                   *)
(***************************************************************************)
EXTENDS Integers, FiniteSets, Functions

CONSTANTS
  Card,
  Part,        \* names of parts: vdev<n>, or the UUIDs of MIG instances
  Profile,     \* their profiles, each a resource: share-..., mig-...
  Whole,       \* the resource of whole cards
  Strategies,  \* the strategies to look at
  Streams,     \* streams a resource may have in the life of a process
  Nothing,     \* the part does not exist
  MayFail,     \* kinds of calls that may fail
  MaxUpsets    \* failed calls, parts carved or destroyed after the first start,
               \* restarts of the plugin or of kubelet

Res == Profile \cup {Whole}
Carving == [card : Card, profile : Profile]

ASSUME StaticAssumption ==
  /\ Whole \notin Profile /\ Card \cap Part = {} /\ Nothing \notin Carving
  /\ Strategies \subseteq {"hcu", "vhcu", "mig", "mixed", "hami"}
  /\ MayFail \subseteq {"driver", "start", "list", "name"}
  /\ Streams \in Nat \ {0} /\ MaxUpsets \in Nat

VARIABLES
  strategy,
  part,      \* part[i]: the card and the profile of part i, or Nothing
  uuids,     \* parts that ever existed: a UUID is not given twice
  phase,     \* how far start() is: "whole", "parts" or "up"
  resources, \* the resources it has started plugins for
  pc,        \* pc[r][k]: what stream k of resource r does next
  listed,    \* listed[r][k]: the devices stream k listed, and the card of each
  map,       \* map[r]: the plugin's HCUs, VirtualHCUs or MigHCUs
  conn,      \* conn[r]: the stream kubelet reads, or 0
  shown,     \* shown[r]: the devices it told kubelet of
  held,      \* held[<<r, i>>]: the card whose nodes the user of device i got
  late,      \* history: cards carved when they were offered whole, and parts
             \* carved anew when a stream had them listed otherwise
  stale,     \* history: resources whose list or name is older than a change
  overtaken, \* history: resources whose map an older stream stored last
  upsets     \* how many there were

parts == <<part, uuids>>
plugin == <<phase, resources>>
streams == <<pc, listed, map, overtaken>>
kubelet == <<conn, shown, held>>
vars == <<strategy, parts, plugin, streams, kubelet, late, stale, upsets>>

Stream == 1 .. Streams
NoDevices == <<>>
Goto(r, k, to) == pc' = [pc EXCEPT ![r][k] = to]
Upset == upsets < MaxUpsets /\ upsets' = upsets + 1
Fault(kind) == kind \in MayFail /\ Upset

Carved == {i \in Part : part[i] # Nothing}
OfProfile(p) == {i \in Carved : part[i].profile = p}
OnCard(c) == {i \in Carved : part[i].card = c}
HasParts == strategy \in {"vhcu", "mig", "mixed"}

-----------------------------------------------------------------------------
(* start(): which resources there are                                      *)

\* The strategies with whole cards start their plugin first.
StartWhole ==
  /\ phase = "whole"
  /\ phase' = IF HasParts THEN "parts" ELSE "up"
  /\ resources' = IF strategy \in {"hcu", "mixed", "hami"} THEN {Whole} ELSE {}
  /\ UNCHANGED <<strategy, parts, streams, kubelet, late, stale, upsets>>

\* A plugin for each profile that some part has at this moment.
StartParts ==
  /\ phase = "parts"
  /\ phase' = "up"
  /\ resources' = resources \cup {p \in Profile : OfProfile(p) # {}}
  /\ UNCHANGED <<strategy, parts, streams, kubelet, late, stale, upsets>>

\* The error of the query is logged and no profile is found.
StartPartsFails ==
  /\ phase = "parts"
  /\ Fault("start")
  /\ phase' = "up"
  /\ stale' = stale \cup Profile
  /\ UNCHANGED <<strategy, parts, resources, streams, kubelet, late>>

\* There is no /sys/class/kfd yet, and nobody looks for it again.
StartWithoutDriver ==
  /\ phase = "whole"
  /\ Fault("driver")
  /\ phase' = "up"
  /\ stale' = Res
  /\ UNCHANGED <<strategy, parts, resources, streams, kubelet, late>>

-----------------------------------------------------------------------------
(* ListAndWatch                                                            *)

WholeCards == [c \in Card |-> c]
CardOf(ids) == [i \in ids |-> part[i].card]

\* Mutants of Devices: cards are offered whole whatever was carved out of
\* them; parts are offered under every profile.
AllCards(r) == IF r = Whole THEN WholeCards ELSE CardOf(OfProfile(r))
AnyProfile(r) ==
  IF r = Whole THEN [c \in {d \in Card : strategy = "mixed" => OnCard(d) = {}} |-> c]
  ELSE CardOf(Carved)

\* GetAllPhysicalDevices, without the carved cards in mixed mode; or the parts
\* of the resource's profile.
Devices(r) ==
  IF r = Whole THEN [c \in {d \in Card : strategy = "mixed" => OnCard(d) = {}} |-> c]
  ELSE CardOf(OfProfile(r))

List(r, k) ==
  /\ pc[r][k] = "list"
  /\ listed' = [listed EXCEPT ![r][k] = Devices(r)]
  /\ stale' = IF conn[r] = k THEN stale \ {r} ELSE stale
  /\ Goto(r, k, "store")
  /\ UNCHANGED <<strategy, parts, plugin, map, overtaken, kubelet, late, upsets>>

\* The query's error is logged and the list is empty.
ListFails(r, k) ==
  /\ pc[r][k] = "list"
  /\ Fault("list")
  /\ stale' = IF conn[r] = k THEN stale \cup {r} ELSE stale
  /\ Goto(r, k, "store")
  /\ UNCHANGED <<strategy, parts, plugin, listed, map, overtaken, kubelet, late>>

\* Under POLICY 1 and 2 the name of the resource is computed again from DCGM's
\* first card; without it ListAndWatch returns, and kubelet has no endpoint.
\* The name of HAMi's resource is recognised without DCGM.
NameFails(k) ==
  /\ strategy # "hami"
  /\ pc[Whole][k] = "list"
  /\ Fault("name")
  /\ stale' = IF conn[Whole] = k THEN stale \cup {Whole} ELSE stale
  /\ Goto(Whole, k, "ended")
  /\ UNCHANGED <<strategy, parts, plugin, listed, map, overtaken, kubelet, late>>

Newer(r, k) == {l \in Stream : l > k /\ pc[r][l] \in {"send", "watch"}}
Overtake(r, k) ==
  overtaken' = IF Newer(r, k) # {} THEN overtaken \cup {r} ELSE overtaken

\* Mutant of Store: the list is sent but not stored.
StoreNothing(r, k) ==
  /\ pc[r][k] = "store"
  /\ Overtake(r, k)
  /\ Goto(r, k, "send")
  /\ UNCHANGED <<strategy, parts, plugin, listed, map, kubelet, late, stale, upsets>>

\* setHCUs, setVirtualHCUs, setMigHCUs.
Store(r, k) ==
  /\ pc[r][k] = "store"
  /\ map' = [map EXCEPT ![r] = listed[r][k]]
  /\ Overtake(r, k)
  /\ Goto(r, k, "send")
  /\ UNCHANGED <<strategy, parts, plugin, listed, kubelet, late, stale, upsets>>

\* Mutant of Send: the plugin's map is sent, which is not the stream's own.
SendMap(r, k) ==
  /\ pc[r][k] = "send"
  /\ shown' = IF conn[r] = k THEN [shown EXCEPT ![r] = DOMAIN map[r]] ELSE shown
  /\ Goto(r, k, "watch")
  /\ UNCHANGED <<strategy, parts, plugin, listed, map, overtaken, conn, held, late, stale, upsets>>

\* The list is sent, once, and then again at every heartbeat.
Send(r, k) ==
  /\ pc[r][k] = "send"
  /\ shown' = IF conn[r] = k THEN [shown EXCEPT ![r] = DOMAIN listed[r][k]] ELSE shown
  /\ Goto(r, k, "watch")
  /\ UNCHANGED <<strategy, parts, plugin, listed, map, overtaken, conn, held, late, stale, upsets>>

StreamStep(r, k) ==
  \/ List(r, k) \/ ListFails(r, k) \/ Store(r, k) \/ Send(r, k)
  \/ r = Whole /\ NameFails(k)

-----------------------------------------------------------------------------
(* Allocate                                                                *)

\* What kubelet may ask for: devices it was shown and no container holds.
Free(r) == {i \in shown[r] : <<r, i>> \notin DOMAIN held}
Given(r, ids, card) ==
  [x \in DOMAIN held \cup ({r} \X ids) |-> IF x \in DOMAIN held THEN held[x] ELSE card[x[2]]]

\* AllocateHCUs: a device's name is its PCI address, and no map is looked at.
\* Under the prefix policies Allocate first asks DCGM for the name of the
\* resource; when that fails it answers with nothing, and no device is held.
\* What AllocateHAMiHCUs does instead is in VhcuLifecycle.
AllocateCards(ids) ==
  /\ strategy # "hami"
  /\ ids # {} /\ ids \subseteq Free(Whole)
  /\ held' = Given(Whole, ids, WholeCards)
  /\ UNCHANGED <<strategy, parts, plugin, streams, conn, shown, late, stale, upsets>>

\* Mutant of Allocatable: the conf file is mounted unseen.
InMap(r, i) == i \in DOMAIN map[r]

\* The device is in the map and there is a conf file of that name, or DCGM
\* knows the MIG instance.
Allocatable(r, i) == i \in DOMAIN map[r] /\ i \in Carved

\* AllocateVirtualHCUs and AllocateMigHCUs; an error leaves all as it is.
AllocateParts(r, ids) ==
  /\ ids # {} /\ ids \subseteq Free(r)
  /\ \A i \in ids : Allocatable(r, i)
  /\ held' = Given(r, ids, map[r])
  /\ UNCHANGED <<strategy, parts, plugin, streams, conn, shown, late, stale, upsets>>

-----------------------------------------------------------------------------
(* External: kubelet, containers, the administrator, crashes               *)

Connect(r, k) ==
  /\ r \in resources /\ conn[r] = 0
  /\ pc[r][k] = "off" /\ \A l \in 1 .. k - 1 : pc[r][l] # "off"
  /\ conn' = [conn EXCEPT ![r] = k]
  /\ Goto(r, k, "list")
  /\ UNCHANGED <<strategy, parts, plugin, listed, map, overtaken, shown, held, late, stale, upsets>>

\* kubelet restarts and forgets the lists, not what its containers hold.  The
\* old streams run on.
KubeletRestart ==
  /\ \E r \in Res : conn[r] # 0
  /\ \A r \in Res : conn[r] < Streams
  /\ Upset
  /\ conn' = [r \in Res |-> 0]
  /\ shown' = [r \in Res |-> {}]
  /\ UNCHANGED <<strategy, parts, plugin, streams, held, late, stale>>

ContainerEnds(x) ==
  /\ x \in DOMAIN held
  /\ held' = [y \in DOMAIN held \ {x} |-> held[y]]
  /\ UNCHANGED <<strategy, parts, plugin, streams, conn, shown, late, stale, upsets>>

PluginRestart ==
  /\ phase = "up"
  /\ Upset
  /\ phase' = "whole" /\ resources' = {}
  /\ pc' = [r \in Res |-> [k \in Stream |-> "off"]]
  /\ listed' = [r \in Res |-> [k \in Stream |-> NoDevices]]
  /\ map' = [r \in Res |-> NoDevices]
  /\ conn' = [r \in Res |-> 0] /\ shown' = [r \in Res |-> {}]
  /\ stale' = {} /\ overtaken' = {}
  /\ UNCHANGED <<strategy, parts, held, late>>

\* What the plugin still has listed while the administrator changes it.
InFlight(r, k) == pc[r][k] = "store" \/ (conn[r] = k /\ pc[r][k] \in {"send", "watch"})
Offered(c) == \E k \in Stream : InFlight(Whole, k) /\ c \in DOMAIN listed[Whole][k]
ListedOtherwise(i, c, p) ==
  \E r \in Profile, k \in Stream :
    /\ InFlight(r, k) /\ i \in DOMAIN listed[r][k]
    /\ r # p \/ listed[r][k][i] # c

\* The resource has its list, or was not found when the resources were named.
Passed(r) ==
  IF r \in resources THEN conn[r] # 0 /\ pc[r][conn[r]] # "list" ELSE phase = "up"
Change(p) ==
  /\ Upset
  /\ stale' = stale \cup {r \in {p, Whole} : Passed(r)}

\* hy-smi: nobody carves a card that a container has to itself, or destroys a
\* part in use; the index of a vHCU is used again, the UUID of a MIG instance
\* is not.
Carve(i, c, p) ==
  /\ part[i] = Nothing
  /\ <<Whole, c>> \notin DOMAIN held
  /\ strategy = "mig" => i \notin uuids
  /\ Change(p)
  /\ part' = [part EXCEPT ![i] = [card |-> c, profile |-> p]]
  /\ uuids' = IF strategy = "mig" THEN uuids \cup {i} ELSE uuids
  /\ late' = late \cup {x \in {c} : Offered(c)} \cup {x \in {i} : ListedOtherwise(i, c, p)}
  /\ UNCHANGED <<strategy, plugin, streams, kubelet>>

DestroyPart(i) ==
  /\ i \in Carved
  /\ \A p \in Profile : <<p, i>> \notin DOMAIN held
  /\ Change(part[i].profile)
  /\ part' = [part EXCEPT ![i] = Nothing]
  /\ UNCHANGED <<strategy, uuids, plugin, streams, kubelet, late>>

-----------------------------------------------------------------------------
Init ==
  /\ strategy \in Strategies
  /\ part \in [Part -> Carving \cup {Nothing}]
  /\ uuids = IF strategy = "mig" THEN {i \in Part : part[i] # Nothing} ELSE {}
  /\ phase = "whole" /\ resources = {}
  /\ pc = [r \in Res |-> [k \in Stream |-> "off"]]
  /\ listed = [r \in Res |-> [k \in Stream |-> NoDevices]]
  /\ map = [r \in Res |-> NoDevices]
  /\ conn = [r \in Res |-> 0] /\ shown = [r \in Res |-> {}]
  /\ held = NoDevices
  /\ late = {} /\ stale = {} /\ overtaken = {}
  /\ upsets = 0

Start == StartWhole \/ StartParts \/ StartPartsFails \/ StartWithoutDriver
PluginStep == Start \/ \E r \in Res, k \in Stream : StreamStep(r, k)

Next ==
  \/ PluginStep
  \/ \E ids \in SUBSET Card : AllocateCards(ids)
  \/ \E r \in Profile, ids \in SUBSET Part : AllocateParts(r, ids)
  \/ \E r \in Res, k \in Stream : Connect(r, k)
  \/ KubeletRestart
  \/ \E x \in DOMAIN held : ContainerEnds(x)
  \/ PluginRestart
  \/ \E i \in Part : DestroyPart(i) \/ \E c \in Card, p \in Profile : Carve(i, c, p)

Spec == Init /\ [][Next]_vars

-----------------------------------------------------------------------------
\* Shapes of the variables; kubelet's lists come from plugins that were
\* started, from the stream it reads.
TypeOK ==
  /\ part \in [Part -> Carving \cup {Nothing}]
  /\ resources \subseteq Res
  /\ \A r \in Res : conn[r] # 0 => r \in resources /\ pc[r][conn[r]] # "off"
  /\ \A r \in Res : shown[r] # {} => conn[r] # 0 /\ shown[r] = DOMAIN listed[r][conn[r]]
  /\ DOMAIN held \subseteq Res \X (Card \cup Part)
  /\ late \subseteq Card \cup Part /\ stale \subseteq Res /\ overtaken \subseteq Res

\* The containers with a part, as pairs of resource and part.
PartUsers == {x \in DOMAIN held : x[1] \in Profile}

\* Mixed mode, "register both physical HCUs and vHCUs" (README_EN.md:183): no
\* card is given to one container as a whole while another has a part of it or
\* its device nodes, however kubelet and the plugin restart, unless the card was
\* carved while it was on offer, or the part's name moved to another card.
WholeOrParts ==
  strategy = "mixed" =>
    \A x \in PartUsers, c \in Card :
      /\ <<Whole, c>> \in DOMAIN held
      /\ c \in {held[x], part[x[2]].card}
      => c \in late \/ x[2] \in late

\* A container with a part gets the device nodes of the card that the mounted
\* conf file or the MIG instance belongs to, and a part of the profile it asked
\* for: nodes come from the plugin's map and the conf from the name, and they
\* agree unless the name was given to another carving while a list held it.
NodesMatchConf ==
  \A x \in PartUsers : part[x[2]] = [card |-> held[x], profile |-> x[1]] \/ x[2] \in late

\* What kubelet is shown is in the map when it asks ("not found in mapper" is
\* never the answer), unless an older stream stored its list after a newer one.
ShownIsMapped == \A r \in Res : shown[r] \subseteq DOMAIN map[r] \/ r \in overtaken

\* What kubelet should be shown of a resource.
Actual(r) ==
  IF r = Whole THEN CASE strategy \in {"hcu", "hami"} -> Card
                      [] strategy = "mixed" -> {c \in Card : OnCard(c) = {}}
                      [] OTHER -> {}
  ELSE IF HasParts THEN OfProfile(r) ELSE {}

\* "In mixed mode, vHCU resources are discovered and registered automatically"
\* (README_EN.md:268): when start() and kubelet's stream are through, kubelet is
\* shown exactly the cards and parts there are, each in one way, after any
\* restarts, for every resource that did not change after its list, or its
\* name, was looked up.
Settled(r) ==
  phase = "up" /\ (r \in resources => conn[r] # 0 /\ pc[r][conn[r]] \in {"watch", "ended"})
OfferedOnce == \A r \in Res : Settled(r) /\ r \notin stale => shown[r] = Actual(r)

\* The same without the exceptions.
WholeOrPartsAlways ==
  strategy = "mixed" =>
    \A x \in PartUsers : <<Whole, held[x]>> \notin DOMAIN held
NodesMatchConfAlways ==
  \A x \in PartUsers : part[x[2]] = [card |-> held[x], profile |-> x[1]]
ShownIsMappedAlways == \A r \in Res : shown[r] \subseteq DOMAIN map[r]
RegisteredAlways == \A r \in Res : Settled(r) => Actual(r) \subseteq shown[r]
=============================================================================
