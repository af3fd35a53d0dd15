---------------------------- MODULE Registration ----------------------------
(***************************************************************************)
(* How a node's cards get into its annotations.  Several goroutines        *)
(* (WatchAndRegister, and the informer for every pod that comes or goes)   *)
(* run RegistrInAnnotation side by side: reconcile DCGM, take a snapshot   *)
(* of the cards, compute the full and the remaining capacity, patch the    *)
(* node.  A ticker reconciles DCGM as well.  Only the reconciliation holds *)
(* a lock, so the others call DCGM while it is shut down.  DCGM stands on  *)
(* two libraries, RSMI and DMI, and a ShutDown or an Init that fails may   *)
(* leave one of them open.                                                 *)
(*                                                                         *)
(* Code: internal/pkg/plugin/register.go (RegistrInAnnotation, apiDevices, *)
(* apiDevicesRemain, WatchAndRegister), internal/pkg/util/hcu.go           *)
(* (ReconcileDCGMDevices, GetAllPhysicalDevices).                          *)
(* DCGM, lspci, the API server and the users of vHCUs are external.  The   *)
(* queries of one apiDevices call are one step.                            *)
(***************************************************************************)
EXTENDS Integers, FiniteSets, Functions

CONSTANTS
  Card,
  AtStart,     \* cards in the node when the plugin starts
  Loop,        \* WatchAndRegister goroutines: they register for ever
  Informer,    \* informer goroutines: they register when they see an event
  Ticker,      \* the DCGM reconcile goroutine
  NoOne,       \* the mutex is free
  NoList,      \* the node has no annotation of the plugin yet
  SplitCount,  \* vHCUs per card (DeviceSplitCount)
  MayFail,     \* kinds of calls that may fail
  MaxFaults,   \* failed calls
  MaxChanges   \* vHCUs made or freed, cards plugged, fallen ill or cured

ASSUME RegistrationAssumption ==
  /\ AtStart \subseteq Card
  /\ Ticker \notin Loop \cup Informer /\ Loop \cap Informer = {}
  /\ NoOne \notin Loop \cup Informer \cup {Ticker}
  /\ SplitCount \in Nat /\ MaxFaults \in Nat /\ MaxChanges \in Nat
  /\ MayFail \subseteq {"rsmi", "dmi", "lspci", "shutdown", "init", "infos", "numa", "health", "remain", "api"}

VARIABLES
  present,    \* cards on the PCI bus
  seen,       \* cards DCGM enumerated
  incomplete, \* those among them without compute units or a type
  sick,       \* cards that are not healthy
  everSick,   \* history: cards that were sick at some time
  used,       \* used[c]: vHCUs on card c
  open,       \* the libraries of DCGM that are open
  lock,       \* holder of dcgmReconcileMu
  hcus,       \* p.HCUs, the cards of the shared snapshot with all their fields
  pc,         \* pc[t]: the next step of goroutine t
  full,       \* full[t]: what apiDevices computed: the health of the listed cards
  remain,     \* remain[t]: what apiDevicesRemain computed: what is left of them, and their health
  node,       \* the node's annotations, or NoList
  blind,      \* history: DCGM did not list a card when asked
  lost,       \* history: the last Init failed
  faults, changes

hardware == <<present, sick, everSick, used>>
library == <<seen, incomplete, open>>
results == <<full, remain>>
history == <<blind, lost>>
vars == <<hardware, library, lock, hcus, pc, results, node, history, faults, changes>>

Registrar == Loop \cup Informer
Thread == Registrar \cup {Ticker}
NoCards == <<>>
Libs == {"rsmi", "dmi"}

Goto(t, to) == pc' = [pc EXCEPT ![t] = to]
Fault(kind) == kind \in MayFail /\ faults < MaxFaults /\ faults' = faults + 1

\* NumMonitorDevices and DeviceCount ask one library each.
Refuses(lib) == \/ lib \notin open /\ UNCHANGED faults
                \/ lib \in open /\ Fault(lib)
Counted(t) == pc[t] = "count" /\ open = Libs

\* The other queries need both libraries; with one of them they may fail or not.
Failing(kinds) ==
  \/ open # Libs /\ UNCHANGED faults
  \/ /\ open = Libs /\ kinds \subseteq MayFail
     /\ faults' = faults + Cardinality(kinds) /\ faults' <= MaxFaults
When(cond, kind) == IF cond THEN {kind} ELSE {}

-----------------------------------------------------------------------------
(* ReconcileDCGMDevices *)

Begin(t) ==
  /\ pc[t] = "idle"
  /\ Goto(t, "lock")
  /\ UNCHANGED <<hardware, library, lock, hcus, results, node, faults, changes, history>>

Lock(t) ==
  /\ pc[t] = "lock"
  /\ lock = NoOne
  /\ lock' = t
  /\ Goto(t, "count")
  /\ UNCHANGED <<hardware, library, hcus, results, node, faults, changes, history>>

\* The deferred Unlock.
Reconciled(t) ==
  /\ lock' = NoOne
  /\ Goto(t, IF t = Ticker THEN "idle" ELSE "snapshot")

InStep == Cardinality(seen) = Cardinality(present)

\* NumMonitorDevices or lspci fails, or the three numbers agree.
Leaves(t) ==
  /\ pc[t] = "count"
  /\ \/ Refuses("rsmi")
     \/ Counted(t) /\ Fault("lspci")
     \/ Counted(t) /\ InStep /\ UNCHANGED faults

\* Mutant of LeaveDcgm: an early return that forgets the mutex.
LeaveLocked(t) ==
  /\ Leaves(t)
  /\ Goto(t, IF t = Ticker THEN "idle" ELSE "snapshot")
  /\ UNCHANGED <<hardware, library, lock, hcus, results, node, changes, history>>

LeaveDcgm(t) ==
  /\ Leaves(t)
  /\ Reconciled(t)
  /\ UNCHANGED <<hardware, library, hcus, results, node, changes, history>>

\* Mutant of OutOfStep: a DeviceCount that fails ends the call.
LeaveWhenRefused(t) ==
  /\ pc[t] = "count" /\ "rsmi" \in open
  /\ \/ Refuses("dmi") /\ Reconciled(t)
     \/ Counted(t) /\ ~InStep /\ Goto(t, "shut") /\ UNCHANGED <<lock, faults>>
  /\ UNCHANGED <<hardware, library, hcus, results, node, changes, history>>

\* DeviceCount fails, or the numbers differ.
OutOfStep(t) ==
  /\ pc[t] = "count" /\ "rsmi" \in open
  /\ \/ Refuses("dmi")
     \/ Counted(t) /\ ~InStep /\ UNCHANGED faults
  /\ Goto(t, "shut")
  /\ UNCHANGED <<hardware, library, lock, hcus, results, node, changes, history>>

Closes == \/ open' = {} /\ UNCHANGED faults
          \/ open' \in SUBSET open /\ Fault("shutdown")

\* Mutant of ShutDown: its error ends the call.
ShutDownOrReturn(t) ==
  /\ pc[t] = "shut"
  /\ Closes
  /\ IF faults' = faults THEN Goto(t, "init") /\ UNCHANGED lock ELSE Reconciled(t)
  /\ UNCHANGED <<hardware, seen, incomplete, hcus, results, node, changes, history>>

\* An error of dcgm.ShutDown is only logged.
ShutDown(t) ==
  /\ pc[t] = "shut"
  /\ Closes
  /\ Goto(t, "init")
  /\ UNCHANGED <<hardware, seen, incomplete, lock, hcus, results, node, changes, history>>

InitDcgm(t) ==
  /\ pc[t] = "init"
  /\ open' = Libs /\ seen' = present /\ incomplete' = {}
  /\ lost' = FALSE
  /\ Reconciled(t)
  /\ UNCHANGED <<hardware, hcus, results, node, faults, changes, blind>>

\* An Init that fails may have opened one library, or both.
InitFails(t) ==
  /\ pc[t] = "init"
  /\ Fault("init")
  /\ \E libs \in SUBSET Libs : open' = open \cup libs
  /\ lost' = TRUE
  /\ Reconciled(t)
  /\ UNCHANGED <<hardware, seen, incomplete, hcus, results, node, changes, blind>>

-----------------------------------------------------------------------------
(* RegistrInAnnotation *)

\* setHCUs(GetAllPhysicalDevices()): an error leaves the snapshot empty.
Snapshot(t) ==
  /\ pc[t] = "snapshot"
  /\ \E answered \in BOOLEAN :
       /\ open = {} => ~answered
       /\ Failing(When(~answered, "infos"))
       /\ hcus' = IF answered THEN seen \ incomplete ELSE {}
       /\ blind' = (blind \/ ~answered)
  /\ Goto(t, "full")
  /\ UNCHANGED <<hardware, library, lock, results, node, changes, lost>>

\* Cards whose NUMA node is not known are skipped.
Listable == {cards \in SUBSET hcus : open = {} => cards = {}}
Skipped(cards) == When(cards # hcus, "numa")
Health(c, told, unknown) == IF told THEN c \notin sick ELSE unknown

\* apiDevices, with the health it reports when the health query fails.
ListCards(t, unknown) ==
  /\ pc[t] = "full"
  /\ \E cards \in Listable, told \in BOOLEAN :
       /\ Failing(Skipped(cards) \cup When(~told, "health"))
       /\ full' = [full EXCEPT ![t] = [c \in cards |-> Health(c, told, unknown)]]
       /\ blind' = (blind \/ cards # hcus)
  /\ Goto(t, "remain")
  /\ UNCHANGED <<hardware, library, lock, hcus, remain, node, changes, lost>>

\* Mutant of FullList: cards are unhealthy when nobody can tell.
FullListPessimist(t) == ListCards(t, FALSE)

FullList(t) == ListCards(t, TRUE)

\* What is left of a card: all of it when nobody can tell.
Left(c, mute) == IF c \in mute THEN SplitCount ELSE SplitCount - used[c]

\* apiDevicesRemain reads the snapshot again, asks for the health again, and
\* asks card by card for what is left.
RemainingList(t) ==
  /\ pc[t] = "remain"
  /\ \E cards \in Listable, told \in BOOLEAN : \E mute \in SUBSET cards :
       /\ Failing(Skipped(cards) \cup When(~told, "health") \cup When(mute # {}, "remain"))
       /\ remain' = [remain EXCEPT ![t] =
            [c \in cards |-> [left |-> Left(c, mute), health |-> Health(c, told, TRUE)]]]
       /\ blind' = (blind \/ cards # hcus)
  /\ Goto(t, "patch")
  /\ UNCHANGED <<hardware, library, lock, hcus, full, node, changes, lost>>

PatchNode(t) ==
  /\ pc[t] = "patch"
  /\ node' = [full |-> full[t], remain |-> remain[t]]
  /\ Goto(t, "idle")
  /\ UNCHANGED <<hardware, library, lock, hcus, results, faults, changes, history>>

\* GetNode fails, or the patch does, applied or not.
ApiFails(t) ==
  /\ \/ pc[t] = "remain" /\ UNCHANGED node
     \/ pc[t] = "patch" /\ node' \in {node, [full |-> full[t], remain |-> remain[t]]}
  /\ Fault("api")
  /\ Goto(t, "idle")
  /\ UNCHANGED <<hardware, library, lock, hcus, results, changes, history>>

Reconcile(t) ==
  \/ Begin(t) \/ Lock(t) \/ LeaveDcgm(t) \/ OutOfStep(t)
  \/ ShutDown(t) \/ InitDcgm(t) \/ InitFails(t)
Register(t) == Snapshot(t) \/ FullList(t) \/ RemainingList(t) \/ PatchNode(t) \/ ApiFails(t)

-----------------------------------------------------------------------------
(* External *)

Change == changes < MaxChanges /\ changes' = changes + 1
rest == <<lock, hcus, pc, results, node, history, faults>>

\* A vHCU is created or destroyed.
UseVhcu(c) ==
  /\ Change
  /\ \E n \in {used[c] - 1, used[c] + 1} \cap 0 .. SplitCount : used' = [used EXCEPT ![c] = n]
  /\ UNCHANGED <<present, sick, everSick, library, rest>>
FallIll(c) ==
  /\ Change
  /\ sick' = (sick \ {c}) \cup ({c} \ sick)
  /\ everSick' = everSick \cup {c}
  /\ UNCHANGED <<present, used, library, rest>>
\* A card is plugged in: DCGM does not know it, or not all of it.
Plug(c) ==
  /\ Change
  /\ c \notin present
  /\ present' = present \cup {c}
  /\ \/ UNCHANGED <<seen, incomplete>>
     \/ open = Libs /\ seen' = seen \cup {c} /\ incomplete' = incomplete \cup {c}
  /\ UNCHANGED <<sick, everSick, used, open, rest>>

-----------------------------------------------------------------------------
Init ==
  /\ present = AtStart /\ seen = AtStart /\ incomplete = {}
  /\ sick = {} /\ everSick = {}
  /\ used = [c \in Card |-> 0]
  /\ open = Libs /\ lock = NoOne /\ hcus = {}
  /\ pc = [t \in Thread |-> "idle"]
  /\ full = [t \in Registrar |-> NoCards] /\ remain = [t \in Registrar |-> NoCards]
  /\ node = NoList
  /\ blind = FALSE /\ lost = FALSE
  /\ faults = 0 /\ changes = 0

Next ==
  \/ \E t \in Thread : Reconcile(t)
  \/ \E t \in Registrar : Register(t)
  \/ \E c \in Card : UseVhcu(c) \/ FallIll(c) \/ Plug(c)

Spec == Init /\ [][Next]_vars

\* WatchAndRegister loops for ever, the ticker ticks, and a call in progress
\* goes on; the mutex lets nobody starve.
Fairness ==
  /\ \A t \in Registrar : WF_vars(Register(t)) /\ WF_vars(pc[t] # "idle" /\ Reconcile(t))
  /\ \A t \in Loop \cup {Ticker} : WF_vars(Reconcile(t))
  /\ \A t \in Thread : SF_vars(Lock(t))
FairSpec == Spec /\ Fairness

-----------------------------------------------------------------------------
\* Shapes of the variables; whoever counts the cards, closes or opens DCGM has the
\* mutex, and nobody else has it.
TypeOK ==
  /\ seen \subseteq present /\ present \subseteq Card
  /\ incomplete \subseteq seen /\ hcus \subseteq present /\ open \subseteq Libs
  /\ used \in [Card -> 0 .. SplitCount]
  /\ \A t \in Thread : (pc[t] \in {"count", "shut", "init"}) <=> (lock = t)
  /\ node = NoList \/ DOMAIN node.full \cup DOMAIN node.remain \subseteq present

\* Unless the last Init failed, a library of DCGM is closed only while one
\* goroutine, with the mutex, is between ShutDown and Init: every way out of the
\* reconciliation leaves both open, whatever else fails.
ClosedUnderLock == open # Libs => lost \/ (lock # NoOne /\ pc[lock] = "init")

\* "A failed health query must not mark every device unhealthy, or the
\* scheduler would drain the whole node on a transient DCGM error": a card that
\* was there and healthy all the time is registered as healthy, as long as
\* DCGM lists it.
HealthNotBlamed ==
  node # NoList /\ ~blind => \A c \in AtStart :
    /\ c \in DOMAIN node.full \cap DOMAIN node.remain
    /\ (node.full[c] /\ node.remain[c].health) \/ c \in everSick

\* However calls fail and goroutines overtake each other, the annotations come
\* to show every complete card, with its health and what is left of it.  A
\* ShutDown or an Init that failed is made good by a later reconciliation
\* (hcu.go:75-81), with one exception: an Init that left RSMI closed, for then
\* every reconciliation leaves at its first query (hcu.go:70).
RegisteredFinally ==
  LET cards == present \ incomplete
  IN  <>[](\/ lost /\ "rsmi" \notin open
           \/ node = [full |-> [c \in cards |-> c \notin sick],
                      remain |-> [c \in cards |->
                        [left |-> SplitCount - used[c], health |-> c \notin sick]]])

\* The same fear of a drained node, without the exception: a card that is there
\* and healthy all the time stays registered.
NotDrained == node # NoList => AtStart \subseteq DOMAIN node.full

\* "Reinit DCGM when hot-plug / DMI incomplete": a card that is plugged in is
\* finally registered.
PluggedIsRegistered == <>[](node # NoList /\ present \subseteq DOMAIN node.full)
=============================================================================
