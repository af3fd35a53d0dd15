# Formal verification of the HCU device plugin

The device plugin (`src/`) runs as one process on every node of a Kubernetes
cluster with HCU cards.  It offers the cards to kubelet, cuts virtual HCUs
(vHCUs) out of them on request, and takes them back when their users are gone.
This directory holds TLA+ models of it, the TLC configurations that check
them, and TLAPS proofs.

    tlasany M.tla                           # parse
    tlc -workers 2 -config X.cfg MC...      # one run; PROJECT.json lists them
    tlapm VhcuLifecycle_proofs.tla          # proofs

`PROJECT.json` lists the runs, the source lines each definition stands for
(`map`), the mutant of the code that each property detects (`mutants`), the
disagreements between code and its own text (`findings`) and the hazards of the
code (`hazards`).  Paths below are relative to `src/internal/pkg/` unless they
start with `src/`.

## 1. Inventory

| Component | State | Operations | Hard because | Correct when |
|---|---|---|---|---|
| **vHCU life cycle** (`plugin/register.go` 203-287, `plugin/markfile.go`, `AllocateHAMiHCUs`) | mark files under `dynamic/`, the driver's vHCUs, `vdev<n>.conf` files | refresh pass, Allocate, rollback, force-delete of unmarked pods | passes run without a lock in several goroutines; five separate side effects; a crash between any two | a container in use keeps its vHCU; nothing leaks; only failed pods are deleted |
| **Bind protocol** (`plugin/plugin.go` 553-795, `util/util.go` 170-404, 514-554) | pod annotations, node lock | pending-pod look-up with retry, next request, erase, success or failure patch, unlock | stale copies, failing patches, segments aligned with containers | every container gets its own devices; phase and lock are settled once |
| **Node registration and informer** (`plugin/register.go` 46-201, 296-395) | node annotations, shared device snapshot | RegistrInAnnotation, informer handlers | several writers compute and patch side by side; every query can fail | the annotations come to tell the truth; a failure does not drain the node |
| **DCGM reconcile** (`util/hcu.go` 48-121) | the library's state, one mutex | count, ShutDown, Init | users of DCGM do not take the mutex | the library is closed only by the holder of the mutex |
| **Topology ConfigMap** (`plugin/register.go` 419-481) | one ConfigMap for the cluster | patch, create, patch again | races with all the other nodes | no node undoes another's entry |
| **ListAndWatch** (`plugin/plugin.go` 128-367, `src/cmd/main.go` 40-48) | one stream per kubelet connection, its list, the heartbeat channel | send the list, refresh health | an unbuffered channel shared by all streams; `Stop` does nothing | kubelet hears of sick cards and gets no false alarm |
| **Capacity arithmetic** (`plugin/plugin.go` 839-857, `plugin/register.go` 119-142) | none | percentage to compute units and back | rounding in both directions | what is offered can be had |
| **Static strategies** (`src/cmd/main.go` 90-254, `plugin/plugin.go` 128-259, 369-551, `util/hcu.go` 123-349) | the resources named at the start, one map of devices per plugin object | start, list, store, send, look up | lists are as old as their stream, maps as old as the last stream that stored; the administrator carves meanwhile | a card is given whole or in parts; device nodes and conf file belong together; all there is is offered, once |
| **hcumem reporter** (`src/cmd/main.go` 66-87, `util/util.go` 434-466) | `status.capacity` of the node | query, patch, wait | every failure must be followed by another round | the memory of all cards is finally reported |
| Prefix, log, client, API types | – | wiring, formatting | – | – |

Interactions: kubelet calls Allocate (one call at a time).  Allocate runs a
refresh pass, reads and patches pod annotations, calls the driver and writes
mark files.  The register loop and the informer run refresh passes on the same
files and the same driver, and registrations on the same node object.  The pods
they judge come from the API server, which learns of containers only from
kubelet's status reports.  Registrations, Allocate and the streams call DCGM,
which the reconciliation may have closed.  Under the static strategies only
kubelet, the streams, Allocate and the administrator's tool meet, at the maps.

## 2. Modules

| Module | Extends | What it is |
|---|---|---|
| `VhcuPool` | – | abstract: vHCUs are cut, given to one container, taken back when it ended |
| `VhcuLifecycle` | `VhcuPool` (instance) | the core: refresh passes, Allocate, kubelet, crashes; implements `VhcuPool` |
| `PodDevices` | – | the annotation codec and the alignment of segments, as operators |
| `AnnotationServer` | `PodDevices` | one pod's annotation, from the scheduler's patch to the last call |
| `BindProtocol` | `PodDevices` | which pod and segment an Allocate call serves |
| `TopologyBoard` | – | abstract: one entry per node, written by that node |
| `TopologyConfigMap` | – | the three API calls; implements `TopologyBoard` |
| `Registration` | – | RegistrInAnnotation and ReconcileDCGMDevices together |
| `Capacity` | – | rounding of compute units |
| `DeviceWatch` | – | streams, heartbeat, health, hcumem reporter |
| `StaticDevices` | – | start-up, lists and maps of cards and carved parts, Allocate of the static strategies |
| `MC<module>` | the module | instances for TLC |
| `<module>_proofs` | the module, `TLAPS` | theorems (`PodDevices_proofs` is about `PodDevices` and `AnnotationServer`; `BindProtocol_proofs` extends it) |

### 2.1 VhcuLifecycle

| Model | Code |
|---|---|
| `marks` | the files of `dynamic/`; the name `<podUID>_<containerName>_<devIdx>_<vdevIdx>` is the record `[pod, ctr, vdev]`; `NoVdev` is the index -1 of a whole card, and the card's own index is left out, since nothing reads it |
| `vh`, `conf` | what the driver knows of each index, and whether `vdev<n>.conf` is there |
| `pc`, `todo`, `victims`, `cur` | the place and the locals of every goroutine: the register loops (`Watch`), the informer handlers (`Informer`), the gRPC handler (`Alloc`) |
| `phase`, `term` | pod phase and terminated init containers as the API server reports them |
| `run`, `grant` | what the containers really do, and the Allocate answer kubelet keeps for them |
| `stranded` | history: vHCUs whose record was lost to a crash or to five failed destroy calls |
| `reissued` | history: indices the driver handed out again while they were `Awaited`: a mark file named them, a goroutine had read one that did, or had yet to stop, destroy or unlink what bore them before |
| `ReadMarks`, `RefreshFails`, `ListPods` | `RefreshContainerDevices`: ReadDir, then List; a failure ends the pass.  The answer of List decides what is kept, what is reclaimed and which pods are judged, so these are fixed in `ListPods` |
| `RemoveMark`, `StopVDevice`, `DestroyVDevice`, `RemoveConf` | `destroyMarkedVDevice`, one step per side effect; a mark (`Unlink`) or a conf file that cannot be removed stays, and the teardown goes on |
| `DeletePod`, `EndRefresh` | the force-delete (with the UID as a precondition) and the end of the pass |
| `Refuse` ... `RollbackDestroy` | `AllocateHAMiHCUs` after its pass, with its two rollback paths; a mark whose writing failed may be there all the same (`MarkFails`), and nobody removes it; nor does `RollbackMark` when `os.Remove` fails |
| `KubeletAllocate` ... `ReportStatus` | kubelet, in flat container order; status reports lag behind `run` |
| `PluginCrash` | the process dies: locals are lost, files and vHCUs stay |

The five retries of stop and destroy calls are one step with two outcomes.  An
informer goroutine may start a pass at any time, which is more than the filter
on its events allows.

`PoolSpec` is the refinement of `VhcuPool`: a vHCU is "up", "stopped" or "free" as
the driver sees it, its users are the containers in use that hold it, but for
classic init containers that kubelet retries, and it is `due` while a record of it
is left.  Every step of marks, passes, rollbacks and crashes is then a cut, a record,
a hand-out, an end or a taking back, or changes nothing.  The pool promises that
what is in use works, is on record, and belongs to one container.  It does not
promise it of an index that is cut while a record of its former bearer is left: that
index goes "astray".  The code excludes this case nowhere, and three of its ways into
it are counterexamples of section 5: a pass that overlaps (`double_teardown`), a
conf file unlinked late (`conf_reuse`), a mark that could not be removed or was left
behind by a failed write (`stale_mark`).  `SettledVhcuKept` says the same of the
single container: every container in use, but a classic init container that
kubelet retries, keeps its vHCU for itself and its conf file, unless the index is in
`reissued`.

### 2.2 PodDevices, AnnotationServer and BindProtocol

`PodDevices` keeps the text of the annotation as a sequence of device symbols
and the separators `:` and `;`, because the code's hazards are where the text is
cut.  `AnnotationServer` decodes, expands, serves, erases and encodes it, call after
call.  `BindProtocol` then treats an annotation as its list of segments, which loses
nothing: by `RoundTrip` the list is what every reader of the text gets back, and by
`NamesDevices` a search of the text for devices finds some exactly if the list has
some (section 4).  `obj`,
`anno`, `bind` and `lock` are the API server's state; `mine`, `copy`, `want` and
`tries` the locals of a handler; `call` and `answer` are kubelet's.  Every patch
names the pod by namespace and name, so `Reached(h)` is whichever live pod has
the name at that moment.  HAMi's scheduler, `nodelock` and `GetPendingPod` are
libraries outside `src/` and modelled from their use.

`strayed` is history: the pods that were touched by a call that was not for them,
and those whose call was cut off after it had begun to patch.  The invariants make
an exception for these pods and for no others; what happens to them is shown by
`bind_restart.cfg` and `bind_same_name.cfg`.

### 2.3 TopologyConfigMap and TopologyBoard

Discover, merge patch, create, patch again; a call may fail after it was
applied, and an administrator may delete the map.  A topology is a version
number.  `BoardSpec` is the refinement: with `board` mapped to the map's entries,
every step is one node's write of its own entry, a deletion, or nothing.

### 2.4 Registration

`Lock` ... `InitFails` are `ReconcileDCGMDevices` with its early returns;
`Snapshot` is `setHCUs(GetAllPhysicalDevices())`, which stores an empty list when
DCGM fails; `FullList` and `RemainingList` are the two api lists, each read from
the shared snapshot on its own, each with its own query of the health; `PatchNode`
is the last-writer-wins patch.

`open` holds the libraries of DCGM that are open: `NumMonitorDevices` asks RSMI,
`DeviceCount` asks DMI, everything else needs both.  A `ShutDown` that fails is only
logged and may leave one library open, or both; so may an `Init` that fails.  With
both open a call fails up to `MaxFaults` times, with none it always fails, and with
one a query of a registration may fail or not.  NUMA node and remainder are asked
for card by card, and any set of cards may go without an answer.

Cards have a health and a number of vHCUs; memory, type and NUMA numbers are left
out, and `left` stands for the count and the capacity that are left of a card.
`blind` (a card in the snapshot or in DCGM was not listed) and `lost` (the last Init
failed) are history variables that tell apart whose fault a missing card is.

### 2.5 Capacity

Shares are percentages.  `ActualCores` rounds up (`math.Ceil`), `Devcore` rounds
down; because the code divides floats, a whole quotient may come out one lower,
which is a choice in the model.

### 2.6 DeviceWatch

A stream lists the cards once (`dvInd` remembers the DCGM index of each), sends,
waits for a heartbeat, checks the health by index, sends again.  `queue` is the
order in which streams wait on the unbuffered channel.  `Disconnect` leaves the
old stream running, as the ignored error of `Send` and the empty `Stop` do.
`Report` and `PatchNodeResources` are the goroutine that writes the memory of all
cards into the node's status: DCGM is asked and the node patched in one step,
since nothing else writes that number, and a failure of either waits for the next
round.  `Renumber` is the part of the reconciliation that a stream notices: the cards
that are left get the indexes from the first on, in any order.

### 2.7 StaticDevices

| Model | Code |
|---|---|
| `strategy` | `--strategy`: hcu, vhcu, mig or mixed, and hami as far as its plugin lists cards and stores them |
| `part` | what the administrator has carved: the card and profile of each vHCU or MIG instance |
| `StartWhole`, `StartParts`, `StartPartsFails`, `StartWithoutDriver` | `start` and `startDevicePlugin`: a plugin for whole cards, then one for each profile found at that moment; a failed query finds none, a missing driver starts none |
| `List`, `ListFails`, `NameFails` | the three `ListAndWatch...` up to their list; under the prefix policies the name of the resource is asked of DCGM again |
| `Store`, `Send` | `setHCUs`, `setVirtualHCUs`, `setMigHCUs`, and the first send |
| `AllocateCards`, `AllocateParts` | `AllocateHCUs`, which trusts the name; `AllocateVirtualHCUs` and `AllocateMigHCUs`, which look it up in the map and then in the conf directory or in DCGM |
| `held` | the device nodes mounted into the container that has a device |
| `Carve`, `DestroyPart` | hy-smi, used with care: no card in exclusive use is carved, no part in use destroyed |

A stream is a number: kubelet's n-th connection in the life of the process.  An
older stream may store its list after a newer one did (`overtaken`); a list, or
the set of resources, may be older than a change or the result of a failure
(`stale`); a card or a part may be carved while a list that says otherwise is on
its way or on offer (`late`).  These histories are the exceptions the invariants
make; the properties ending in `Always` make none, and their counterexamples are in
section 5.  Under "hami" the map is what `VhcuLifecycle` and `Registration` take as
given.

## 3. Runs

Deadlock is checked except in `bind`, where all pods may simply be gone, in
`poddevices`, where all containers have been served at the end, and in `static`,
where a node without a driver starts nothing.  Every property of a passing run has a mutant of the code that
breaks it (`mutants` in `PROJECT.json`).

| Run | Instance | Shows |
|---|---|---|
| `overlap` | 2 pods of different names with an init and an app container, asking for part of a card, a whole one, or what Allocate leaves unmarked; 2 vHCUs; the passes of the loop and of Allocate overlap; one crash or one failing call of the driver or the file system | `TypeOK` (the index -1 never reaches the driver); `SettledVhcuKept`: unless its index was reissued too early, a container keeps a working vHCU of its own and its conf file; `Accounted`: every vHCU has a mark, a goroutine about to free it, or a known failure behind it; `PoolSpec`: the whole implements `VhcuPool` |
| `liveness` | 1 pod with an init container, a restarting sidecar and an app; three passes at once; fair | `LiveGrantMarked`: no pass removes the mark of a container in use, whatever list it decided on; `DrainedNodeFree`, `MarksDrain`: what ended is taken back for good; `AllocAnswered` |
| `same_name` | 2 pods one after the other under one name, init containers that restart, two passes at once | `OnlyJudgedPodDeleted`: the force-delete never hits a successor; `OnlyFailedPodJudged`: a pass judges only pods that Allocate failed to mark; `SettledVhcuKept` |
| `double_teardown` | one-container pods, two passes at once | **violated**: `LiveVhcuKept`, see 5 |
| `poddevices` | every pod of up to 4 containers, every choice of devices and every layout of the annotation | `ServedInOrder`, `SlotsKept`, `NeverStuck`: the containers are served in order with their own devices, until nothing is left |
| `bind` | 2 pods, 2 containers each, two handlers, kubelet restarts, one failing API call, fair | `TypeOK`, `ServedOwn`, `SuccessMeansServed`, `LockCoversPod`; `LockFreed` as long as no call failed; `CallReturns` |
| `static` | 2 cards, 1 part, 2 profiles, every strategy and every initial carving; 2 streams per resource; 3 failures, restarts or carvings in any mix | `TypeOK`; `WholeOrParts`: no card is given whole and in parts; `NodesMatchConf`: device nodes and conf file are of one card; `ShownIsMapped`: what kubelet is shown can be looked up; `OfferedOnce`: all there is is offered, once |
| `topology` | 2 nodes, 3 loops (two on one node, as after a plugin restart), 2 faults, fair | `BoardSpec` (the refinement) and `AllPublished` |
| `registration` | loop, informer and ticker; 2 cards, one plugged in later; one failure of any kind and one change; fair | `TypeOK` (the mutex is held exactly by its user); `ClosedUnderLock`: every way out of the reconciliation leaves both libraries open, a failed ShutDown included, or an Init failed; `HealthNotBlamed`; `RegisteredFinally`: the annotations come true, also after a ShutDown or an Init that left DCGM half open, unless RSMI stays closed |
| `drained` | loop and ticker, one card plugged in, no failure | **violated**: `NotDrained`, see 5 |
| `capacity` | a card of 7 units, 3 slots, shares on both sides of unit boundaries | `RemainderCanBeHad` |
| `streams` | 2 connections, 2 cards, 2 failing calls, 2 changes of health, 1 card taken out; fair | `TypeOK` (who waits for a heartbeat), `NoFalseAlarm`, `HealthShown`, `MemReported` |

### Bounds

* Two pods are enough for one to follow or to disturb the other; two vHCUs for an
  index to be reused while another one is in use.  Three goroutines (loop,
  informer, Allocate) are all the kinds there are, and nothing bounds how many of
  them are inside a pass.  `overlap` has the loop and Allocate, which is enough for
  two passes at once; with faults, the informer is left out for the size.
  `same_name` and `liveness` have all three, without faults.
* `RestartKinds` says which kinds of containers kubelet starts again after a
  failure.  `overlap` and `liveness` leave "init" out: for such pods
  `markFileStillNeeded` is wrong (`init_retry.cfg`).  `same_name` has it in.
* `MaxFaults` bounds failures that leave something behind (a failed driver call, a
  failed write or removal, a crash).  A failing ReadDir or List is not bounded.
* `MaxTries` is 2 in place of the code's 5: one failure that is followed by another
  attempt and one that is the last.
* `Units` is 7, which does not divide 100; the shares are 100 and pairs around the
  unit boundaries 1/7, 2/7, 3/7.  The theorem `Honest` covers all the others.
* `MaxUpsets` is 3: enough to carve, restart and fail once each, or to destroy a
  part and carve it anew under a stream that a restart left behind.  Two cards and
  one part let the part's name move; two profiles let a part be offered under the
  wrong one.
* Larger instances, outside the runs because of their time, hold too: `bind` with 3
  containers and two failing calls (6.6 million states with two names, 9.9 million
  with one), and `static` with `MaxUpsets = 4` (0.9 million).  `registration` holds
  with two failures when the informer is left out (29 thousand).
* A second pod of the same container layout would add nothing to `liveness`, since
  each property speaks of one pod or of all of them.

### Symmetry

`VdevSymmetry` permutes vHCU indices.  `PoolSpec` is a safety property, so `overlap`
may use it.
`StaticSymmetry` permutes cards, parts and profiles.  Runs with liveness properties
use no symmetry.

### Fairness

Every goroutine that is past its start goes on (weak fairness of its steps):
Go schedules it, and every call it makes has a time-out or returns.
`WatchAndRegister` starts a pass again and again (`ReadMarks` of `Watch`), and its
List does not fail for ever (strong fairness of `ListPods`, since a pass that fails
comes back to it).  Nothing is assumed of the informer's events, of users, or of
kubelet, except that it takes note of a failed answer.  In `BindProtocol` kubelet
goes on to ask for the containers of bound pods.  In `Registration` the mutex is
granted with strong fairness: Go's `sync.Mutex` starves nobody.  In `DeviceWatch`
the heartbeat ticks, kubelet comes back after a disconnection and the
reconciliation finally renumbers; the queue is the first-come-first-served order
of Go channels.  The hcumem reporter is a loop that waits 30 s and starts over,
whatever failed.  `StaticDevices` states safety only: kubelet and the
administrator owe nothing.

## 4. Proofs

All theorems hold for every value of the constants that satisfies the named
assumptions, in particular for any number of pods, goroutines, cards and faults.

* `VhcuLifecycle_proofs`
  * `TypeCorrect`: `Spec => []TypeOK`.  `TypeOK` is inductive because it says which
    places hold an index (`HoldPcs`); one lemma for each group of actions.
  * `NothingLeaks`: `Spec => []Accounted`.  `Accounted` is inductive relative to
    `TypeOK`: a step that removes a mark leaves its goroutine in "stop", one that
    leaves "destroy" has freed the vHCU or recorded it as stranded.
  * `LiveGrantKeepsMark`: if classic init containers are not restarted,
    `Spec => []LiveGrantMarked`.  It needs history that the code does not keep: a
    mark chosen by an old list may be removed only if its container ended.  The
    inductive invariant `LiveGrantInv` is `PodFacts` (what the API server reports
    of an ended container is true), `RecordFacts` (what a pass
    will reclaim has ended; the request in service has no answer yet; what was
    created is marked or doomed) and `DurableMarked`, the property for all
    containers but classic init containers that are retried (`Durable`), which holds
    without the assumption.  `PodStep` reduces all actions to what they can do to a
    pod.
  * `SettledKeepsVhcu`: `Spec => []SettledVhcuKept`, for any number of overlapping
    passes, every kubelet policy, and whatever marks crashes and failing file system
    calls leave.  `SettledInv` follows one vHCU through all its records, which are its
    marks and those a pass has read.  An index that is not in `reissued` has one record
    at most (`OneRecord`); while Allocate holds it, nobody else knows it, or only its own
    mark names it (`NewUnknown`, `OwnRecord`); and when it is about to be mounted or in
    use, it works and nobody is tearing it down (`MountSound`, `UseSound`).
    A record can outlive its vHCU, since errors of `os.RemoveAll` are dropped, so the
    step that breaks the chain is the hand-out of an index of which some record is
    left, which is how `reissued` is defined.  It is not a rare order of two passes
    only: `stale_mark` needs one failed write.
  * `DeletesOnlyJudged`: `Spec => OnlyJudgedPodDeleted`, an action property.  A step that
    takes a pod out of `victims` deletes just that pod, since the delete names its UID,
    or is a crash, which deletes nothing (`VictimLeaves`).
  * `JudgesOnlyFailed`: `Spec => OnlyFailedPodJudged`.  `JudgeInv` says that every
    container that was answered with a part or a whole card has its mark unless it
    is `Past`, and that no pass has chosen a mark of a container that is not.  Init
    containers are `Past` from the start, so their marks may go.  What saves their
    pod from being judged is `RunningFacts`: the status report that says "Running"
    names the init containers terminated as well, and `markFileStillNeeded` and the
    judgement read the same list.
  * `ImplementsPool`: `Spec => PoolSpec`, with no assumption on passes, faults or
    kubelet's policy.  It rests on `SettledInv` and `DurableMarked`: a vHCU in use is
    on record and works, so a step that stops or destroys one takes it back from
    nobody.  There is one lemma for each kind of step (`GivenOnce`, `Recorded`,
    `CutOut`, `TakenBack`, `ContainersEnd`); all others stutter (`PoolStutters`).
* `PodDevices_proofs`: nothing here depends on how many containers a pod has, how
  many devices a container, or which of the empty segments are written.
  * `RoundTrip`: for every list of segments, `DecodePodDevices` of its text is the list.
    `EndedJoints` says where the separators of the text are, from the blocks that
    `FlattenSeq` concatenates (`FlattenBlocks`); `SplitEnded` that `strings.Split`
    cuts at these places and nowhere else, which gives the parts and one empty part
    more.  It is used twice, for `:` inside a segment and for `;` between segments.
    `FlattenBlocks` is an induction on the length: no operator is passed to an
    induction theorem, the lengths for which it fails are a finite set of numbers
    without a least one (`MinExists`).
  * `NamesDevices`: `PodAllocationTrySuccess` looks for devices in the text,
    `GetNextDeviceRequest` in the list; they see the end of the annotation alike.
  * `OrderServed`, `PositionalText` and `ServesToTheEnd`: the three invariants of the
    run.  `ServerInv` says that the text is the encoding of a list that holds the
    devices of all containers but the first ones in rank, as many as have been served:
    either blanked in place, or, before the first call, as the scheduler wrote it.
    `ExpandKept` is the heart of the alignment: what the scheduler left out, the
    expansion puts back, since the k-th segment with devices and the k-th
    container with devices are the same (`KeptNonEmpty`, `RankRenamed`).  `NextInRank`
    and `NextServed` make the next container the one the code picks and blanks.
* `BindProtocol_proofs`: all four invariants of the run, for any number of pods,
  containers, handlers and failures: `TypeCorrect`, `AnswersOwn` (`ServedOwn`),
  `SuccessIsServed` (`SuccessMeansServed`) and `LockHeld` (`LockCoversPod`).  The
  inductive invariant `IInv` says that containers are answered in their order,
  that the call in service is for the next one, and that the pod's annotation is the
  layout of just the devices not answered yet, in the object as well as in the copy
  of the handler that erases it.  The alignment is that of `PodDevices_proofs`
  (`LayoutExpands`, `NextIsFirst`): dense segments, expanded against the
  requests of the pod, give the first unanswered container its own devices.  What
  depends on annotation and lock is said of pods not in `strayed`; `Apart` is what a
  step may do to a pod it is not about, and shows that a strayed pod disturbs no other.
* `TopologyConfigMap_proofs`: `TypeCorrect`, and `BoardImplemented`:
  `Spec => BoardSpec` for any nodes and loops.  The part of `TypeOK` the refinement
  rests on is that no goroutine carries a topology newer than its node's.
* `Registration_proofs`: `ClosedOnlyUnderLock`: `Spec => []ClosedUnderLock`, from
  `LockInv` (who is between Lock and Unlock holds the mutex); and `TypeCorrect` and
  `HealthyStaysHealthy`: `Spec => []HealthNotBlamed`.  Its inductive invariant
  `HealthInv` follows the lists from the shared snapshot through the goroutine that
  computed them to the node: until DCGM was blind once, each of them has all the
  cards of the start, and calls only those unhealthy that were.
* `Capacity_proofs`: `Honest`: `Spec => []RemainderCanBeHad`, for every number of
  units and all shares.  `FloorBound` and `CeilBound` are the two roundings; the
  invariant `Remainder` says that a fresh remainder is at most what is free and
  that the units cut out are those of the vHCUs.
* `StaticDevices_proofs`: all five invariants of the run.  Three inductive
  invariants share the work.  `IInv`: streams begin in the order of their numbers,
  kubelet reads the last one that began, and what that one stored is in the map
  unless the resource was overtaken; from it `TypeCorrect` and `ShownCanBeFound`.
  `SharingInv`: the lists on their way to kubelet are true of every part that
  exists and agree with one another on those that do not, and a card on offer has
  no parts; from it `NodesAreOfTheirCard` and `NeverWholeAndInParts`.  The agreement
  is needed because a part may be destroyed and carved anew between the list and
  the map that Allocate reads.  `OfferInv`: a list is the actual one, and a resource
  without a plugin has nothing to offer, unless marked stale; from it
  `AllOfferedOnce`.
* `DeviceWatch_proofs`: `NoFalseAlarmCorrect`: `Spec => []NoFalseAlarm`.  What has to
  be kept of every stream, also of those whose connection is lost, is `ListSound`: a
  card without trouble is called healthy and still has the index under which the
  stream looks it up.  `TypeCorrect`: the queue of the channel holds exactly the
  streams that wait, each once; `AppendKeeps` and `TailKeeps` are the facts on
  sequences it needs.

Only model-checked: the liveness properties (temporal reasoning under fairness is
outside this prover).  Every invariant, every action property and both refinements
that a passing run checks are also theorems.

## 5. What the code does not keep

Listed findings:

* `double_teardown`: passes share neither a lock nor the knowledge who removed a
  mark.  Two of them read the same mark; the first tears the vHCU down and the
  driver gives its index to a new container, whose vHCU the second then stops and
  destroys.
* `drained`: registrations do not take the mutex under which DCGM is closed and
  opened.  A registration in that window stores an empty snapshot, because
  `GetAllPhysicalDevices` turns the error into an empty list, and the node loses
  all its cards in the annotation until the next round.

Further counterexamples, each reproducible with `tlc -config X.cfg MC...`; they are
consequences of modelled code and single properties, kept beside the runs:

| cfg (module) | violates | in short |
|---|---|---|
| `stale_mark` (MCVhcuLifecycle) | `LiveVhcuKept` | a mark whose write failed is left behind by the rollback; when its index is given out again, the next pass tears down the new container's vHCU |
| `conf_reuse` (MCVhcuLifecycle) | `LiveGrantHasConf` | `vdev<n>.conf` is unlinked after n was freed and given out again |
| `late_list` (MCVhcuLifecycle) | `OnlyUnmarkedPodDeleted` | marks are read before the pods are listed; a pod marked in between is deleted |
| `bare_deleted` (MCVhcuLifecycle) | `OnlyFailedPodDeleted` | hcumem without a partial vHCU is answered but never marked, so the pod is deleted |
| `init_lag` (MCVhcuLifecycle) | `NoInitAppOverlap` | the pass before Allocate sees a pod status that lags the init container's end |
| `init_retry` (MCVhcuLifecycle) | `LiveVhcuKept` | a failed init container waits for its retry as "Terminated" and loses its vHCU |
| `lost_vhcu` (MCVhcuLifecycle) | `DrainedNodeFree` | a crash after the mark is removed, or five failed destroy calls, lose a vHCU |
| `bind_restart` (MCBindProtocol) | `ServedOwnAlways` | a segment is consumed before the answer is recorded; asked again, Allocate serves the next one |
| `bind_same_name` (MCBindProtocol) | `ServedOwnAlways` | the erase patch, by name, overwrites a new pod's annotation |
| `incomplete` (MCRegistration) | `PluggedIsRegistered` | counts agree, so a card without all its fields is never looked at again |
| `shares` (MCCapacity) | `SharesFit` | 33, 33 and 34 % of 60 units need 61 |
| `card_gone` (MCDeviceWatch) | `GoneIsNotHealthy` | health is looked up by an index that now is another card's |
| `old_stream` (MCDeviceWatch) | `EveryBeatChecks` | the stream of a lost connection takes a heartbeat |
| `list_fails` (MCDeviceWatch) | `CardsShown` | one failed query at the start leaves a stream's list empty |
| `renumbered` (MCDeviceWatch) | `CutFromChosen` | the index at which a vHCU is cut out was looked up before the cards were renumbered |
| `mixed_carved` (MCStaticDevices) | `WholeOrPartsAlways` | a card carved while its stream still offers it whole is given both ways |
| `part_moved` (MCStaticDevices) | `NodesMatchConfAlways` | a vHCU's name moves to another card; the map still has the nodes of the first |
| `old_map` (MCStaticDevices) | `ShownIsMappedAlways` | a stream left by a restart of kubelet stores its older list last |
| `start_fails` (MCStaticDevices) | `RegisteredAlways` | one failed query, or a driver that comes late, and the resources are missing until the plugin restarts |

## 6. Not modelled

* The filter of the informer's events (over-approximated), the HAMi lock's own
  time-out, the process signal, the hcucores list (a constant) and its Allocate,
  which answers without looking at anything, memory in the registered lists, and
  what the scheduler does with a negative count.
* The health a static stream refreshes at a heartbeat is in `DeviceWatch`, for all
  strategies alike; `StaticDevices` stops at the first send.
* Resource prefixes (string formatting; what matters of them, that one policy asks
  DCGM again, is `NameFails`; an Allocate call for which that fails answers with
  nothing and changes no state, `plugin/plugin.go` 382-403), logging, API types, clients and sysfs helpers:
  wiring, formatting, or input and output.

Assumed of the outside: DCGM calls fail while the library they need is closed, and
Init enumerates the cards again from index 0; the driver hands out an unused vHCU index;
kubelet calls Allocate serially and keeps an answer for as long as the pod lives;
container names are unique within a pod.

## 7. Next

1. Hazards without a property: the lag of the pod status before Allocate
   (`plugin/plugin.go` 763, `init_lag.cfg`), indexes that DCGM gives to another card
   (334, `card_gone.cfg`, `renumbered.cfg`), a stream that starts with an empty list
   (320, `list_fails.cfg`), and the negative vHCU count (`plugin/register.go` 134).
2. `RegisteredFinally` leaves out cards that DCGM lists without all their fields and
   an RSMI that stays closed: both are gaps of the reconciliation (`util/hcu.go` 70,
   95), of which the first has its counterexample (`incomplete.cfg`).
