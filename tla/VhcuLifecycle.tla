--------------------------- MODULE VhcuLifecycle ---------------------------
(***************************************************************************)
(* The life of the virtual HCUs of one node in HAMi mode: kubelet's        *)
(* Allocate call cuts a vHCU out of a card and records it in a mark file;  *)
(* refresh passes, run by several goroutines at once, read the mark files, *)
(* list the node's pods and tear down what no container needs any more.    *)
(*                                                                         *)
(* Code: internal/pkg/plugin/register.go (RefreshContainerDevices,         *)
(* destroyMarkedVDevice, CreateMarkFile, WatchAndRegister),                *)
(* internal/pkg/plugin/markfile.go (what a mark is still needed for),      *)
(* internal/pkg/plugin/plugin.go (AllocateHAMiHCUs).  Kubelet, the API     *)
(* server and the DCGM driver are modelled from how that code uses them.   *)
(***************************************************************************)
EXTENDS Integers

CONSTANTS
  Pod,          \* pod UIDs that ever exist on the node
  Name,         \* namespace/name pairs, reused by later pods
  NameOf,       \* [Pod -> Name]
  Ctr,          \* flat container indices: init containers, then app containers
  Kind,         \* [Ctr -> {"init", "sidecar", "app"}]
  Ask,          \* [Pod -> [Ctr -> Asks]], what a container asks for
  Watch,        \* WatchAndRegister goroutines (one more after a plugin restart)
  Informer,     \* pod informer handlers
  Alloc,        \* the gRPC handler goroutine of Allocate: kubelet calls it serially
  Vdev,         \* vHCU indices the driver can hand out
  NoVdev,       \* the index -1 of a mark that names a whole card
  Ungranted,    \* no Allocate answer yet
  NoReq,        \* no Allocate call in progress
  RestartKinds, \* kinds of containers kubelet restarts after a failure
  InitFirst,    \* TRUE: apps are allocated after the init containers exit
  MaxFaults     \* failed driver and file system calls, and plugin crashes

Asks == {"none", "part", "whole", "bare", "cards"}
Loop == Watch \cup Informer
Thread == Loop \cup {Alloc}
Kinds == {"init", "sidecar", "app"}

ASSUME CtrAssumption ==
  /\ Ctr \subseteq Nat
  /\ Kind \in [Ctr -> Kinds]
  /\ \A c, d \in Ctr : Kind[c] # "app" /\ Kind[d] = "app" => c < d
ASSUME PodAssumption ==
  NameOf \in [Pod -> Name] /\ Ask \in [Pod -> [Ctr -> Asks]]
ASSUME ThreadAssumption == Alloc \notin Loop
ASSUME VdevAssumption ==
  /\ NoVdev \notin Vdev
  /\ Ungranted \notin Vdev \cup {NoVdev}
ASSUME ReqAssumption == NoReq \notin [pod : Pod, ctr : Ctr]
ASSUME PolicyAssumption ==
  RestartKinds \subseteq Kinds /\ "sidecar" \in RestartKinds /\ InitFirst \in BOOLEAN
ASSUME BoundAssumption == MaxFaults \in Nat

VARIABLES
  phase,    \* phase[p]: what the API server reports of pod p
  term,     \* term[p]: its init containers reported as Terminated
  run,      \* run[p][c]: what container c of pod p really does
  grant,    \* grant[p][c]: the vHCU of the Allocate answer kubelet keeps
  marks,    \* the mark files under dynamic/
  vh,       \* vh[v]: the driver's state of vHCU v
  conf,     \* the vHCUs whose vdev<v>.conf exists on the host
  pc,       \* pc[t]: where goroutine t is
  todo,     \* todo[t]: marks read by t, then those it will reclaim
  victims,  \* victims[t]: pods t judged to miss a required mark
  cur,      \* cur[t]: the vHCU index t holds in a local variable
  req,      \* the container Allocate is serving
  faults,   \* failures so far
  stranded, \* history: vHCUs whose only record was lost
  reissued  \* history: vHCU indices that the driver handed out again while a
            \* mark file still named them, or a goroutine had yet to tear down
            \* or unlink what bore them before

podVars == <<phase, term, run>>
driverVars == <<vh, conf, stranded, reissued>>
passVars == <<todo, victims>>
vars == <<podVars, grant, marks, driverVars, pc, passVars, cur, req, faults>>

Phases == {"absent", "Pending", "Running", "Terminal", "gone"}
RunStates == {"waiting", "running", "backoff", "done"}
RefreshPcs == {"list", "scan", "stop", "destroy", "unlink"}
AllocPcs == {"refresh", "serve", "mark", "conf", "unmark", "rbstop", "rbdestroy", "reject"}
\* Where cur[t] is the index of a vHCU rather than a stale or empty local.
HoldPcs == {"stop", "destroy", "unlink", "mark", "conf", "unmark", "rbstop", "rbdestroy"}
Mark == [pod : Pod, ctr : Ctr, vdev : Vdev \cup {NoVdev}]
Request == [pod : Pod, ctr : Ctr]

-----------------------------------------------------------------------------
(* What the code computes from a listed pod and from the marks it read.    *)

Listed(p) == phase[p] \in {"Pending", "Running", "Terminal"}

\* Mutants of MarkFileStillNeeded: a Pending pod's mark is not needed; a
\* restartable init is treated like a classic one; a missing pod is not seen.
NeededWhileRunning(p, c) == phase[p] = "Running" /\ (Kind[c] = "init" => c \notin term[p])
NeededUntilTerminated(p, c) ==
  Listed(p) /\ phase[p] # "Terminal" /\ (Kind[c] # "app" => c \notin term[p])
NeededUnlessTerminal(p, c) == phase[p] # "Terminal" /\ (Kind[c] = "init" => c \notin term[p])

\* markFileStillNeeded: a classic init container needs its mark until it is
\* reported terminated, every other container until the pod is terminal.
MarkFileStillNeeded(p, c) ==
  /\ Listed(p)
  /\ phase[p] # "Terminal"
  /\ Kind[c] = "init" => c \notin term[p]

\* containerRequestsVirtualHCU: a non-zero hcumem limit.
RequestsVirtualHCU(p, c) == Ask[p][c] \in {"part", "whole", "bare"}

\* Mutant: containers that no longer need a mark are counted.
MissingAnyMark(p, kept) ==
  /\ phase[p] \in {"Running", "Terminal"}
  /\ \E c \in Ctr : /\ RequestsVirtualHCU(p, c)
                    /\ \A m \in kept : m.pod # p \/ m.ctr # c

\* podMissingRequiredMark, over the marks a pass keeps.
PodMissingRequiredMark(p, kept) ==
  /\ phase[p] \in {"Running", "Terminal"}
  /\ \E c \in Ctr : /\ RequestsVirtualHCU(p, c)
                    /\ MarkFileStillNeeded(p, c)
                    /\ \A m \in kept : m.pod # p \/ m.ctr # c

Idle(t) == IF t = Alloc THEN "refresh" ELSE "idle"
Resume(t) == IF t = Alloc THEN "serve" ELSE "idle"
Marked(v) == \E m \in marks : m.vdev = v

-----------------------------------------------------------------------------
(* RefreshContainerDevices, run by every goroutine without a lock.         *)

ReadMarks(t) ==
  /\ pc[t] = Idle(t)
  /\ pc' = [pc EXCEPT ![t] = "list"]
  /\ todo' = [todo EXCEPT ![t] = marks]
  /\ UNCHANGED <<podVars, grant, marks, driverVars, victims, cur, req, faults>>

\* Mutant: Allocate repeats a failed pass until one succeeds.
RepeatRefresh(t) ==
  /\ pc[t] = "list"
  /\ pc' = [pc EXCEPT ![t] = Idle(t)]
  /\ todo' = [todo EXCEPT ![t] = {}]
  /\ UNCHANGED <<podVars, grant, marks, driverVars, victims, cur, req, faults>>

\* ReadDir or the pod List fails: the pass ends; Allocate only logs it.
RefreshFails(t) ==
  /\ pc[t] = "list"
  /\ pc' = [pc EXCEPT ![t] = Resume(t)]
  /\ todo' = [todo EXCEPT ![t] = {}]
  /\ UNCHANGED <<podVars, grant, marks, driverVars, victims, cur, req, faults>>

\* The List answer decides everything the pass does afterwards.
ListPods(t) ==
  LET kept == {m \in todo[t] : MarkFileStillNeeded(m.pod, m.ctr)}
  IN  /\ pc[t] = "list"
      /\ pc' = [pc EXCEPT ![t] = "scan"]
      /\ todo' = [todo EXCEPT ![t] = @ \ kept]
      /\ victims' = [victims EXCEPT ![t] = {p \in Pod : PodMissingRequiredMark(p, kept)}]
      /\ UNCHANGED <<podVars, grant, marks, driverVars, cur, req, faults>>

\* A mark file is removed, whoever wrote or already removed it; when that
\* fails it stays, and the error is dropped.
Unlink(m) ==
  \/ marks' = marks \ {m} /\ UNCHANGED faults
  \/ m \in marks /\ faults < MaxFaults /\ faults' = faults + 1 /\ UNCHANGED marks

\* Mutant: no early return for the index -1.
RemoveMarkAnyIndex(t, m) ==
  /\ pc[t] = "scan"
  /\ m \in todo[t]
  /\ todo' = [todo EXCEPT ![t] = @ \ {m}]
  /\ Unlink(m)
  /\ pc' = [pc EXCEPT ![t] = "stop"]
  /\ cur' = [cur EXCEPT ![t] = m.vdev]
  /\ UNCHANGED <<podVars, grant, driverVars, victims, req>>

\* destroyMarkedVDevice removes the mark file first, goes on whether or not
\* that succeeds, and returns at once for the index -1.
RemoveMark(t, m) ==
  /\ pc[t] = "scan"
  /\ m \in todo[t]
  /\ todo' = [todo EXCEPT ![t] = @ \ {m}]
  /\ Unlink(m)
  /\ IF m.vdev = NoVdev
       THEN UNCHANGED <<pc, cur>>
       ELSE /\ pc' = [pc EXCEPT ![t] = "stop"]
            /\ cur' = [cur EXCEPT ![t] = m.vdev]
  /\ UNCHANGED <<podVars, grant, driverVars, victims, req>>

\* Mutant: no destroy call after five failed stop calls.
StopOrGiveUp(t) ==
  /\ pc[t] = "stop"
  /\ \/ /\ vh' = [vh EXCEPT ![cur[t]] = IF @ = "up" THEN "stopped" ELSE @]
        /\ pc' = [pc EXCEPT ![t] = "destroy"]
     \/ vh' = vh /\ pc' = [pc EXCEPT ![t] = "unlink"]
  /\ UNCHANGED <<podVars, grant, marks, conf, stranded, reissued, passVars, cur, req, faults>>

\* Up to five dcgm.StopVDevice calls; the fifth failure is not acted upon.
StopVDevice(t) ==
  /\ pc[t] = "stop"
  /\ pc' = [pc EXCEPT ![t] = "destroy"]
  /\ \/ vh' = [vh EXCEPT ![cur[t]] = IF @ = "up" THEN "stopped" ELSE @]
     \/ vh' = vh
  /\ UNCHANGED <<podVars, grant, marks, conf, stranded, reissued, passVars, cur, req, faults>>

\* A driver call that destroys vHCU v, or leaves it, perhaps with no record.
Destroyed(v) == /\ vh' = [vh EXCEPT ![v] = "free"]
                /\ stranded' = stranded \ {v}
                /\ UNCHANGED faults
NotDestroyed(v) == /\ vh[v] # "free"
                   /\ faults < MaxFaults
                   /\ faults' = faults + 1
                   /\ stranded' = stranded \cup (IF Marked(v) THEN {} ELSE {v})
                   /\ UNCHANGED vh

\* Up to five dcgm.DestroySingleVDevice calls; five failures end the same way.
DestroyVDevice(t) ==
  /\ pc[t] = "destroy"
  /\ pc' = [pc EXCEPT ![t] = "unlink"]
  /\ Destroyed(cur[t]) \/ NotDestroyed(cur[t])
  /\ UNCHANGED <<podVars, grant, marks, conf, reissued, passVars, cur, req>>

\* The error of os.Remove is dropped here as well.
RemoveConf(t) ==
  /\ pc[t] = "unlink"
  /\ pc' = [pc EXCEPT ![t] = "scan"]
  /\ \/ conf' = conf \ {cur[t]} /\ UNCHANGED faults
     \/ faults < MaxFaults /\ faults' = faults + 1 /\ UNCHANGED conf
  /\ cur' = [cur EXCEPT ![t] = NoVdev]
  /\ UNCHANGED <<podVars, grant, marks, vh, stranded, reissued, passVars, req>>

\* Pod object p leaves the API server; kubelet kills its containers.
Gone(p) ==
  /\ phase' = [phase EXCEPT ![p] = "gone"]
  /\ term' = [term EXCEPT ![p] = {}]
  /\ run' = [run EXCEPT ![p] = [c \in Ctr |-> "done"]]

\* Mutant of DeletePod: no UID precondition.
DeletePodByName(t, p) ==
  /\ pc[t] = "scan"
  /\ todo[t] = {}
  /\ p \in victims[t]
  /\ victims' = [victims EXCEPT ![t] = @ \ {p}]
  /\ \/ \E q \in Pod : Listed(q) /\ NameOf[q] = NameOf[p] /\ Gone(q)
     \/ UNCHANGED podVars
  /\ UNCHANGED <<grant, marks, driverVars, pc, todo, cur, req, faults>>

\* util.DeletePod deletes by name, with the judged pod's UID as precondition;
\* its error is ignored.
DeletePod(t, p) ==
  /\ pc[t] = "scan"
  /\ todo[t] = {}
  /\ p \in victims[t]
  /\ victims' = [victims EXCEPT ![t] = @ \ {p}]
  /\ \/ \E q \in Pod : /\ Listed(q)
                       /\ NameOf[q] = NameOf[p]
                       /\ q = p
                       /\ Gone(q)
     \/ UNCHANGED podVars
  /\ UNCHANGED <<grant, marks, driverVars, pc, todo, cur, req, faults>>

EndRefresh(t) ==
  /\ pc[t] = "scan"
  /\ todo[t] = {}
  /\ victims[t] = {}
  /\ pc' = [pc EXCEPT ![t] = Resume(t)]
  /\ UNCHANGED <<podVars, grant, marks, driverVars, passVars, cur, req, faults>>

RefreshStep(t) ==
  \/ ReadMarks(t)
  \/ RefreshFails(t)
  \/ ListPods(t)
  \/ \E m \in todo[t] : RemoveMark(t, m)
  \/ StopVDevice(t)
  \/ DestroyVDevice(t)
  \/ RemoveConf(t)
  \/ \E p \in victims[t] : DeletePod(t, p)
  \/ EndRefresh(t)

-----------------------------------------------------------------------------
(* AllocateHAMiHCUs, after its pre-Allocate refresh pass.  Which pod and    *)
(* container the annotations name is the subject of other modules: here the *)
(* call serves the container kubelet is admitting.                          *)

Requester == Ask[req.pod][req.ctr]
Answer(v) == /\ grant' = [grant EXCEPT ![req.pod][req.ctr] = v]
             /\ pc' = [pc EXCEPT ![Alloc] = "idle"]
             /\ req' = NoReq

MarkOf(v) == [pod |-> req.pod, ctr |-> req.ctr, vdev |-> v]

\* Every error return: kubelet then fails the pod's admission.  The marks of
\* the whole cards looked up before the one that failed stay.
Refuse ==
  /\ pc[Alloc] = "serve"
  /\ pc' = [pc EXCEPT ![Alloc] = "reject"]
  /\ \/ marks' = marks
     \/ Requester \in {"whole", "cards"} /\ marks' = marks \cup {MarkOf(NoVdev)}
  /\ UNCHANGED <<podVars, grant, driverVars, passVars, cur, req, faults>>

\* A whole card is marked with index -1 and the write's error is dropped.
GrantWhole ==
  /\ pc[Alloc] = "serve"
  /\ Requester \in {"whole", "cards"}
  /\ \/ marks' = marks \cup {MarkOf(NoVdev)} /\ UNCHANGED faults
     \/ faults < MaxFaults /\ faults' = faults + 1 /\ UNCHANGED marks
  /\ Answer(NoVdev)
  /\ UNCHANGED <<podVars, driverVars, passVars, cur>>

\* hcumem without a partial vHCU: all the memory with other than 100 cores, or
\* part of the memory of several cards.  Neither branch of the code applies.
GrantBare ==
  /\ pc[Alloc] = "serve"
  /\ Requester = "bare"
  /\ Answer(NoVdev)
  /\ UNCHANGED <<podVars, marks, driverVars, passVars, cur, faults>>

\* A mark names v, a goroutine has read one that did, or is tearing v down.
Awaited(v) ==
  \/ Marked(v)
  \/ \E t \in Thread : \/ \E m \in todo[t] : m.vdev = v
                       \/ pc[t] \in {"stop", "destroy", "unlink"} /\ cur[t] = v

\* dcgm.CreateVDevices hands out an unused index and writes its conf file,
\* which may turn out unusable.
CreateVDevice(v) ==
  /\ pc[Alloc] = "serve"
  /\ Requester = "part"
  /\ vh[v] = "free"
  /\ vh' = [vh EXCEPT ![v] = "up"]
  /\ conf' \in {conf \cup {v}, conf \ {v}}
  /\ cur' = [cur EXCEPT ![Alloc] = v]
  /\ pc' = [pc EXCEPT ![Alloc] = "mark"]
  /\ reissued' = reissued \cup IF Awaited(v) THEN {v} ELSE {}
  /\ UNCHANGED <<podVars, grant, marks, stranded, passVars, req, faults>>

\* CreateMarkFile fails, perhaps after it created the file.
MarkFails ==
  /\ faults < MaxFaults
  /\ faults' = faults + 1
  /\ marks' \in {marks, marks \cup {MarkOf(cur[Alloc])}}

\* Mutant: the vHCU whose mark could not be written is not rolled back.
WriteMarkNoRollback ==
  /\ pc[Alloc] = "mark"
  /\ \/ /\ marks' = marks \cup {MarkOf(cur[Alloc])}
        /\ pc' = [pc EXCEPT ![Alloc] = "conf"]
        /\ UNCHANGED faults
     \/ MarkFails /\ pc' = [pc EXCEPT ![Alloc] = "reject"]
  /\ UNCHANGED <<podVars, grant, driverVars, passVars, cur, req>>

\* CreateMarkFile; when it fails the new vHCU is rolled back, but not the file.
WriteMark ==
  /\ pc[Alloc] = "mark"
  /\ \/ /\ marks' = marks \cup {MarkOf(cur[Alloc])}
        /\ pc' = [pc EXCEPT ![Alloc] = "conf"]
        /\ UNCHANGED faults
     \/ MarkFails /\ pc' = [pc EXCEPT ![Alloc] = "rbstop"]
  /\ UNCHANGED <<podVars, grant, driverVars, passVars, cur, req>>

\* Mutant: the conf file is mounted unseen.
MountUnseen ==
  /\ pc[Alloc] = "conf"
  /\ Answer(cur[Alloc]) /\ cur' = [cur EXCEPT ![Alloc] = NoVdev]
  /\ UNCHANGED <<podVars, marks, driverVars, passVars, faults>>

\* mountVDeviceConf validates the conf file; then the answer is returned.
MountConf ==
  /\ pc[Alloc] = "conf"
  /\ IF cur[Alloc] \in conf
       THEN Answer(cur[Alloc]) /\ cur' = [cur EXCEPT ![Alloc] = NoVdev]
       ELSE pc' = [pc EXCEPT ![Alloc] = "unmark"] /\ UNCHANGED <<grant, req, cur>>
  /\ UNCHANGED <<podVars, marks, driverVars, passVars, faults>>

RollbackMark ==
  /\ pc[Alloc] = "unmark"
  /\ Unlink(MarkOf(cur[Alloc]))
  /\ pc' = [pc EXCEPT ![Alloc] = "rbstop"]
  /\ UNCHANGED <<podVars, grant, driverVars, passVars, cur, req>>

RollbackStop ==
  /\ pc[Alloc] = "rbstop"
  /\ pc' = [pc EXCEPT ![Alloc] = "rbdestroy"]
  /\ \/ vh' = [vh EXCEPT ![cur[Alloc]] = IF @ = "up" THEN "stopped" ELSE @]
     \/ vh' = vh
  /\ UNCHANGED <<podVars, grant, marks, conf, stranded, reissued, passVars, cur, req, faults>>

\* One dcgm.DestroySingleVDevice call, its error ignored.
RollbackDestroy ==
  /\ pc[Alloc] = "rbdestroy"
  /\ pc' = [pc EXCEPT ![Alloc] = "reject"]
  /\ cur' = [cur EXCEPT ![Alloc] = NoVdev]
  /\ Destroyed(cur[Alloc]) \/ NotDestroyed(cur[Alloc])
  /\ UNCHANGED <<podVars, grant, marks, conf, reissued, passVars, req>>

AllocStep ==
  \/ Refuse
  \/ GrantWhole
  \/ GrantBare
  \/ \E v \in Vdev : CreateVDevice(v)
  \/ WriteMark
  \/ MountConf
  \/ RollbackMark
  \/ RollbackStop
  \/ RollbackDestroy

-----------------------------------------------------------------------------
(* Kubelet, the API server and the users of the cluster (external).        *)

Before(c) == {d \in Ctr : d < c}
Asked(p) == {c \in Ctr : Ask[p][c] # "none"}
Granted(p, C) == \A c \in C \cap Asked(p) : grant[p][c] # Ungranted

\* Init containers run one after the other, a sidecar only has to be started;
\* apps start once every init container is past.
InitsPast(p, C) ==
  \A d \in C : /\ Kind[d] = "init" => run[p][d] = "done"
               /\ Kind[d] = "sidecar" => run[p][d] # "waiting"

PodCreate(p) ==
  /\ phase[p] = "absent"
  /\ \A q \in Pod : NameOf[q] = NameOf[p] => ~Listed(q)
  /\ phase' = [phase EXCEPT ![p] = "Pending"]
  /\ UNCHANGED <<term, run, grant, marks, driverVars, pc, passVars, cur, req, faults>>

\* Kubelet asks for one container at a time, in flat order.  The comment at
\* plugin.go:761 supposes that an app's turn comes after the inits finished.
KubeletAllocate(p, c) ==
  /\ pc[Alloc] = "idle"
  /\ phase[p] = "Pending"
  /\ c \in Asked(p)
  /\ run[p][c] = "waiting"
  /\ grant[p][c] = Ungranted
  /\ Granted(p, Before(c))
  /\ InitFirst /\ Kind[c] = "app" => InitsPast(p, Before(c))
  /\ pc' = [pc EXCEPT ![Alloc] = "refresh"]
  /\ req' = [pod |-> p, ctr |-> c]
  /\ UNCHANGED <<podVars, grant, marks, driverVars, passVars, cur, faults>>

\* Kubelet rejects the pod whose Allocate call failed.
RejectPod ==
  /\ pc[Alloc] = "reject"
  /\ pc' = [pc EXCEPT ![Alloc] = "idle"]
  /\ req' = NoReq
  /\ run' = [run EXCEPT ![req.pod] = [c \in Ctr |-> "done"]]
  /\ UNCHANGED <<phase, term, grant, marks, driverVars, passVars, cur, faults>>

SetRun(p, c, s) ==
  /\ run' = [run EXCEPT ![p][c] = s]
  /\ UNCHANGED <<phase, term, grant, marks, driverVars, pc, passVars, cur, req, faults>>

StartContainer(p, c) ==
  /\ run[p][c] = "waiting"
  /\ phase[p] = "Pending"
  /\ Granted(p, IF InitFirst THEN Before(c) \cup {c} ELSE Ctr)
  /\ InitsPast(p, Before(c))
  /\ SetRun(p, c, "running")

AppsDone(p) == \A c \in Ctr : Kind[c] = "app" => run[p][c] = "done"

ExitContainer(p, c) ==
  /\ run[p][c] = "running"
  /\ Kind[c] = "sidecar" => AppsDone(p)
  /\ SetRun(p, c, "done")

CrashContainer(p, c) ==
  /\ run[p][c] = "running"
  /\ Kind[c] \in RestartKinds
  /\ SetRun(p, c, "backoff")

RestartContainer(p, c) == run[p][c] = "backoff" /\ SetRun(p, c, "running")

\* Eviction, graceful deletion, deadline, failed init container.
KillPod(p) ==
  /\ Listed(p)
  /\ \E c \in Ctr : run[p][c] # "done"
  /\ req # NoReq => req.pod # p
  /\ run' = [run EXCEPT ![p] = [c \in Ctr |-> "done"]]
  /\ UNCHANGED <<phase, term, grant, marks, driverVars, pc, passVars, cur, req, faults>>

PhaseOf(p) ==
  IF \A c \in Ctr : run[p][c] = "done" THEN "Terminal"
  ELSE IF InitsPast(p, Ctr) /\ \A c \in Ctr : Kind[c] = "app" => run[p][c] # "waiting"
  THEN "Running" ELSE "Pending"
TermOf(p) == {c \in Ctr : Kind[c] # "app" /\ run[p][c] \in {"backoff", "done"}}

\* The API server learns of the containers' state some time later.
ReportStatus(p) ==
  /\ Listed(p)
  /\ phase[p] # "Terminal"
  /\ phase' = [phase EXCEPT ![p] = PhaseOf(p)]
  /\ term' = [term EXCEPT ![p] = TermOf(p)]
  /\ UNCHANGED <<run, grant, marks, driverVars, pc, passVars, cur, req, faults>>

DeleteByUser(p) ==
  /\ Listed(p)
  /\ Gone(p)
  /\ UNCHANGED <<grant, marks, driverVars, pc, passVars, cur, req, faults>>

\* The plugin process dies: its goroutines' locals are lost, an Allocate call
\* in progress fails in kubelet, files and vHCUs stay.
PluginCrash ==
  /\ faults < MaxFaults
  /\ faults' = faults + 1
  /\ stranded' = stranded \cup
       {v \in {cur[t] : t \in Thread} \cap Vdev : vh[v] # "free" /\ ~Marked(v)}
  /\ pc' = [t \in Thread |-> "idle"]
  /\ todo' = [t \in Thread |-> {}]
  /\ victims' = [t \in Thread |-> {}]
  /\ cur' = [t \in Thread |-> NoVdev]
  /\ req' = NoReq
  /\ run' = IF req = NoReq THEN run
            ELSE [run EXCEPT ![req.pod] = [c \in Ctr |-> "done"]]
  /\ UNCHANGED <<phase, term, grant, marks, vh, conf, reissued>>

EnvStep ==
  \/ RejectPod
  \/ \E p \in Pod :
       \/ PodCreate(p)
       \/ KillPod(p)
       \/ ReportStatus(p)
       \/ DeleteByUser(p)
       \/ \E c \in Ctr : \/ KubeletAllocate(p, c)
                         \/ StartContainer(p, c)
                         \/ ExitContainer(p, c)
                         \/ CrashContainer(p, c)
                         \/ RestartContainer(p, c)
  \/ PluginCrash

Init ==
  /\ phase = [p \in Pod |-> "absent"]
  /\ term = [p \in Pod |-> {}]
  /\ run = [p \in Pod |-> [c \in Ctr |-> "waiting"]]
  /\ grant = [p \in Pod |-> [c \in Ctr |-> Ungranted]]
  /\ marks = {}
  /\ vh = [v \in Vdev |-> "free"]
  /\ conf = {}
  /\ pc = [t \in Thread |-> "idle"]
  /\ todo = [t \in Thread |-> {}]
  /\ victims = [t \in Thread |-> {}]
  /\ cur = [t \in Thread |-> NoVdev]
  /\ req = NoReq
  /\ faults = 0
  /\ stranded = {} /\ reissued = {}

Next == (\E t \in Thread : RefreshStep(t)) \/ AllocStep \/ EnvStep

Spec == Init /\ [][Next]_vars

-----------------------------------------------------------------------------
(* Fairness: WatchAndRegister loops forever and its List call does not fail *)
(* forever; every goroutine that is past its start, and the gRPC server,    *)
(* keep running.  Nothing is assumed of kubelet except that it takes note   *)
(* of a failed answer, and nothing of users or of the informer's events.    *)

Proceed(t) == pc[t] \in RefreshPcs /\ RefreshStep(t)

Fairness ==
  /\ \A t \in Watch : WF_vars(ReadMarks(t)) /\ SF_vars(ListPods(t))
  /\ \A t \in Thread : WF_vars(Proceed(t))
  /\ WF_vars(ReadMarks(Alloc))
  /\ WF_vars(AllocStep)
  /\ WF_vars(RejectPod)

FairSpec == Spec /\ Fairness

-----------------------------------------------------------------------------
(* Properties.                                                             *)

\* A container that got an Allocate answer and has not ended.
InUse(p, c) == grant[p][c] # Ungranted /\ run[p][c] # "done"
Finished(p) == phase[p] \in {"Terminal", "gone"}

\* Containers that never run again once they were reported terminated: all but
\* the classic init containers of pods whose kubelet retries them.
Durable(c) == Kind[c] = "init" => "init" \notin RestartKinds

\* The vHCUs some goroutine can still free: it is on its way to the destroy call.
Held(v) ==
  \/ \E t \in Thread : pc[t] \in {"stop", "destroy"} /\ cur[t] = v
  \/ pc[Alloc] \in {"mark", "rbstop", "rbdestroy"} /\ cur[Alloc] = v

\* Every variable keeps its shape; in particular a goroutine about to call the
\* driver holds the index of a vHCU, never the -1 of a whole-card mark
\* (destroyMarkedVDevice's early return), and Allocate always has a request.
TypeOK ==
  /\ phase \in [Pod -> Phases]
  /\ term \in [Pod -> SUBSET Ctr]
  /\ run \in [Pod -> [Ctr -> RunStates]]
  /\ grant \in [Pod -> [Ctr -> Vdev \cup {NoVdev, Ungranted}]]
  /\ marks \subseteq Mark
  /\ vh \in [Vdev -> {"free", "up", "stopped"}]
  /\ conf \subseteq Vdev
  /\ pc \in [Thread -> {"idle"} \cup RefreshPcs \cup AllocPcs]
  /\ todo \in [Thread -> SUBSET Mark]
  /\ victims \in [Thread -> SUBSET Pod]
  /\ cur \in [Thread -> Vdev \cup {NoVdev}]
  /\ \A t \in Thread : pc[t] \in HoldPcs => cur[t] \in Vdev
  /\ \A t \in Loop : pc[t] \in {"idle"} \cup RefreshPcs
  /\ req \in Request \cup {NoReq}
  /\ pc[Alloc] # "idle" => req \in Request
  /\ faults \in 0 .. MaxFaults
  /\ stranded \subseteq Vdev /\ reissued \subseteq Vdev

\* However the passes, Allocate and crashes interleave, a vHCU that exists in
\* the driver has a mark, or a goroutine about to destroy or mark it, or was
\* lost to a failed destroy call or a crash: no other path leaks one.
Accounted == \A v \in Vdev : vh[v] # "free" => Marked(v) \/ Held(v) \/ v \in stranded

\* No pass, whatever it read and however long ago, removes the mark of a
\* container that still uses its vHCU (markFileStillNeeded, judged on a pod
\* list that is older than the removal).
LiveGrantMarked ==
  \A p \in Pod, c \in Ctr :
    InUse(p, c) /\ grant[p][c] \in Vdev =>
      [pod |-> p, ctr |-> c, vdev |-> grant[p][c]] \in marks

\* A container keeps a working vHCU for as long as it runs or may be restarted.
LiveVhcuKept ==
  \A p \in Pod, c \in Ctr :
    InUse(p, c) /\ grant[p][c] \in Vdev => vh[grant[p][c]] = "up"

\* However passes overlap, calls fail and the plugin crashes, marks, passes and
\* Allocate come to this: a pool whose vHCUs each go to one container, are on
\* record while it lives, work until it ended, and only then are taken back
\* ("keep their allocation until the Pod reaches a terminal phase",
\* markfile.go:75); an index is lost to the pool only when the driver hands it
\* out again while a record of its former bearer is left.
Pool == INSTANCE VhcuPool WITH
  User <- Pod \X Ctr,
  work <- [v \in Vdev |-> IF v \in reissued THEN "astray" ELSE vh[v]],
  user <- [v \in Vdev |-> {x \in Pod \X Ctr : /\ InUse(x[1], x[2]) /\ Durable(x[2])
                                            /\ grant[x[1]][x[2]] = v /\ v \notin reissued}],
  due <- {v \in Vdev : Awaited(v)}
PoolSpec == Pool!Spec

\* The conf file a container mounts stays on the host while it is in use.
LiveGrantHasConf ==
  \A p \in Pod, c \in Ctr :
    InUse(p, c) /\ grant[p][c] \in Vdev => grant[p][c] \in conf

\* Whatever passes overlap and whatever init containers kubelet retries, every
\* other container keeps a working vHCU of its own and the conf file it mounts,
\* for as long as it runs or may be restarted, if the driver did not hand out
\* the index of its vHCU while a pass still had the former one to tear down, or
\* a mark file that could not be removed still named it.
SettledVhcuKept ==
  \A p \in Pod, c \in Ctr :
    /\ InUse(p, c) /\ grant[p][c] \in Vdev \ reissued
    /\ Durable(c)
    => /\ vh[grant[p][c]] = "up" /\ grant[p][c] \in conf
       /\ \A q \in Pod, d \in Ctr :
            /\ InUse(q, d) /\ Kind[d] # "init"
            /\ grant[q][d] = grant[p][c]
            => q = p /\ d = c

\* An app's vHCU is never cut while a finished init container of the same pod
\* still has one (the purpose of the pre-Allocate refresh, plugin.go:761).
NoInitAppOverlap ==
  \A p \in Pod, c, d \in Ctr :
    /\ Kind[c] = "init" /\ run[p][c] = "done"
    /\ Kind[d] = "app" /\ InUse(p, d)
    /\ grant[p][c] \in Vdev /\ grant[p][d] \in Vdev
    => vh[grant[p][c]] = "free" \/ grant[p][c] = grant[p][d]

\* A pass deletes a pod only when Allocate really left it without a mark:
\* never one whose containers all have the mark that is required of them.
OnlyUnmarkedPodDeleted ==
  [][\A t \in Thread, p \in Pod :
       /\ pc[t] = "scan" /\ p \in victims[t] /\ victims'[t] # victims[t]
       /\ Listed(p) /\ phase'[p] = "gone"
       => \E c \in Ctr : /\ RequestsVirtualHCU(p, c)
                         /\ \A m \in marks : m.pod # p \/ m.ctr # c]_vars

\* A pod that follows a judged pod under the same name is not deleted in its
\* place: a pass removes only pods it listed as missing a mark itself.
OnlyJudgedPodDeleted ==
  [][\A t \in Thread, p \in Pod :
       /\ pc[t] = "scan" /\ victims'[t] # victims[t]
       /\ Listed(p) /\ phase'[p] = "gone"
       => p \in victims[t]]_vars

\* A pass deletes a pod only after a failed Allocate ("Used to detect Allocate
\* failures", markfile.go:116): some container of it got no answer.
OnlyFailedPodDeleted ==
  [][\A t \in Thread, p \in Pod :
       /\ pc[t] = "scan" /\ victims'[t] # victims[t]
       /\ Listed(p) /\ phase'[p] = "gone"
       => \E c \in Asked(p) : grant[p][c] = Ungranted]_vars

\* "Used to detect Allocate failures without false-positive deleting pods"
\* (markfile.go:114): a pass that read every mark of a pod judges it only if
\* Allocate left a container without an answer, or answered without a mark;
\* never for marks that were reclaimed when init containers ended or waited for
\* their retry, or for those of an earlier pod of its name.
OnlyFailedPodJudged ==
  [][\A t \in Thread, p \in Pod :
       /\ pc[t] = "list" /\ pc'[t] = "scan" /\ p \in victims'[t]
       /\ {m \in marks : m.pod = p} \subseteq todo[t]
       => \/ \E c \in Asked(p) : grant[p][c] = Ungranted \/ Ask[p][c] = "bare"
          \/ faults > 0]_vars

\* A node whose pods have all ended gets every vHCU back and keeps no mark.
DrainedNodeFree ==
  (\A p \in Pod : Finished(p)) ~>
     [](marks = {} /\ \A v \in Vdev : vh[v] = "free")

\* The marks of a pod that ended go away for good, also when Allocate was
\* still writing one.
MarksDrain ==
  \A p \in Pod : Finished(p) ~> [](\A m \in marks : m.pod # p)

\* Every Allocate call of kubelet is answered.
AllocAnswered == pc[Alloc] = "refresh" ~> pc[Alloc] = "idle"

=============================================================================
