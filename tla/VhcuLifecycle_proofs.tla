----------------------- MODULE VhcuLifecycle_proofs -----------------------
(***************************************************************************)
(* Theorems about VhcuLifecycle, for every value of its constants.         *)
(***************************************************************************)
EXTENDS VhcuLifecycle, TLAPS

USE DEF Thread, Loop, Kinds, Asks, Phases, RunStates, RefreshPcs, AllocPcs, HoldPcs,
        Mark, Request, podVars, driverVars, passVars, vars

-----------------------------------------------------------------------------
(* Type correctness.                                                       *)

\* The removal of a mark file.
LEMMA UnlinkParts ==
  ASSUME TypeOK, NEW m, Unlink(m)
  PROVE  /\ marks' \subseteq marks /\ \A n \in marks : n = m \/ n \in marks'
         /\ faults' \in 0 .. MaxFaults /\ (faults' = 0 => faults = 0)
BY BoundAssumption DEF Unlink, TypeOK

\* A pod that leaves the API server keeps its variables' types.
LEMMA GoneType ==
  ASSUME TypeOK, NEW p \in Pod, Gone(p)
  PROVE  /\ phase' \in [Pod -> Phases]
         /\ term' \in [Pod -> SUBSET Ctr]
         /\ run' \in [Pod -> [Ctr -> RunStates]]
BY DEF TypeOK, Gone

\* A step of a refresh pass keeps the types.
LEMMA RefreshType ==
  ASSUME TypeOK, NEW t \in Thread, RefreshStep(t)
  PROVE  TypeOK'
<1> USE ThreadAssumption, VdevAssumption, BoundAssumption
<1>1. CASE ReadMarks(t)
  BY <1>1 DEF TypeOK, ReadMarks, Idle
<1>2. CASE RefreshFails(t)
  BY <1>2 DEF TypeOK, RefreshFails, Resume
<1>3. CASE ListPods(t)
  BY <1>3 DEF TypeOK, ListPods
<1>4. ASSUME NEW m \in todo[t], RemoveMark(t, m) PROVE TypeOK'
  <2>1. m \in Mark /\ m.vdev \in Vdev \cup {NoVdev}
    BY <1>4 DEF TypeOK
  <2>2. todo' \in [Thread -> SUBSET Mark] /\ marks' \subseteq Mark /\ faults' \in 0 .. MaxFaults
    BY <1>4, UnlinkParts DEF TypeOK, RemoveMark
  <2>3. CASE m.vdev = NoVdev
    BY <1>4, <2>2, <2>3 DEF TypeOK, RemoveMark
  <2>4. CASE m.vdev # NoVdev
    <3>1. /\ pc' = [pc EXCEPT ![t] = "stop"]
          /\ cur' = [cur EXCEPT ![t] = m.vdev]
          /\ UNCHANGED <<podVars, grant, driverVars, victims, req>>
      BY <1>4, <2>4 DEF RemoveMark
    <3>2. pc[t] = "scan"
      BY <1>4 DEF RemoveMark
    <3> QED
      BY <2>1, <2>2, <2>4, <3>1, <3>2 DEF TypeOK
  <2> QED
    BY <2>3, <2>4
<1>5. CASE StopVDevice(t)
  BY <1>5 DEF TypeOK, StopVDevice
<1>6. CASE DestroyVDevice(t)
  <2>1. cur[t] \in Vdev
    BY <1>6 DEF TypeOK, DestroyVDevice
  <2>2. Destroyed(cur[t]) \/ NotDestroyed(cur[t])
    BY <1>6 DEF DestroyVDevice
  <2>3. vh' \in [Vdev -> {"free", "up", "stopped"}]
    BY <2>1, <2>2 DEF TypeOK, Destroyed, NotDestroyed
  <2>4. stranded' \subseteq Vdev /\ faults' \in 0 .. MaxFaults
    BY <2>1, <2>2 DEF TypeOK, Destroyed, NotDestroyed
  <2> QED
    BY <1>6, <2>1, <2>3, <2>4 DEF TypeOK, DestroyVDevice
<1>7. CASE RemoveConf(t)
  BY <1>7 DEF TypeOK, RemoveConf
<1>8. ASSUME NEW p \in victims[t], DeletePod(t, p) PROVE TypeOK'
  <2>1. /\ phase' \in [Pod -> Phases]
        /\ term' \in [Pod -> SUBSET Ctr]
        /\ run' \in [Pod -> [Ctr -> RunStates]]
    BY <1>8, GoneType DEF TypeOK, DeletePod
  <2> QED
    BY <1>8, <2>1 DEF TypeOK, DeletePod
<1>9. CASE EndRefresh(t)
  BY <1>9 DEF TypeOK, EndRefresh, Resume
<1> QED
  BY <1>1, <1>2, <1>3, <1>4, <1>5, <1>6, <1>7, <1>8, <1>9, RefreshStep(t) DEF RefreshStep

\* A step of AllocateHAMiHCUs keeps the types.
LEMMA AllocType ==
  ASSUME TypeOK, AllocStep
  PROVE  TypeOK'
<1> USE ThreadAssumption, VdevAssumption, BoundAssumption
<1>1. CASE Refuse
  BY <1>1 DEF TypeOK, Refuse, MarkOf
<1>2. CASE GrantWhole
  BY <1>2 DEF TypeOK, GrantWhole, MarkOf, Answer
<1>3. CASE GrantBare
  BY <1>3 DEF TypeOK, GrantBare, Answer
<1>4. ASSUME NEW v \in Vdev, CreateVDevice(v) PROVE TypeOK'
  BY <1>4 DEF TypeOK, CreateVDevice
<1>5. CASE WriteMark
  <2>1. MarkOf(cur[Alloc]) \in Mark
    BY <1>5 DEF TypeOK, WriteMark, MarkOf
  <2>2. marks' \subseteq Mark /\ faults' \in 0 .. MaxFaults
    BY <1>5, <2>1 DEF TypeOK, WriteMark, MarkFails
  <2> QED
    BY <1>5, <2>2 DEF TypeOK, WriteMark
<1>6. CASE MountConf
  <2>1. req \in Request /\ cur[Alloc] \in Vdev
    BY <1>6 DEF TypeOK, MountConf
  <2>2. CASE cur[Alloc] \in conf
    <3>1. grant' \in [Pod -> [Ctr -> Vdev \cup {NoVdev, Ungranted}]]
      <4>1. grant' = [grant EXCEPT ![req.pod][req.ctr] = cur[Alloc]]
        BY <1>6, <2>2 DEF MountConf, Answer
      <4>2. req.pod \in Pod /\ req.ctr \in Ctr
        BY <2>1
      <4> QED
        BY <2>1, <4>1, <4>2 DEF TypeOK
    <3> QED
      BY <1>6, <2>1, <2>2, <3>1 DEF TypeOK, MountConf, Answer
  <2>3. CASE cur[Alloc] \notin conf
    BY <1>6, <2>3 DEF TypeOK, MountConf
  <2> QED
    BY <2>2, <2>3
<1>7. CASE RollbackMark
  BY <1>7, UnlinkParts DEF TypeOK, RollbackMark
<1>8. CASE RollbackStop
  BY <1>8 DEF TypeOK, RollbackStop
<1>9. CASE RollbackDestroy
  <2>1. cur[Alloc] \in Vdev
    BY <1>9 DEF TypeOK, RollbackDestroy
  <2>2. /\ vh' \in [Vdev -> {"free", "up", "stopped"}]
        /\ stranded' \subseteq Vdev
        /\ faults' \in 0 .. MaxFaults
    BY <1>9, <2>1 DEF TypeOK, RollbackDestroy, Destroyed, NotDestroyed
  <2> QED
    BY <1>9, <2>1, <2>2 DEF TypeOK, RollbackDestroy
<1> QED
  BY <1>1, <1>2, <1>3, <1>4, <1>5, <1>6, <1>7, <1>8, <1>9 DEF AllocStep

\* A step of kubelet, the API server, a user or a crash keeps the types.
LEMMA EnvType ==
  ASSUME TypeOK, EnvStep
  PROVE  TypeOK'
<1> USE ThreadAssumption, VdevAssumption, BoundAssumption
<1>1. CASE RejectPod
  BY <1>1 DEF TypeOK, RejectPod
<1>2. ASSUME NEW p \in Pod, PodCreate(p) PROVE TypeOK'
  BY <1>2 DEF TypeOK, PodCreate
<1>3. ASSUME NEW p \in Pod, KillPod(p) PROVE TypeOK'
  BY <1>3 DEF TypeOK, KillPod
<1>4. ASSUME NEW p \in Pod, ReportStatus(p) PROVE TypeOK'
  <2>1. PhaseOf(p) \in Phases /\ TermOf(p) \subseteq Ctr
    BY DEF PhaseOf, TermOf
  <2> QED
    BY <1>4, <2>1 DEF TypeOK, ReportStatus
<1>5. ASSUME NEW p \in Pod, DeleteByUser(p) PROVE TypeOK'
  BY <1>5, GoneType DEF TypeOK, DeleteByUser
<1>6. ASSUME NEW p \in Pod, NEW c \in Ctr, KubeletAllocate(p, c) PROVE TypeOK'
  BY <1>6 DEF TypeOK, KubeletAllocate
<1>7. ASSUME NEW p \in Pod, NEW c \in Ctr, NEW s \in RunStates, SetRun(p, c, s)
      PROVE  TypeOK'
  BY <1>7 DEF TypeOK, SetRun
<1>8. CASE PluginCrash
  <2>1. run' \in [Pod -> [Ctr -> RunStates]]
    BY <1>8, ReqAssumption DEF TypeOK, PluginCrash
  <2>2. stranded' \subseteq Vdev /\ faults' \in 0 .. MaxFaults
    BY <1>8 DEF TypeOK, PluginCrash
  <2> QED
    BY <1>8, <2>1, <2>2 DEF TypeOK, PluginCrash
<1> QED
  BY <1>1, <1>2, <1>3, <1>4, <1>5, <1>6, <1>7, <1>8
  DEF EnvStep, StartContainer, ExitContainer, CrashContainer, RestartContainer

\* Every variable keeps its shape for all pods, containers, vHCUs, goroutines,
\* bounds and kubelet policies; a goroutine at a driver call holds a vHCU index.
THEOREM TypeCorrect == Spec => []TypeOK
<1>1. Init => TypeOK
  BY ThreadAssumption, BoundAssumption DEF Init, TypeOK
<1>2. TypeOK /\ [Next]_vars => TypeOK'
  <2> SUFFICES ASSUME TypeOK, [Next]_vars PROVE TypeOK'
    OBVIOUS
  <2>1. CASE UNCHANGED vars
    BY <2>1 DEF TypeOK
  <2> QED
    BY <2>1, RefreshType, AllocType, EnvType DEF Next
<1> QED
  BY <1>1, <1>2, PTL DEF Spec

-----------------------------------------------------------------------------
(* No vHCU leaks, except through a failed destroy call or a crash.         *)

\* A goroutine that is neither before nor after at a place where it could free
\* or mark its vHCU changes no account.
LEMMA AccountedElsewhere ==
  ASSUME TypeOK, Accounted, NEW t \in Thread,
         pc[t] \notin {"stop", "destroy", "mark", "rbstop", "rbdestroy"},
         \A u \in Thread \ {t} : pc'[u] = pc[u] /\ cur'[u] = cur[u],
         \A m \in marks : m \in marks',
         vh' = vh, stranded' = stranded
  PROVE  Accounted'
<1> SUFFICES ASSUME NEW v \in Vdev, vh'[v] # "free"
             PROVE  Marked(v)' \/ Held(v)' \/ v \in stranded'
  BY DEF Accounted
<1>1. Marked(v) \/ Held(v) \/ v \in stranded
  BY DEF Accounted
<1>2. CASE Marked(v)
  BY <1>2 DEF Marked
<1>3. CASE Held(v)
  BY <1>3 DEF Held
<1> QED
  BY <1>1, <1>2, <1>3

\* A step of a refresh pass keeps every vHCU accounted for.
LEMMA RefreshAccounted ==
  ASSUME TypeOK, Accounted, NEW t \in Thread, RefreshStep(t)
  PROVE  Accounted'
<1> USE ThreadAssumption, VdevAssumption
<1>0. pc \in [Thread -> {"idle"} \cup RefreshPcs \cup AllocPcs] /\ cur \in [Thread -> Vdev \cup {NoVdev}]
  BY DEF TypeOK
<1>1. CASE ReadMarks(t)
  BY <1>0, <1>1, AccountedElsewhere DEF ReadMarks, Idle
<1>2. CASE RefreshFails(t)
  BY <1>0, <1>2, AccountedElsewhere DEF RefreshFails
<1>3. CASE ListPods(t)
  BY <1>0, <1>3, AccountedElsewhere DEF ListPods
<1>4. ASSUME NEW m \in todo[t], RemoveMark(t, m) PROVE Accounted'
  <2>1. m \in Mark
    BY DEF TypeOK
  <2> SUFFICES ASSUME NEW v \in Vdev, vh'[v] # "free"
               PROVE  Marked(v)' \/ Held(v)' \/ v \in stranded'
    BY DEF Accounted
  <2>2. /\ vh' = vh /\ stranded' = stranded /\ pc[t] = "scan"
        /\ \A n \in marks : n = m \/ n \in marks'
    BY <1>4, UnlinkParts DEF RemoveMark
  <2>3. Marked(v) \/ Held(v) \/ v \in stranded
    BY <2>2 DEF Accounted
  <2>4. CASE m.vdev = v
    <3>1. pc'[t] = "stop" /\ cur'[t] = v
      BY <1>0, <1>4, <2>4 DEF RemoveMark
    <3> QED
      BY <3>1 DEF Held
  <2>5. CASE m.vdev # v /\ Marked(v)
    BY <2>2, <2>5 DEF Marked
  <2>6. CASE Held(v)
    <3>1. \A u \in Thread \ {t} : pc'[u] = pc[u] /\ cur'[u] = cur[u]
      BY <1>0, <1>4 DEF RemoveMark
    <3> QED
      BY <2>2, <2>6, <3>1 DEF Held
  <2> QED
    BY <2>2, <2>3, <2>4, <2>5, <2>6
<1>5. CASE StopVDevice(t)
  <2>1. /\ pc[t] = "stop" /\ pc' = [pc EXCEPT ![t] = "destroy"] /\ cur' = cur
        /\ marks' = marks /\ stranded' = stranded
    BY <1>5 DEF StopVDevice
  <2>2. \A v \in Vdev : vh'[v] # "free" => vh[v] # "free"
    BY <1>5 DEF StopVDevice, TypeOK
  <2>3. \A v \in Vdev : Held(v) => Held(v)'
    BY <1>0, <2>1 DEF Held
  <2> QED
    BY <2>1, <2>2, <2>3 DEF Accounted, Marked
<1>6. CASE DestroyVDevice(t)
  <2>1. /\ pc[t] = "destroy" /\ pc' = [pc EXCEPT ![t] = "unlink"] /\ cur' = cur
        /\ marks' = marks
        /\ Destroyed(cur[t]) \/ NotDestroyed(cur[t])
    BY <1>6 DEF DestroyVDevice
  <2>2. \A v \in Vdev \ {cur[t]} : Held(v) => Held(v)'
    BY <1>0, <2>1 DEF Held
  <2>3. CASE Destroyed(cur[t])
    <3>1. \A v \in Vdev : vh'[v] # "free" => v # cur[t] /\ vh[v] # "free"
      BY <2>3 DEF Destroyed, TypeOK
    <3>2. \A v \in stranded : v # cur[t] => v \in stranded'
      BY <2>3 DEF Destroyed
    <3> QED
      BY <2>1, <2>2, <3>1, <3>2 DEF Accounted, Marked
  <2>4. CASE NotDestroyed(cur[t])
    BY <2>1, <2>2, <2>4 DEF Accounted, Marked, NotDestroyed
  <2> QED
    BY <2>1, <2>3, <2>4
<1>7. CASE RemoveConf(t)
  BY <1>0, <1>7, AccountedElsewhere DEF RemoveConf
<1>8. ASSUME NEW p \in victims[t], DeletePod(t, p) PROVE Accounted'
  BY <1>0, <1>8, AccountedElsewhere DEF DeletePod
<1>9. CASE EndRefresh(t)
  BY <1>0, <1>9, AccountedElsewhere DEF EndRefresh
<1> QED
  BY <1>1, <1>2, <1>3, <1>4, <1>5, <1>6, <1>7, <1>8, <1>9 DEF RefreshStep

\* A step of AllocateHAMiHCUs keeps every vHCU accounted for.
LEMMA AllocAccounted ==
  ASSUME TypeOK, Accounted, AllocStep
  PROVE  Accounted'
<1> USE ThreadAssumption, VdevAssumption
<1>0. /\ pc \in [Thread -> {"idle"} \cup RefreshPcs \cup AllocPcs]
      /\ cur \in [Thread -> Vdev \cup {NoVdev}]
      /\ Alloc \in Thread
  BY DEF TypeOK
<1>1. CASE Refuse
  BY <1>0, <1>1, AccountedElsewhere DEF Refuse
<1>2. CASE GrantWhole
  BY <1>0, <1>2, AccountedElsewhere DEF GrantWhole, Answer
<1>3. CASE GrantBare
  BY <1>0, <1>3, AccountedElsewhere DEF GrantBare, Answer
<1>4. ASSUME NEW v \in Vdev, CreateVDevice(v) PROVE Accounted'
  <2>1. /\ pc[Alloc] = "serve" /\ vh' = [vh EXCEPT ![v] = "up"]
        /\ pc' = [pc EXCEPT ![Alloc] = "mark"] /\ cur' = [cur EXCEPT ![Alloc] = v]
        /\ marks' = marks /\ stranded' = stranded
    BY <1>4 DEF CreateVDevice
  <2>2. Held(v)'
    BY <1>0, <2>1 DEF Held
  <2>3. \A w \in Vdev : Held(w) => Held(w)'
    BY <1>0, <2>1 DEF Held
  <2>4. \A w \in Vdev \ {v} : vh'[w] = vh[w]
    BY <2>1 DEF TypeOK
  <2> QED
    BY <2>1, <2>2, <2>3, <2>4 DEF Accounted, Marked
<1>5. CASE WriteMark
  <2> DEFINE u == cur[Alloc]
  <2>1. /\ pc[Alloc] = "mark" /\ cur' = cur /\ vh' = vh /\ stranded' = stranded
        /\ marks \subseteq marks'
    BY <1>5 DEF WriteMark, MarkFails
  <2>2. Marked(u)' \/ Held(u)'
    <3>1. CASE marks' = marks \cup {MarkOf(u)}
      <4>1. MarkOf(u) \in marks' /\ MarkOf(u).vdev = u
        BY <3>1 DEF MarkOf
      <4> QED
        BY <2>1, <4>1 DEF Marked
    <3>2. CASE pc' = [pc EXCEPT ![Alloc] = "rbstop"]
      BY <1>0, <2>1, <3>2 DEF Held
    <3> QED
      BY <1>5, <3>1, <3>2 DEF WriteMark
  <2>3. \A v \in Vdev \ {u} : Held(v) => Held(v)'
    BY <1>0, <1>5 DEF WriteMark, Held
  <2> QED
    BY <2>1, <2>2, <2>3 DEF Accounted, Marked
<1>6. CASE MountConf
  BY <1>0, <1>6, AccountedElsewhere DEF MountConf, Answer
<1>7. CASE RollbackMark
  <2> DEFINE u == cur[Alloc]
  <2>1. /\ pc[Alloc] = "unmark" /\ pc' = [pc EXCEPT ![Alloc] = "rbstop"]
        /\ \A n \in marks : n = MarkOf(u) \/ n \in marks'
        /\ cur' = cur /\ vh' = vh /\ stranded' = stranded
    BY <1>7, UnlinkParts DEF RollbackMark
  <2>2. Held(u)'
    BY <1>0, <2>1 DEF Held
  <2>3. \A v \in Vdev : Held(v) => Held(v)'
    BY <1>0, <2>1 DEF Held
  <2>4. \A v \in Vdev \ {u} : Marked(v) => Marked(v)'
    BY <2>1 DEF Marked, MarkOf
  <2> QED
    BY <2>1, <2>2, <2>3, <2>4 DEF Accounted
<1>8. CASE RollbackStop
  <2>1. /\ pc[Alloc] = "rbstop" /\ pc' = [pc EXCEPT ![Alloc] = "rbdestroy"]
        /\ cur' = cur /\ marks' = marks /\ stranded' = stranded
    BY <1>8 DEF RollbackStop
  <2>2. \A v \in Vdev : vh'[v] # "free" => vh[v] # "free"
    BY <1>8 DEF RollbackStop, TypeOK
  <2>3. \A v \in Vdev : Held(v) => Held(v)'
    BY <1>0, <2>1 DEF Held
  <2> QED
    BY <2>1, <2>2, <2>3 DEF Accounted, Marked
<1>9. CASE RollbackDestroy
  <2> DEFINE u == cur[Alloc]
  <2>1. /\ pc[Alloc] = "rbdestroy" /\ pc' = [pc EXCEPT ![Alloc] = "reject"]
        /\ cur' = [cur EXCEPT ![Alloc] = NoVdev] /\ marks' = marks
        /\ Destroyed(u) \/ NotDestroyed(u)
    BY <1>9 DEF RollbackDestroy
  <2>2. \A v \in Vdev \ {u} : Held(v) => Held(v)'
    BY <1>0, <2>1 DEF Held
  <2>3. CASE Destroyed(u)
    <3>1. \A v \in Vdev : vh'[v] # "free" => v # u /\ vh[v] # "free"
      BY <2>3 DEF Destroyed, TypeOK
    <3>2. \A v \in stranded : v # u => v \in stranded'
      BY <2>3 DEF Destroyed
    <3> QED
      BY <2>1, <2>2, <3>1, <3>2 DEF Accounted, Marked
  <2>4. CASE NotDestroyed(u)
    BY <2>1, <2>2, <2>4 DEF Accounted, Marked, NotDestroyed
  <2> QED
    BY <2>1, <2>3, <2>4
<1> QED
  BY <1>1, <1>2, <1>3, <1>4, <1>5, <1>6, <1>7, <1>8, <1>9 DEF AllocStep

\* Kubelet, users and a crash keep every vHCU accounted for: a crash moves the
\* unmarked ones a goroutine held to stranded.
LEMMA EnvAccounted ==
  ASSUME TypeOK, Accounted, EnvStep
  PROVE  Accounted'
<1> USE ThreadAssumption, VdevAssumption
<1>0. /\ pc \in [Thread -> {"idle"} \cup RefreshPcs \cup AllocPcs]
      /\ cur \in [Thread -> Vdev \cup {NoVdev}]
      /\ Alloc \in Thread
  BY DEF TypeOK
<1>1. CASE RejectPod
  BY <1>0, <1>1, AccountedElsewhere DEF RejectPod
<1>2. ASSUME NEW p \in Pod, NEW c \in Ctr, KubeletAllocate(p, c) PROVE Accounted'
  BY <1>0, <1>2, AccountedElsewhere DEF KubeletAllocate
<1>3. CASE PluginCrash
  <2>1. \A v \in Vdev : Held(v) => v \in {cur[t] : t \in Thread}
    BY <1>0 DEF Held
  <2>2. /\ marks' = marks /\ vh' = vh
        /\ stranded' = stranded \cup
             {v \in {cur[t] : t \in Thread} \cap Vdev : vh[v] # "free" /\ ~Marked(v)}
    BY <1>3 DEF PluginCrash
  <2>3. ASSUME NEW v \in Vdev, vh[v] # "free", ~Marked(v), Held(v)
        PROVE  v \in stranded'
    BY <2>1, <2>2, <2>3
  <2> QED
    BY <2>2, <2>3 DEF Accounted, Marked
<1>4. ASSUME UNCHANGED <<marks, driverVars, pc, cur>> PROVE Accounted'
  BY <1>4 DEF Accounted, Marked, Held
<1> QED
  BY <1>1, <1>2, <1>3, <1>4
  DEF EnvStep, PodCreate, KillPod, ReportStatus, DeleteByUser, StartContainer,
      ExitContainer, CrashContainer, RestartContainer, SetRun

\* However many passes, informer handlers and restarted loops interleave with
\* Allocate, crash or fail: a vHCU in the driver is marked, about to be marked
\* or destroyed, or was lost to a failed destroy call or a crash.
THEOREM NothingLeaks == Spec => []Accounted
<1>1. Init => Accounted
  BY DEF Init, Accounted
<1>2. TypeOK /\ Accounted /\ [Next]_vars => Accounted'
  <2> SUFFICES ASSUME TypeOK, Accounted, [Next]_vars PROVE Accounted'
    OBVIOUS
  <2>1. CASE UNCHANGED vars
    BY <2>1 DEF Accounted, Marked, Held
  <2> QED
    BY <2>1, RefreshAccounted, AllocAccounted, EnvAccounted DEF Next
<1> QED
  BY <1>1, <1>2, TypeCorrect, PTL DEF Spec

-----------------------------------------------------------------------------
(* No pass removes the mark of a container in use, unless it is a classic   *)
(* init container that kubelet restarts after a failure.                    *)

\* What a report that a container terminated comes to: it has ended, or is one
\* that may run again.
Over(p, c) == run[p][c] = "done" \/ ~Durable(c)

DurableMarked ==
  \A p \in Pod, c \in Ctr :
    InUse(p, c) /\ Durable(c) /\ grant[p][c] \in Vdev =>
      [pod |-> p, ctr |-> c, vdev |-> grant[p][c]] \in marks

\* All the ways in which a step changes what is known of the pods.
Created(p) == phase' = [phase EXCEPT ![p] = "Pending"] /\ UNCHANGED <<term, run>>
Ended(p) == run' = [run EXCEPT ![p] = [c \in Ctr |-> "done"]] /\ UNCHANGED <<phase, term>>
Moved(p, c, s) == /\ run[p][c] # "done"
                  /\ s = "backoff" => Kind[c] \in RestartKinds
                  /\ run' = [run EXCEPT ![p][c] = s]
                  /\ UNCHANGED <<phase, term>>
Reported(p) == /\ phase' = [phase EXCEPT ![p] = PhaseOf(p)]
               /\ term' = [term EXCEPT ![p] = TermOf(p)]
               /\ UNCHANGED run
PodStep ==
  \/ UNCHANGED podVars
  \/ \E p \in Pod : Gone(p) \/ Created(p) \/ Ended(p) \/ Reported(p)
  \/ \E p \in Pod, c \in Ctr, s \in RunStates : Moved(p, c, s)

\* Whatever a step does, to one pod at most it does one of these five things.
LEMMA EveryPodStep ==
  ASSUME TypeOK, Next
  PROVE  PodStep
<1>1. CASE AllocStep
  BY <1>1 DEF AllocStep, Refuse, GrantWhole, GrantBare, CreateVDevice, WriteMark, MountConf,
              RollbackMark, RollbackStop, RollbackDestroy, PodStep
<1>2. ASSUME NEW t \in Thread, RefreshStep(t) PROVE PodStep
  <2>1. ASSUME NEW p \in victims[t], DeletePod(t, p) PROVE PodStep
    BY <2>1 DEF DeletePod, PodStep
  <2>2. CASE UNCHANGED podVars
    BY <2>2 DEF PodStep
  <2> QED
    BY <1>2, <2>1, <2>2
    DEF RefreshStep, ReadMarks, RefreshFails, ListPods, RemoveMark, StopVDevice,
        DestroyVDevice, RemoveConf, EndRefresh
<1>3. CASE RejectPod
  BY <1>3 DEF RejectPod, TypeOK, PodStep, Ended
<1>4. ASSUME NEW p \in Pod, PodCreate(p) PROVE PodStep
  BY <1>4 DEF PodCreate, PodStep, Created
<1>5. ASSUME NEW p \in Pod, KillPod(p) PROVE PodStep
  BY <1>5 DEF KillPod, PodStep, Ended
<1>6. ASSUME NEW p \in Pod, ReportStatus(p) PROVE PodStep
  BY <1>6 DEF ReportStatus, PodStep, Reported
<1>7. ASSUME NEW p \in Pod, DeleteByUser(p) PROVE PodStep
  BY <1>7 DEF DeleteByUser, PodStep
<1>8. ASSUME NEW p \in Pod, NEW c \in Ctr, KubeletAllocate(p, c) PROVE PodStep
  BY <1>8 DEF KubeletAllocate, PodStep
<1>9. ASSUME NEW p \in Pod, NEW c \in Ctr,
             \/ StartContainer(p, c) \/ ExitContainer(p, c)
             \/ CrashContainer(p, c) \/ RestartContainer(p, c)
      PROVE  PodStep
  <2> SUFFICES ASSUME NEW s \in RunStates, run[p][c] # "done",
                      s = "backoff" => Kind[c] \in RestartKinds, SetRun(p, c, s)
               PROVE  PodStep
    BY <1>9 DEF StartContainer, ExitContainer, CrashContainer, RestartContainer
  <2> QED
    BY DEF SetRun, PodStep, Moved
<1>10. CASE PluginCrash
  <2>1. CASE req = NoReq
    BY <1>10, <2>1 DEF PluginCrash, PodStep
  <2>2. CASE req # NoReq
    BY <1>10, <2>2 DEF PluginCrash, TypeOK, PodStep, Ended
  <2> QED
    BY <2>1, <2>2
<1> QED
  BY <1>1, <1>2, <1>3, <1>4, <1>5, <1>6, <1>7, <1>8, <1>9, <1>10 DEF Next, EnvStep

\* A container that is done stays done; a created pod stays created.
LEMMA DoneStays ==
  ASSUME TypeOK, PodStep, NEW p \in Pod
  PROVE  /\ \A c \in Ctr : run[p][c] = "done" => run'[p][c] = "done"
         /\ phase[p] # "absent" => phase'[p] # "absent"
<1> DEFINE Stays == /\ \A c \in Ctr : run[p][c] = "done" => run'[p][c] = "done"
                    /\ phase[p] # "absent" => phase'[p] # "absent"
<1>1. ASSUME NEW q \in Pod, Gone(q) PROVE Stays
  BY <1>1 DEF Gone, TypeOK
<1>2. ASSUME NEW q \in Pod, Created(q) PROVE Stays
  BY <1>2 DEF Created, TypeOK
<1>3. ASSUME NEW q \in Pod, Ended(q) PROVE Stays
  BY <1>3 DEF Ended, TypeOK
<1>4. ASSUME NEW q \in Pod, Reported(q) PROVE Stays
  <2>1. PhaseOf(q) # "absent"
    BY DEF PhaseOf
  <2> QED
    BY <1>4, <2>1 DEF Reported, TypeOK
<1>5. ASSUME NEW q \in Pod, NEW d \in Ctr, NEW s \in RunStates, Moved(q, d, s) PROVE Stays
  BY <1>5 DEF Moved, TypeOK
<1>6. ASSUME UNCHANGED podVars PROVE Stays
  BY <1>6
<1> HIDE DEF Stays
<1>7. Stays
  BY <1>1, <1>2, <1>3, <1>4, <1>5, <1>6 DEF PodStep
<1> QED
  BY <1>7 DEF Stays

LEMMA OverStays ==
  ASSUME TypeOK, PodStep, NEW p \in Pod
  PROVE  /\ \A c \in Ctr : Over(p, c) => Over(p, c)'
         /\ phase[p] # "absent" => phase'[p] # "absent"
BY DoneStays DEF Over

\* What the API server reports of an ended container is true.
PodFacts ==
  \A p \in Pod, c \in Ctr :
    /\ phase[p] \in {"Terminal", "gone"} => run[p][c] = "done"
    /\ Kind[c] = "init" /\ run[p][c] = "backoff" => ~Durable(c)
    /\ Kind[c] = "init" /\ c \in term[p] => Over(p, c)

\* No such step makes a report about an ended container untrue.
LEMMA PodFactsStep ==
  ASSUME TypeOK, PodFacts, PodStep
  PROVE  PodFacts'
<1>0. SUFFICES ASSUME NEW p \in Pod, NEW c \in Ctr
               PROVE  /\ phase'[p] \in {"Terminal", "gone"} => run'[p][c] = "done"
                      /\ Kind[c] = "init" /\ run'[p][c] = "backoff" => ~Durable(c)
                      /\ Kind[c] = "init" /\ c \in term'[p] => Over(p, c)'
  BY DEF PodFacts
<1> DEFINE Kept == /\ phase'[p] \in {"Terminal", "gone"} => run'[p][c] = "done"
                   /\ Kind[c] = "init" /\ run'[p][c] = "backoff" => ~Durable(c)
                   /\ Kind[c] = "init" /\ c \in term'[p] => Over(p, c)'
<1>1. ASSUME NEW q \in Pod, Gone(q) PROVE Kept
  BY <1>1 DEF Gone, PodFacts, Over, TypeOK
<1>2. ASSUME NEW q \in Pod, Reported(q) PROVE Kept
  <2>1. PhaseOf(q) \in {"Terminal", "gone"} => run[q][c] = "done"
    BY DEF PhaseOf
  <2>2. c \in TermOf(q) => run[q][c] \in {"backoff", "done"}
    BY DEF TermOf
  <2> QED
    BY <1>2, <2>1, <2>2 DEF Reported, PodFacts, Over, TypeOK
<1>3. ASSUME NEW q \in Pod, NEW d \in Ctr, NEW s \in RunStates, Moved(q, d, s) PROVE Kept
  <2>1. CASE p = q /\ c = d
    <3>1. run'[p][c] = s
      BY <1>3, <2>1 DEF Moved, TypeOK
    <3>2. /\ phase[p] \notin {"Terminal", "gone"}
          /\ Kind[c] = "init" /\ c \in term[p] => ~Durable(c)
      BY <1>3, <2>1 DEF Moved, PodFacts, Over
    <3>3. Kind[c] = "init" /\ s = "backoff" => ~Durable(c)
      BY <1>3, <2>1 DEF Moved, Durable
    <3> QED
      BY <1>3, <3>1, <3>2, <3>3 DEF Moved, Over
  <2>2. CASE p # q \/ c # d
    <3>1. run'[p][c] = run[p][c]
      BY <1>3, <2>2 DEF Moved, TypeOK
    <3> QED
      BY <1>3, <3>1 DEF Moved, PodFacts, Over
  <2> QED
    BY <2>1, <2>2
<1>4. ASSUME NEW q \in Pod, Created(q) PROVE Kept
  BY <1>4 DEF Created, PodFacts, Over, TypeOK
<1>5. ASSUME NEW q \in Pod, Ended(q) PROVE Kept
  BY <1>5 DEF Ended, PodFacts, Over, TypeOK
<1>6. ASSUME UNCHANGED podVars PROVE Kept
  BY <1>6 DEF PodFacts, Over
<1> HIDE DEF Kept
<1>7. Kept
  BY <1>1, <1>2, <1>3, <1>4, <1>5, <1>6 DEF PodStep
<1> QED
  BY <1>7 DEF Kept

\* What is on record, in mark files and in the goroutines' locals, about pods
\* that exist; after its List, a pass only holds marks of ended containers.
CreatedOnly ==
  /\ \A m \in marks : phase[m.pod] # "absent"
  /\ req # NoReq => phase[req.pod] # "absent"
  /\ \A t \in Thread : \A m \in todo[t] : phase[m.pod] # "absent"
DoomedEnded ==
  \A t \in Thread : pc[t] \in {"scan", "stop", "destroy", "unlink"} =>
    \A m \in todo[t] : Over(m.pod, m.ctr)
ServedUnanswered == pc[Alloc] # "idle" => grant[req.pod][req.ctr] = Ungranted
MarkedOrEnded ==
  pc[Alloc] = "conf" => MarkOf(cur[Alloc]) \in marks \/ Over(req.pod, req.ctr)
RecordFacts == CreatedOnly /\ DoomedEnded /\ ServedUnanswered /\ MarkedOrEnded

LiveGrantInv == PodFacts /\ RecordFacts /\ DurableMarked

\* The parts of a mark.
LEMMA MarkParts ==
  ASSUME NEW S \in SUBSET Mark, NEW m \in S
  PROVE  m.pod \in Pod /\ m.ctr \in Ctr /\ m.vdev \in Vdev \cup {NoVdev}
OBVIOUS

\* A step that removes only marks of ended or unanswered containers, and gives
\* no answer, leaves every container in use its mark.
LEMMA MarkKept ==
  ASSUME TypeOK, PodStep, DurableMarked, grant' = grant,
         \A m \in marks \ marks' :
           Over(m.pod, m.ctr) \/ grant[m.pod][m.ctr] = Ungranted
  PROVE  DurableMarked'
<1> SUFFICES ASSUME NEW p \in Pod, NEW c \in Ctr, InUse(p, c)', Durable(c),
                    grant[p][c] \in Vdev
             PROVE  [pod |-> p, ctr |-> c, vdev |-> grant[p][c]] \in marks'
  BY DEF DurableMarked
<1> DEFINE m == [pod |-> p, ctr |-> c, vdev |-> grant[p][c]]
<1>1. ~Over(p, c) /\ grant[p][c] # Ungranted
  BY OverStays DEF InUse, Over
<1>2. m \in marks
  BY <1>1 DEF DurableMarked, InUse, Over
<1>3. m.pod = p /\ m.ctr = c
  OBVIOUS
<1> QED
  BY <1>1, <1>2, <1>3

\* Marks and requests name pods and containers of the node.
LEMMA RecordParts ==
  ASSUME TypeOK
  PROVE  /\ \A m \in marks : m.pod \in Pod /\ m.ctr \in Ctr
         /\ \A t \in Thread : \A m \in todo[t] : m.pod \in Pod /\ m.ctr \in Ctr
         /\ req # NoReq => req.pod \in Pod /\ req.ctr \in Ctr
         /\ pc[Alloc] # "idle" => req \in Request /\ req # NoReq
<1>1. req # NoReq => req \in Request
  BY DEF TypeOK
<1> QED
  BY <1>1, MarkParts, ReqAssumption DEF TypeOK

\* A step that touches none of the records.
LEMMA QuietStep ==
  ASSUME TypeOK, PodStep, LiveGrantInv, UNCHANGED <<grant, marks, pc, todo, cur, req>>
  PROVE  RecordFacts' /\ DurableMarked'
<1>1. DurableMarked'
  BY MarkKept DEF LiveGrantInv
<1>2. \A p \in Pod : /\ phase[p] # "absent" => phase'[p] # "absent"
                    /\ \A c \in Ctr : Over(p, c) => Over(p, c)'
  BY OverStays
<1>3. /\ \A m \in marks : m.pod \in Pod /\ m.ctr \in Ctr
      /\ \A t \in Thread : \A m \in todo[t] : m.pod \in Pod /\ m.ctr \in Ctr
      /\ req # NoReq => req.pod \in Pod /\ req.ctr \in Ctr
  BY RecordParts
<1>4. CreatedOnly'
  <2>1. CreatedOnly
    BY DEF RecordFacts, LiveGrantInv
  <2> QED
    BY <1>2, <1>3, <2>1 DEF CreatedOnly
<1>5. DoomedEnded'
  <2>1. DoomedEnded
    BY DEF RecordFacts, LiveGrantInv
  <2> QED
    BY <1>2, <1>3, <2>1 DEF DoomedEnded
<1>6. ServedUnanswered'
  BY DEF RecordFacts, LiveGrantInv, ServedUnanswered
<1>7. MarkedOrEnded'
  BY <1>2, <1>3 DEF RecordFacts, LiveGrantInv, MarkedOrEnded, TypeOK, MarkOf
<1> QED
  BY <1>1, <1>4, <1>5, <1>6, <1>7 DEF RecordFacts

\* A step of one goroutine that gives no answer: it removes only marks of ended
\* containers (or, in Allocate, of the unanswered one), adds only marks of the
\* container being served, and holds doomed marks only of ended containers.
LEMMA GoroutineStep ==
  ASSUME TypeOK, PodStep, LiveGrantInv, NEW t \in Thread,
         UNCHANGED <<grant, req>>,
         \A u \in Thread \ {t} : pc'[u] = pc[u] /\ cur'[u] = cur[u] /\ todo'[u] = todo[u],
         todo'[t] \subseteq todo[t] \cup marks,
         pc'[t] \in {"scan", "stop", "destroy", "unlink"} =>
           \A m \in todo'[t] : Over(m.pod, m.ctr),
         \A m \in marks \ marks' :
           \/ Over(m.pod, m.ctr)
           \/ t = Alloc /\ grant[m.pod][m.ctr] = Ungranted,
         \A m \in marks' \ marks : req # NoReq /\ m.pod = req.pod,
         t = Alloc => /\ pc[t] # "idle"
                      /\ pc'[t] = "conf" => MarkOf(cur'[t]) \in marks'
  PROVE  RecordFacts' /\ DurableMarked'
<1>1. DurableMarked'
  BY MarkKept DEF LiveGrantInv
<1>2. \A p \in Pod : /\ phase[p] # "absent" => phase'[p] # "absent"
                    /\ \A c \in Ctr : Over(p, c) => Over(p, c)'
  BY OverStays
<1>3. /\ \A m \in marks : m.pod \in Pod /\ m.ctr \in Ctr
      /\ \A u \in Thread : \A m \in todo[u] : m.pod \in Pod /\ m.ctr \in Ctr
      /\ req # NoReq => req.pod \in Pod /\ req.ctr \in Ctr
      /\ pc[Alloc] # "idle" => req # NoReq
  BY RecordParts
<1>4. CreatedOnly'
  <2>1. CreatedOnly
    BY DEF RecordFacts, LiveGrantInv
  <2>2. \A m \in marks' : phase'[m.pod] # "absent"
    BY <1>2, <1>3, <2>1 DEF CreatedOnly
  <2>3. ASSUME NEW u \in Thread, NEW m \in todo'[u] PROVE phase'[m.pod] # "absent"
    <3>1. m \in marks \/ m \in todo[u]
      BY <2>3
    <3> QED
      BY <1>2, <1>3, <2>1, <3>1 DEF CreatedOnly
  <2> QED
    BY <1>2, <1>3, <2>1, <2>2, <2>3 DEF CreatedOnly
<1>5. DoomedEnded'
  <2> SUFFICES ASSUME NEW u \in Thread, pc'[u] \in {"scan", "stop", "destroy", "unlink"},
                      NEW m \in todo'[u]
               PROVE  Over(m.pod, m.ctr)'
    BY DEF DoomedEnded
  <2>1. m \in marks \/ m \in todo[u]
    OBVIOUS
  <2>2. Over(m.pod, m.ctr)
    <3>1. CASE u = t
      BY <3>1
    <3>2. CASE u # t
      BY <3>2 DEF RecordFacts, LiveGrantInv, DoomedEnded
    <3> QED
      BY <3>1, <3>2
  <2> QED
    BY <1>2, <1>3, <2>1, <2>2
<1>6. ServedUnanswered'
  <2>1. pc'[Alloc] # "idle" => pc[Alloc] # "idle"
    OBVIOUS
  <2> QED
    BY <2>1 DEF RecordFacts, LiveGrantInv, ServedUnanswered
<1>7. MarkedOrEnded'
  <2>1. MarkedOrEnded
    BY DEF RecordFacts, LiveGrantInv
  <2>2. CASE t = Alloc
    BY <2>2 DEF MarkedOrEnded, MarkOf
  <2>3. CASE t # Alloc
    <3> SUFFICES ASSUME pc'[Alloc] = "conf", MarkOf(cur[Alloc]) \notin marks'
                 PROVE  Over(req.pod, req.ctr)'
      BY <2>3 DEF MarkedOrEnded, MarkOf
    <3>1. pc[Alloc] = "conf" /\ req # NoReq
      BY <1>3, <2>3
    <3>2. MarkOf(cur[Alloc]).pod = req.pod /\ MarkOf(cur[Alloc]).ctr = req.ctr
      BY DEF MarkOf
    <3>3. Over(req.pod, req.ctr)
      BY <2>1, <2>3, <3>1, <3>2 DEF MarkedOrEnded
    <3> QED
      BY <1>2, <1>3, <3>1, <3>3
  <2> QED
    BY <2>2, <2>3
<1> QED
  BY <1>1, <1>4, <1>5, <1>6, <1>7 DEF RecordFacts

\* Refresh passes: what the List answer dooms has ended, and stays so.
LEMMA RefreshGrant ==
  ASSUME TypeOK, PodStep, LiveGrantInv, NEW t \in Thread, RefreshStep(t)
  PROVE  RecordFacts' /\ DurableMarked'
<1> USE ThreadAssumption
<1>0. /\ pc \in [Thread -> {"idle"} \cup RefreshPcs \cup AllocPcs]
      /\ cur \in [Thread -> Vdev \cup {NoVdev}]
      /\ todo \in [Thread -> SUBSET Mark]
      /\ DoomedEnded
  BY DEF TypeOK, LiveGrantInv, RecordFacts
<1>1. CASE ReadMarks(t)
  BY <1>0, <1>1, GoroutineStep DEF ReadMarks, Idle
<1>2. CASE RefreshFails(t)
  BY <1>0, <1>2, GoroutineStep DEF RefreshFails, Resume
<1>3. CASE ListPods(t)
  <2> DEFINE kept == {m \in todo[t] : MarkFileStillNeeded(m.pod, m.ctr)}
  <2>1. /\ pc[t] = "list" /\ pc' = [pc EXCEPT ![t] = "scan"]
        /\ todo' = [todo EXCEPT ![t] = @ \ kept]
        /\ UNCHANGED <<podVars, grant, marks, cur, req>>
    BY <1>3 DEF ListPods
  <2>2. ASSUME NEW m \in todo[t] \ kept PROVE Over(m.pod, m.ctr)
    <3>1. m.pod \in Pod /\ m.ctr \in Ctr /\ phase[m.pod] # "absent"
      BY RecordParts DEF LiveGrantInv, RecordFacts, CreatedOnly
    <3>2. ~MarkFileStillNeeded(m.pod, m.ctr)
      OBVIOUS
    <3>3. \/ phase[m.pod] \in {"Terminal", "gone"}
          \/ Kind[m.ctr] = "init" /\ m.ctr \in term[m.pod]
      BY <3>1, <3>2 DEF MarkFileStillNeeded, Listed, TypeOK
    <3> QED
      BY <3>1, <3>3 DEF LiveGrantInv, PodFacts, Over
  <2> QED
    BY <1>0, <2>1, <2>2, GoroutineStep
<1>4. ASSUME NEW m \in todo[t], RemoveMark(t, m) PROVE RecordFacts' /\ DurableMarked'
  <2>1. /\ pc[t] = "scan" /\ marks' \subseteq marks /\ \A n \in marks : n = m \/ n \in marks'
        /\ todo' = [todo EXCEPT ![t] = @ \ {m}]
        /\ UNCHANGED <<grant, req>>
        /\ \A u \in Thread \ {t} : pc'[u] = pc[u] /\ cur'[u] = cur[u]
        /\ pc'[t] \in {"scan", "stop"}
    BY <1>0, <1>4, UnlinkParts DEF RemoveMark
  <2>2. \A n \in todo[t] : Over(n.pod, n.ctr)
    BY <1>0, <2>1 DEF DoomedEnded
  <2> QED
    BY <1>0, <2>1, <2>2, GoroutineStep
<1>5. CASE StopVDevice(t)
  BY <1>0, <1>5, GoroutineStep DEF StopVDevice, DoomedEnded
<1>6. CASE DestroyVDevice(t)
  BY <1>0, <1>6, GoroutineStep DEF DestroyVDevice, DoomedEnded
<1>7. CASE RemoveConf(t)
  BY <1>0, <1>7, GoroutineStep DEF RemoveConf, DoomedEnded
<1>8. ASSUME NEW p \in victims[t], DeletePod(t, p) PROVE RecordFacts' /\ DurableMarked'
  BY <1>8, QuietStep DEF DeletePod
<1>9. CASE EndRefresh(t)
  BY <1>0, <1>9, GoroutineStep DEF EndRefresh, Resume
<1> QED
  BY <1>1, <1>2, <1>3, <1>4, <1>5, <1>6, <1>7, <1>8, <1>9 DEF RefreshStep

\* A new answer: the mark it needs was written before, or its pod has ended.
LEMMA AnswerStep ==
  ASSUME TypeOK, PodStep, LiveGrantInv, NEW v \in Vdev \cup {NoVdev},
         pc[Alloc] # "idle", Answer(v),
         v \in Vdev => MarkOf(v) \in marks \/ Over(req.pod, req.ctr),
         marks \subseteq marks', \A m \in marks' \ marks : m.pod = req.pod,
         \A u \in Thread \ {Alloc} : todo'[u] = todo[u],
         todo'[Alloc] = todo[Alloc]
  PROVE  RecordFacts' /\ DurableMarked'
<1> USE ThreadAssumption
<1>1. /\ grant' = [grant EXCEPT ![req.pod][req.ctr] = v]
      /\ pc' = [pc EXCEPT ![Alloc] = "idle"] /\ req' = NoReq
      /\ req.pod \in Pod /\ req.ctr \in Ctr /\ req # NoReq
      /\ Alloc \in Thread /\ pc'[Alloc] = "idle"
  BY RecordParts DEF Answer, TypeOK
<1>2. \A p \in Pod : /\ phase[p] # "absent" => phase'[p] # "absent"
                    /\ \A c \in Ctr : Over(p, c) => Over(p, c)'
  BY OverStays
<1>3. DurableMarked'
  <2> SUFFICES ASSUME NEW p \in Pod, NEW c \in Ctr, InUse(p, c)', Durable(c),
                      grant'[p][c] \in Vdev
               PROVE  [pod |-> p, ctr |-> c, vdev |-> grant'[p][c]] \in marks
    BY DEF DurableMarked
  <2>1. ~Over(p, c)
    BY <1>2 DEF InUse, Over
  <2>2. CASE p = req.pod /\ c = req.ctr
    BY <1>1, <2>1, <2>2 DEF MarkOf, TypeOK
  <2>3. CASE p # req.pod \/ c # req.ctr
    <3>1. grant'[p][c] = grant[p][c] /\ grant'[p][c] # Ungranted
      BY <1>1, <2>3, VdevAssumption DEF TypeOK
    <3> QED
      BY <2>1, <3>1 DEF LiveGrantInv, DurableMarked, InUse, Over
  <2> QED
    BY <2>2, <2>3
<1>4. CreatedOnly'
  BY <1>1, <1>2, RecordParts DEF CreatedOnly, LiveGrantInv, RecordFacts
<1>5. DoomedEnded'
  <2> SUFFICES ASSUME NEW u \in Thread, pc'[u] \in {"scan", "stop", "destroy", "unlink"},
                      NEW m \in todo[u]
               PROVE  Over(m.pod, m.ctr)'
    BY DEF DoomedEnded
  <2>1. u # Alloc /\ pc'[u] = pc[u]
    BY <1>1 DEF TypeOK
  <2>2. Over(m.pod, m.ctr)
    BY <2>1 DEF LiveGrantInv, RecordFacts, DoomedEnded
  <2> QED
    BY <1>2, <2>2, RecordParts
<1>6. ServedUnanswered' /\ MarkedOrEnded'
  BY <1>1 DEF ServedUnanswered, MarkedOrEnded
<1> QED
  BY <1>3, <1>4, <1>5, <1>6 DEF RecordFacts

\* AllocateHAMiHCUs.
LEMMA AllocGrant ==
  ASSUME TypeOK, PodStep, LiveGrantInv, AllocStep
  PROVE  RecordFacts' /\ DurableMarked'
<1> USE ThreadAssumption
<1>0. /\ pc \in [Thread -> {"idle"} \cup RefreshPcs \cup AllocPcs]
      /\ cur \in [Thread -> Vdev \cup {NoVdev}]
      /\ todo \in [Thread -> SUBSET Mark]
      /\ Alloc \in Thread
      /\ pc[Alloc] # "idle" => grant[req.pod][req.ctr] = Ungranted
      /\ \A v : MarkOf(v).pod = req.pod /\ MarkOf(v).ctr = req.ctr
  BY DEF TypeOK, LiveGrantInv, RecordFacts, ServedUnanswered, MarkOf
<1>1. CASE Refuse
  BY <1>0, <1>1, GoroutineStep, RecordParts DEF Refuse
<1>2. CASE GrantWhole
  BY <1>0, <1>2, AnswerStep, VdevAssumption DEF GrantWhole
<1>3. CASE GrantBare
  BY <1>0, <1>3, AnswerStep, VdevAssumption DEF GrantBare
<1>4. ASSUME NEW v \in Vdev, CreateVDevice(v) PROVE RecordFacts' /\ DurableMarked'
  BY <1>0, <1>4, GoroutineStep DEF CreateVDevice
<1>5. CASE WriteMark
  <2>1. /\ pc[Alloc] = "mark" /\ UNCHANGED <<grant, req, cur, todo>>
        /\ marks \subseteq marks' /\ \A m \in marks' \ marks : m.pod = req.pod
        /\ \A u \in Thread \ {Alloc} : pc'[u] = pc[u]
        /\ \/ pc'[Alloc] = "conf" /\ MarkOf(cur[Alloc]) \in marks'
           \/ pc'[Alloc] = "rbstop"
    BY <1>0, <1>5 DEF WriteMark, MarkFails
  <2>2. req # NoReq /\ MarkOf(cur'[Alloc]) = MarkOf(cur[Alloc])
    BY <2>1, RecordParts DEF MarkOf
  <2> QED
    BY <1>0, <2>1, <2>2, GoroutineStep
<1>6. CASE MountConf
  <2>1. pc[Alloc] = "conf" /\ UNCHANGED <<podVars, marks, passVars>>
    BY <1>6 DEF MountConf
  <2>2. CASE cur[Alloc] \in conf
    <3>1. Answer(cur[Alloc]) /\ cur[Alloc] \in Vdev
      BY <1>6, <2>1, <2>2 DEF MountConf, TypeOK
    <3>2. MarkOf(cur[Alloc]) \in marks \/ Over(req.pod, req.ctr)
      BY <2>1 DEF LiveGrantInv, RecordFacts, MarkedOrEnded
    <3> QED
      BY <2>1, <3>1, <3>2, AnswerStep
  <2>3. CASE cur[Alloc] \notin conf
    BY <1>0, <1>6, <2>3, GoroutineStep DEF MountConf
  <2> QED
    BY <2>2, <2>3
<1>7. CASE RollbackMark
  BY <1>0, <1>7, GoroutineStep, UnlinkParts DEF RollbackMark
<1>8. CASE RollbackStop
  BY <1>0, <1>8, GoroutineStep DEF RollbackStop
<1>9. CASE RollbackDestroy
  BY <1>0, <1>9, GoroutineStep DEF RollbackDestroy
<1> QED
  BY <1>1, <1>2, <1>3, <1>4, <1>5, <1>6, <1>7, <1>8, <1>9 DEF AllocStep

\* Kubelet, users and a crash.
LEMMA EnvGrant ==
  ASSUME TypeOK, PodStep, LiveGrantInv, EnvStep
  PROVE  RecordFacts' /\ DurableMarked'
<1> USE ThreadAssumption
<1>0. /\ pc \in [Thread -> {"idle"} \cup RefreshPcs \cup AllocPcs] /\ Alloc \in Thread
      /\ CreatedOnly /\ DoomedEnded
  BY DEF TypeOK, LiveGrantInv, RecordFacts
<1>1. \A p \in Pod : /\ phase[p] # "absent" => phase'[p] # "absent"
                    /\ \A c \in Ctr : Over(p, c) => Over(p, c)'
  BY OverStays
<1>2. ASSUME UNCHANGED <<grant, marks>>,
             req' # NoReq => phase[req'.pod] # "absent" /\ req'.pod \in Pod,
             \A t \in Thread :
               \/ pc'[t] = "idle" /\ todo'[t] = {}
               \/ pc'[t] = pc[t] /\ todo'[t] = todo[t] /\ t # Alloc
               \/ t = Alloc /\ pc'[t] \in {"idle", "refresh"} /\ todo'[t] = todo[t],
             pc'[Alloc] = "refresh" => grant[req'.pod][req'.ctr] = Ungranted
      PROVE  RecordFacts' /\ DurableMarked'
  <2>1. DurableMarked'
    BY <1>2, MarkKept DEF LiveGrantInv
  <2>2. CreatedOnly'
    <3>1. \A t \in Thread : todo'[t] \subseteq todo[t]
      BY <1>2
    <3> QED
      BY <1>0, <1>1, <1>2, <3>1, RecordParts DEF CreatedOnly
  <2>3. DoomedEnded'
    <3> SUFFICES ASSUME NEW t \in Thread, pc'[t] \in {"scan", "stop", "destroy", "unlink"},
                        NEW m \in todo'[t]
                 PROVE  Over(m.pod, m.ctr)'
      BY DEF DoomedEnded
    <3>1. pc'[t] = pc[t] /\ m \in todo[t]
      BY <1>2
    <3> QED
      BY <1>0, <1>1, <3>1, RecordParts DEF DoomedEnded
  <2>4. ServedUnanswered' /\ MarkedOrEnded'
    <3>1. pc'[Alloc] \in {"idle", "refresh"}
      BY <1>0, <1>2
    <3> QED
      BY <1>2, <3>1 DEF ServedUnanswered, MarkedOrEnded
  <2> QED
    BY <2>1, <2>2, <2>3, <2>4 DEF RecordFacts
<1>3. CASE RejectPod
  <2>1. /\ pc' = [pc EXCEPT ![Alloc] = "idle"] /\ req' = NoReq
        /\ UNCHANGED <<grant, marks, todo>>
    BY <1>3 DEF RejectPod
  <2>2. pc'[Alloc] = "idle" /\ \A t \in Thread \ {Alloc} : pc'[t] = pc[t]
    BY <1>0, <2>1
  <2>3. \A t \in Thread :
          \/ pc'[t] = "idle" /\ todo'[t] = {}
          \/ pc'[t] = pc[t] /\ todo'[t] = todo[t] /\ t # Alloc
          \/ t = Alloc /\ pc'[t] \in {"idle", "refresh"} /\ todo'[t] = todo[t]
    BY <2>1, <2>2
  <2>4. ~(pc'[Alloc] = "refresh") /\ ~(req' # NoReq)
    BY <2>1, <2>2
  <2> QED
    BY <1>2, <2>1, <2>3, <2>4
<1>4. ASSUME NEW p \in Pod, NEW c \in Ctr, KubeletAllocate(p, c)
      PROVE  RecordFacts' /\ DurableMarked'
  <2>1. phase[p] # "absent" /\ req' = [pod |-> p, ctr |-> c] /\ grant[p][c] = Ungranted
    BY <1>4 DEF KubeletAllocate
  <2>2. phase[req'.pod] # "absent" /\ req'.pod \in Pod /\ grant[req'.pod][req'.ctr] = Ungranted
    BY <2>1
  <2>3. pc' = [pc EXCEPT ![Alloc] = "refresh"] /\ UNCHANGED <<grant, marks, todo>>
    BY <1>4 DEF KubeletAllocate
  <2> QED
    BY <1>0, <1>2, <2>2, <2>3
<1>5. CASE PluginCrash
  <2>1. /\ req' = NoReq /\ UNCHANGED <<grant, marks>>
        /\ \A t \in Thread : pc'[t] = "idle" /\ todo'[t] = {}
    BY <1>5 DEF PluginCrash
  <2>2. ~(pc'[Alloc] = "refresh") /\ ~(req' # NoReq)
    BY <1>0, <2>1
  <2> QED
    BY <1>2, <2>1, <2>2
<1>6. CASE UNCHANGED <<grant, marks, pc, todo, cur, req>>
  BY <1>6, QuietStep
<1> QED
  BY <1>3, <1>4, <1>5, <1>6
  DEF EnvStep, PodCreate, KillPod, ReportStatus, DeleteByUser, StartContainer,
      ExitContainer, CrashContainer, RestartContainer, SetRun

\* Whatever kubelet restarts.
LEMMA LiveGrantAlways == Spec => []LiveGrantInv
<1>1. Init => LiveGrantInv
  BY ThreadAssumption
  DEF Init, LiveGrantInv, PodFacts, RecordFacts, CreatedOnly, DoomedEnded,
      ServedUnanswered, MarkedOrEnded, DurableMarked, InUse
<1>2. TypeOK /\ LiveGrantInv /\ [Next]_vars => LiveGrantInv'
  <2> SUFFICES ASSUME TypeOK, LiveGrantInv, [Next]_vars PROVE LiveGrantInv'
    OBVIOUS
  <2>1. PodStep
    BY EveryPodStep DEF PodStep
  <2>2. PodFacts'
    BY <2>1, PodFactsStep DEF LiveGrantInv
  <2>3. RecordFacts' /\ DurableMarked'
    BY <2>1, RefreshGrant, AllocGrant, EnvGrant, QuietStep DEF Next
  <2> QED
    BY <2>2, <2>3 DEF LiveGrantInv
<1> QED
  BY <1>1, <1>2, TypeCorrect, PTL DEF Spec

\* When kubelet does not restart classic init containers: however old the pod
\* list a pass decided on, and however many passes run with it, the mark of a
\* container in use is never removed.
THEOREM LiveGrantKeepsMark ==
  ASSUME "init" \notin RestartKinds
  PROVE  Spec => []LiveGrantMarked
<1>1. LiveGrantInv => LiveGrantMarked
  BY DEF LiveGrantInv, DurableMarked, Durable, LiveGrantMarked
<1> QED
  BY <1>1, LiveGrantAlways, PTL

-----------------------------------------------------------------------------
(* A container keeps its vHCU and its conf file, whatever passes overlap,   *)
(* unless the driver handed out an index that was still on record.          *)

\* The marks on disk and those a pass has read and not yet reclaimed.
Records == marks \cup UNION {todo[t] : t \in Thread}
Tearing(t, v) == pc[t] \in {"stop", "destroy", "unlink"} /\ cur[t] = v
AllocHolds == {"mark", "conf", "unmark", "rbstop", "rbdestroy"}
\* The vHCUs whose index was never handed out too early.
Settled(v) == v \in Vdev \ reissued

\* One record names such a vHCU.
OneRecord == \A m, n \in Records : m.vdev = n.vdev /\ Settled(m.vdev) => m = n

\* The vHCU Allocate holds: nobody knows a new one; later only its own mark
\* names it.
NewUnknown == pc[Alloc] = "mark" /\ Settled(cur[Alloc]) =>
  /\ vh[cur[Alloc]] = "up"
  /\ \A m \in Records : m.vdev # cur[Alloc]
  /\ \A t \in Thread : ~Tearing(t, cur[Alloc])
OwnRecord == pc[Alloc] \in {"conf", "unmark", "rbstop", "rbdestroy"} /\ Settled(cur[Alloc]) =>
  \A m \in Records : m.vdev = cur[Alloc] => m = MarkOf(cur[Alloc])
MountSound == pc[Alloc] = "conf" /\ Settled(cur[Alloc]) =>
  \/ Over(req.pod, req.ctr)
  \/ vh[cur[Alloc]] = "up" /\ \A t \in Thread : ~Tearing(t, cur[Alloc])

\* That of a container in use works, with its conf file, and nobody is about to
\* change that.
UseSound ==
  \A p \in Pod, c \in Ctr : InUse(p, c) /\ Durable(c) /\ Settled(grant[p][c]) =>
    /\ vh[grant[p][c]] = "up" /\ grant[p][c] \in conf
    /\ \A t \in Thread : ~Tearing(t, grant[p][c])

SettledInv == OneRecord /\ NewUnknown /\ OwnRecord /\ MountSound /\ UseSound

\* All that is known before a step.
SettledBefore == TypeOK /\ LiveGrantInv /\ SettledInv /\ PodStep

\* The mark of a container in use, and what follows when it is another's record.
LEMMA UseRecorded ==
  ASSUME LiveGrantInv, NEW p \in Pod, NEW c \in Ctr, InUse(p, c), Durable(c), grant[p][c] \in Vdev
  PROVE  /\ [pod |-> p, ctr |-> c, vdev |-> grant[p][c]] \in marks
         /\ [pod |-> p, ctr |-> c, vdev |-> grant[p][c]] \in Records
         /\ ~Over(p, c)
BY DEF LiveGrantInv, DurableMarked, Records, InUse, Over

\* Steps that bring no goroutine nearer to the driver, record no other vHCU and
\* give none away; they may touch w, which no container in use depends on.
LEMMA HarmlessStep ==
  ASSUME SettledBefore, NEW w \in Vdev \cup {NoVdev}, reissued' = reissued,
         \A v \in Vdev \ {w} : vh'[v] = vh[v] /\ (v \in conf => v \in conf'),
         Settled(w) =>
           /\ pc[Alloc] = "mark" => cur[Alloc] # w
           /\ pc[Alloc] = "conf" /\ cur[Alloc] = w => Over(req.pod, req.ctr)
           /\ \A p \in Pod, c \in Ctr : InUse(p, c) /\ Durable(c) => grant[p][c] # w,
         \A m \in Records' : m \in Records \/ m.vdev \notin Vdev,
         \A t \in Thread, v \in Vdev : Tearing(t, v)' => Tearing(t, v),
         pc'[Alloc] \in AllocHolds =>
           /\ cur'[Alloc] = cur[Alloc] /\ req' = req
           /\ \/ pc'[Alloc] = pc[Alloc]
              \/ pc[Alloc] = "conf" /\ pc'[Alloc] = "unmark"
              \/ pc[Alloc] = "mark" /\ pc'[Alloc] = "rbstop"
              \/ pc[Alloc] = "unmark" /\ pc'[Alloc] = "rbstop"
              \/ pc[Alloc] = "rbstop" /\ pc'[Alloc] = "rbdestroy",
         \A p \in Pod, c \in Ctr : InUse(p, c)' /\ grant'[p][c] \in Vdev =>
           InUse(p, c) /\ grant'[p][c] = grant[p][c]
  PROVE  SettledInv'
<1>0. /\ SettledInv /\ Alloc \in Thread
      /\ pc[Alloc] \in AllocHolds => cur[Alloc] \in Vdev /\ req.pod \in Pod /\ req.ctr \in Ctr
      /\ \A v : Settled(v)' <=> Settled(v)
      /\ \A v : Settled(v) => v \in Vdev
  BY RecordParts DEF SettledBefore, TypeOK, AllocHolds, Settled
<1>1. OneRecord'
  BY <1>0 DEF SettledInv, OneRecord
<1>4. NewUnknown'
  <2> SUFFICES ASSUME pc'[Alloc] = "mark", NEW u \in Vdev, u = cur'[Alloc], Settled(u)
               PROVE  /\ vh'[u] = "up"
                      /\ \A m \in Records' : m.vdev # u
                      /\ \A t \in Thread : ~Tearing(t, u)'
    BY <1>0 DEF NewUnknown, Tearing, Settled
  <2>1. pc[Alloc] = "mark" /\ cur[Alloc] = u /\ u # w
    BY DEF AllocHolds
  <2> QED BY <1>0, <2>1 DEF SettledInv, NewUnknown
<1>5. OwnRecord'
  <2> SUFFICES ASSUME pc'[Alloc] \in {"conf", "unmark", "rbstop", "rbdestroy"},
                      Settled(cur[Alloc]), cur'[Alloc] = cur[Alloc], req' = req
               PROVE  \A m \in Records' : m.vdev = cur[Alloc] => m = MarkOf(cur[Alloc])
    BY <1>0 DEF OwnRecord, AllocHolds, MarkOf
  <2>1. cur[Alloc] \in Vdev
    BY <1>0
  <2>2. \A m \in Records : m.vdev = cur[Alloc] => m = MarkOf(cur[Alloc])
    BY <1>0 DEF SettledInv, NewUnknown, OwnRecord, AllocHolds
  <2> QED BY <2>1, <2>2
<1>6. MountSound'
  <2> SUFFICES ASSUME pc'[Alloc] = "conf", NEW u \in Vdev, u = cur'[Alloc], Settled(u),
                      NEW p \in Pod, NEW c \in Ctr, p = req.pod, c = req.ctr, ~Over(p, c)'
               PROVE  vh'[u] = "up" /\ \A t \in Thread : ~Tearing(t, u)'
    BY <1>0 DEF MountSound, AllocHolds, Tearing, Over, Settled
  <2>1. pc[Alloc] = "conf" /\ cur[Alloc] = u
    BY <1>0 DEF AllocHolds
  <2>2. ~Over(p, c) /\ u # w
    BY <2>1, OverStays DEF SettledBefore
  <2>3. vh[u] = "up" /\ \A t \in Thread : ~Tearing(t, u)
    BY <1>0, <2>1, <2>2 DEF SettledInv, MountSound
  <2> QED BY <2>2, <2>3
<1>7. UseSound'
  <2> SUFFICES ASSUME NEW p \in Pod, NEW c \in Ctr, InUse(p, c)', Durable(c),
                      NEW u \in Vdev, u = grant'[p][c], Settled(u)
               PROVE  /\ vh'[u] = "up" /\ u \in conf'
                      /\ \A t \in Thread : ~Tearing(t, u)'
    BY <1>0 DEF UseSound, Tearing, Settled
  <2>1. InUse(p, c) /\ grant[p][c] = u /\ u # w
    OBVIOUS
  <2> QED BY <1>0, <2>1 DEF SettledInv, UseSound
<1> QED
  BY <1>1, <1>4, <1>5, <1>6, <1>7 DEF SettledInv

\* The shape of a step of one goroutine.
LEMMA SettledParts ==
  ASSUME SettledBefore
  PROVE  /\ SettledInv /\ LiveGrantInv /\ PodStep
         /\ pc \in [Thread -> {"idle"} \cup RefreshPcs \cup AllocPcs]
         /\ cur \in [Thread -> Vdev \cup {NoVdev}] /\ todo \in [Thread -> SUBSET Mark]
         /\ marks \subseteq Mark /\ vh \in [Vdev -> {"free", "up", "stopped"}]
         /\ conf \subseteq Vdev /\ reissued \subseteq Vdev
         /\ grant \in [Pod -> [Ctr -> Vdev \cup {NoVdev, Ungranted}]]
         /\ \A t \in Thread : pc[t] \in HoldPcs => cur[t] \in Vdev
         /\ Alloc \in Thread /\ NoVdev \notin Vdev /\ Ungranted \notin Vdev
BY ThreadAssumption, VdevAssumption DEF SettledBefore, TypeOK

\* A step that neither takes a container's vHCU in hand nor leaves one.
LEMMA IdleStep ==
  ASSUME SettledBefore, UNCHANGED <<vh, reissued, conf>>,
         \A m \in Records' : m \in Records \/ m.vdev \notin Vdev,
         \A t \in Thread : pc'[t] \in {"stop", "destroy", "unlink"} \cup AllocHolds =>
           pc'[t] = pc[t] /\ cur'[t] = cur[t],
         pc'[Alloc] \in AllocHolds => req' = req,
         \A p \in Pod, c \in Ctr : InUse(p, c)' /\ grant'[p][c] \in Vdev =>
           InUse(p, c) /\ grant'[p][c] = grant[p][c]
  PROVE  SettledInv'
<1>1. ~Settled(NoVdev) /\ Alloc \in Thread
  BY SettledParts DEF Settled
<1>2. \A t \in Thread, v \in Vdev : Tearing(t, v)' => Tearing(t, v)
  BY DEF Tearing
<1> QED BY <1>1, <1>2, HarmlessStep

\* What a pass has taken from the mark files is not needed by a container in use.
LEMMA RemoveMarkSettled ==
  ASSUME SettledBefore, NEW t \in Thread, NEW m \in todo[t], RemoveMark(t, m)
  PROVE  SettledInv'
<1>0. /\ pc[t] = "scan" /\ m \in Records /\ m \in Mark /\ Over(m.pod, m.ctr)
      /\ UNCHANGED <<podVars, grant, vh, conf, reissued, req>> /\ marks' \subseteq marks
      /\ todo' = [todo EXCEPT ![t] = @ \ {m}]
  BY SettledParts, UnlinkParts
  DEF RemoveMark, Records, LiveGrantInv, RecordFacts, DoomedEnded, SettledBefore
<1>1. Records' \subseteq Records
  <2>1. \A u \in Thread : todo'[u] \subseteq todo[u]
    BY <1>0, SettledParts
  <2> QED BY <1>0, <2>1 DEF Records
<1>2. \A p \in Pod, c \in Ctr : InUse(p, c)' <=> InUse(p, c)
  BY <1>0 DEF InUse
<1>3. CASE m.vdev = NoVdev
  BY <1>0, <1>1, <1>2, <1>3, IdleStep DEF RemoveMark
<1>4. ASSUME NEW v \in Vdev, m.vdev = v PROVE SettledInv'
  <2>1. /\ pc'[t] = "stop" /\ cur'[t] = v
        /\ \A u \in Thread \ {t} : pc'[u] = pc[u] /\ cur'[u] = cur[u]
    BY <1>4, SettledParts DEF RemoveMark
  <2>2. \A u \in Thread, x \in Vdev : Tearing(u, x)' => Tearing(u, x) \/ x = v
    BY <2>1 DEF Tearing
  <2>3. pc'[Alloc] \in AllocHolds =>
          pc'[Alloc] = pc[Alloc] /\ cur'[Alloc] = cur[Alloc] /\ cur[Alloc] \in Vdev
    BY <2>1, SettledParts DEF AllocHolds
  <2>4. OneRecord'
    BY <1>0, <1>1, SettledParts DEF SettledInv, OneRecord, Settled
  <2>6. NewUnknown'
    <3> SUFFICES ASSUME pc'[Alloc] = "mark", NEW u \in Vdev, u = cur'[Alloc], Settled(u)
                 PROVE  /\ vh'[u] = "up" /\ \A n \in Records' : n.vdev # u
                        /\ \A s \in Thread : ~Tearing(s, u)'
      BY <1>0, <2>3 DEF NewUnknown, Tearing, Settled, AllocHolds
    <3>1. /\ vh[u] = "up" /\ \A n \in Records : n.vdev # u
          /\ \A s \in Thread : ~Tearing(s, u)
      BY <2>3, SettledParts DEF SettledInv, NewUnknown, AllocHolds
    <3> QED BY <1>0, <1>1, <1>4, <2>2, <3>1
  <2>7. OwnRecord'
    BY <1>0, <1>1, <2>3, SettledParts
    DEF SettledInv, OwnRecord, Settled, AllocHolds, MarkOf
  <2>8. MountSound'
    <3> SUFFICES ASSUME pc'[Alloc] = "conf", NEW u \in Vdev, u = cur'[Alloc], Settled(u),
                        ~Over(req.pod, req.ctr)
                 PROVE  vh'[u] = "up" /\ \A s \in Thread : ~Tearing(s, u)'
      BY <1>0, <2>3 DEF MountSound, Tearing, Settled, AllocHolds, Over
    <3>1. pc[Alloc] = "conf" /\ cur[Alloc] = u
      BY <2>3 DEF AllocHolds
    <3>2. u # v
      BY <1>0, <1>4, <3>1, SettledParts DEF SettledInv, OwnRecord, MarkOf
    <3>3. vh[u] = "up" /\ \A s \in Thread : ~Tearing(s, u)
      BY <3>1, SettledParts DEF SettledInv, MountSound
    <3> QED BY <1>0, <2>2, <3>2, <3>3
  <2>9. UseSound'
    <3> SUFFICES ASSUME NEW p \in Pod, NEW c \in Ctr, InUse(p, c), Durable(c),
                        NEW u \in Vdev, u = grant[p][c], Settled(u)
                 PROVE  /\ vh'[u] = "up" /\ u \in conf' /\ \A s \in Thread : ~Tearing(s, u)'
      BY <1>0, <1>2 DEF UseSound, Tearing, Settled
    <3> DEFINE n == [pod |-> p, ctr |-> c, vdev |-> grant[p][c]]
    <3>1. u # v
      <4>1. n \in Records /\ ~Over(p, c)
        BY UseRecorded, SettledParts
      <4>2. u = v => n = m
        BY <1>0, <1>4, <4>1, SettledParts DEF SettledInv, OneRecord
      <4> QED BY <1>0, <4>1, <4>2
    <3>2. vh[u] = "up" /\ u \in conf /\ \A s \in Thread : ~Tearing(s, u)
      BY SettledParts DEF SettledInv, UseSound
    <3> QED BY <1>0, <2>2, <3>1, <3>2
  <2> QED
    BY <2>4, <2>6, <2>7, <2>8, <2>9 DEF SettledInv
<1> QED BY <1>0, <1>3, <1>4

\* Nobody depends on the vHCU that is torn down.
LEMMA TornUnused ==
  ASSUME SettledBefore, NEW t \in Thread, NEW w \in Vdev, Tearing(t, w), Settled(w)
  PROVE  /\ pc[Alloc] = "mark" => cur[Alloc] # w
         /\ pc[Alloc] = "conf" /\ cur[Alloc] = w => Over(req.pod, req.ctr)
         /\ \A p \in Pod, c \in Ctr : InUse(p, c) /\ Durable(c) => grant[p][c] # w
<1>2. pc[Alloc] = "mark" => cur[Alloc] # w
  BY SettledParts DEF SettledInv, NewUnknown
<1>3. pc[Alloc] = "conf" /\ cur[Alloc] = w => Over(req.pod, req.ctr)
  BY SettledParts DEF SettledInv, MountSound
<1>4. \A p \in Pod, c \in Ctr : InUse(p, c) /\ Durable(c) => grant[p][c] # w
  BY SettledParts DEF SettledInv, UseSound
<1> QED BY <1>2, <1>3, <1>4

\* The driver calls of a pass, and the removal of the conf file.
LEMMA TearingSettled ==
  ASSUME SettledBefore, NEW t \in Thread,
         StopVDevice(t) \/ DestroyVDevice(t) \/ RemoveConf(t)
  PROVE  SettledInv'
<1>0. /\ pc[t] \in {"stop", "destroy", "unlink"} /\ cur[t] \in Vdev
      /\ pc' = [pc EXCEPT ![t] = pc'[t]] /\ pc'[t] \in {"destroy", "unlink", "scan"}
      /\ cur' = cur \/ (pc'[t] = "scan" /\ cur' = [cur EXCEPT ![t] = NoVdev])
      /\ UNCHANGED <<podVars, grant, marks, todo, req, reissued>>
  BY SettledParts DEF StopVDevice, DestroyVDevice, RemoveConf
<1>1. PICK w \in Vdev : w = cur[t]
  BY <1>0
<1>2. \A v \in Vdev \ {w} : vh'[v] = vh[v] /\ (v \in conf => v \in conf')
  BY <1>1, SettledParts DEF StopVDevice, DestroyVDevice, RemoveConf, Destroyed, NotDestroyed
<1>3. Tearing(t, w)
  BY <1>0, <1>1 DEF Tearing
<1>4. /\ \A u \in Thread \ {t} : pc'[u] = pc[u] /\ cur'[u] = cur[u]
      /\ pc'[t] # "scan" => cur'[t] = cur[t]
  BY <1>0, SettledParts
<1>5. \A u \in Thread, v \in Vdev : Tearing(u, v)' => Tearing(u, v)
  BY <1>0, <1>4 DEF Tearing
<1>6. pc'[Alloc] \in AllocHolds => pc'[Alloc] = pc[Alloc] /\ cur'[Alloc] = cur[Alloc]
  BY <1>0, <1>4, SettledParts DEF AllocHolds
<1>7. Records' = Records /\ \A p \in Pod, c \in Ctr : InUse(p, c)' <=> InUse(p, c)
  BY <1>0 DEF Records, InUse
<1> QED
  BY <1>0, <1>2, <1>3, <1>5, <1>6, <1>7, TornUnused, HarmlessStep

\* The other steps of a pass.
LEMMA PassSettled ==
  ASSUME SettledBefore, NEW t \in Thread, RefreshStep(t)
  PROVE  SettledInv'
<1>1. CASE StopVDevice(t) \/ DestroyVDevice(t) \/ RemoveConf(t)
  BY <1>1, TearingSettled
<1>2. ASSUME UNCHANGED <<grant, marks, vh, reissued, conf, cur, req>>,
             \A u \in Thread \ {t} : pc'[u] = pc[u] /\ todo'[u] = todo[u],
             todo'[t] \subseteq todo[t] \cup marks,
             pc'[t] \in {"list", "idle", "serve", "scan"}
      PROVE  SettledInv'
  <2>1. Records' \subseteq Records
    BY <1>2 DEF Records
  <2>2. \A p \in Pod, c \in Ctr : InUse(p, c)' => InUse(p, c)
    BY <1>2, DoneStays DEF SettledBefore, InUse
  <2>3. \A u \in Thread : pc'[u] \in {"stop", "destroy", "unlink"} \cup AllocHolds => u # t
    BY <1>2 DEF AllocHolds
  <2> QED BY <1>2, <2>1, <2>2, <2>3, IdleStep
<1>3. CASE ReadMarks(t)
  BY <1>2, <1>3, SettledParts DEF ReadMarks
<1>4. CASE RefreshFails(t)
  BY <1>2, <1>4, SettledParts DEF RefreshFails, Resume
<1>5. CASE ListPods(t)
  BY <1>2, <1>5, SettledParts DEF ListPods
<1>6. CASE EndRefresh(t)
  BY <1>2, <1>6, SettledParts DEF EndRefresh, Resume
<1>7. ASSUME NEW p \in victims[t], DeletePod(t, p) PROVE SettledInv'
  BY <1>2, <1>7, SettledParts DEF DeletePod
<1> QED
  BY <1>1, <1>3, <1>4, <1>5, <1>6, <1>7, RemoveMarkSettled DEF RefreshStep

\* The driver hands out v: unless a pass awaits it, nothing names v any more.
LEMMA CreateSettled ==
  ASSUME SettledBefore, NEW v \in Vdev, CreateVDevice(v)
  PROVE  SettledInv'
<1>0. /\ pc[Alloc] = "serve" /\ vh[v] = "free" /\ vh' = [vh EXCEPT ![v] = "up"]
      /\ conf' \in {conf \cup {v}, conf \ {v}} /\ UNCHANGED <<podVars, grant, marks, todo, req>>
      /\ cur' = [cur EXCEPT ![Alloc] = v] /\ pc' = [pc EXCEPT ![Alloc] = "mark"]
      /\ reissued' = reissued \cup IF Awaited(v) THEN {v} ELSE {}
  BY DEF CreateVDevice
<1>1. /\ pc'[Alloc] = "mark" /\ cur'[Alloc] = v /\ vh'[v] = "up"
      /\ \A u \in Thread \ {Alloc} : pc'[u] = pc[u] /\ cur'[u] = cur[u]
      /\ \A x \in Vdev \ {v} : vh'[x] = vh[x] /\ (x \in conf => x \in conf')
  BY <1>0, SettledParts
<1>2. \A x : Settled(x)' => Settled(x)
  BY <1>0 DEF Settled
<1>3. Records' = Records /\ \A p \in Pod, c \in Ctr : InUse(p, c)' <=> InUse(p, c)
  BY <1>0 DEF Records, InUse
<1>4. \A u \in Thread : \A x : Tearing(u, x)' => Tearing(u, x)
  BY <1>1 DEF Tearing
<1>5. OneRecord'
  BY <1>2, <1>3, SettledParts DEF SettledInv, OneRecord
<1>6. NewUnknown'
  <2> SUFFICES ASSUME Settled(v)'
               PROVE  (\A m \in Records : m.vdev # v) /\ \A u \in Thread : ~Tearing(u, v)'
    BY <1>1, <1>3 DEF NewUnknown, Settled, Tearing
  <2>1. ~Awaited(v) /\ Settled(v)
    BY <1>0, <1>2 DEF Settled
  <2>2. \A m \in marks : m.vdev # v
    BY <2>1 DEF Awaited, Marked
  <2>3. \A u \in Thread : (\A m \in todo[u] : m.vdev # v) /\ ~Tearing(u, v)
    BY <2>1 DEF Awaited, Tearing
  <2> QED BY <1>4, <2>2, <2>3 DEF Records
<1>7. OwnRecord' /\ MountSound'
  BY <1>1 DEF OwnRecord, MountSound
<1>8. UseSound'
  <2> SUFFICES ASSUME NEW p \in Pod, NEW c \in Ctr, InUse(p, c), Durable(c),
                      NEW u \in Vdev, u = grant[p][c], Settled(u)
               PROVE  /\ vh'[u] = "up" /\ u \in conf' /\ \A t \in Thread : ~Tearing(t, u)'
    BY <1>0, <1>2, <1>3 DEF UseSound, Tearing, Settled
  <2>1. vh[u] = "up" /\ u \in conf /\ \A t \in Thread : ~Tearing(t, u)
    BY SettledParts DEF SettledInv, UseSound
  <2> QED BY <1>0, <1>1, <1>4, <2>1
<1> QED
  BY <1>5, <1>6, <1>7, <1>8 DEF SettledInv

\* Allocate marks it: that is the first record of it.
LEMMA MarkSettled ==
  ASSUME SettledBefore, WriteMark
  PROVE  SettledInv'
<1>0. /\ pc[Alloc] = "mark" /\ UNCHANGED <<podVars, grant, vh, conf, reissued, todo, cur, req>>
      /\ cur[Alloc] \in Vdev
  BY SettledParts DEF WriteMark
<1>1. PICK u \in Vdev : u = cur[Alloc]
  BY <1>0
<1>2. \A t \in Thread \ {Alloc} : pc'[t] = pc[t]
  BY SettledParts DEF WriteMark
<1>3. \A p \in Pod, c \in Ctr : InUse(p, c)' <=> InUse(p, c)
  BY <1>0 DEF InUse
<1>4. pc'[Alloc] \in {"conf", "rbstop"} /\ marks' \in {marks, marks \cup {MarkOf(u)}}
  BY <1>1, SettledParts DEF WriteMark, MarkFails
<1>5. \A m \in Records' : m \in Records \/ m = MarkOf(u)
  BY <1>0, <1>4 DEF Records
<1>6. \A t \in Thread : \A x : Tearing(t, x)' => Tearing(t, x)
  BY <1>0, <1>2, <1>4 DEF Tearing
<1>7. \A x : Settled(x)' <=> Settled(x)
  BY <1>0 DEF Settled
<1>8. Settled(u) => /\ vh[u] = "up" /\ \A m \in Records : m.vdev # u
                    /\ \A t \in Thread : ~Tearing(t, u)
  BY <1>0, <1>1, SettledParts DEF SettledInv, NewUnknown
<1>9. OneRecord'
  <2>1. MarkOf(u).vdev = u
    BY DEF MarkOf
  <2> QED BY <1>5, <1>7, <1>8, <2>1, SettledParts DEF SettledInv, OneRecord
<1>10. NewUnknown'
  BY <1>4 DEF NewUnknown
<1>11. OwnRecord'
  BY <1>0, <1>1, <1>5, <1>7, <1>8 DEF OwnRecord, MarkOf
<1>12. MountSound'
  <2>1. Settled(u) => vh'[u] = "up" /\ \A t \in Thread : ~Tearing(t, u)'
    BY <1>0, <1>6, <1>8
  <2> QED BY <1>0, <1>1, <1>7, <2>1 DEF MountSound, Tearing
<1>13. UseSound'
  <2> SUFFICES ASSUME NEW p \in Pod, NEW c \in Ctr, InUse(p, c), Durable(c),
                      NEW w \in Vdev, w = grant[p][c], Settled(w)
               PROVE  /\ vh'[w] = "up" /\ w \in conf' /\ \A t \in Thread : ~Tearing(t, w)'
    BY <1>0, <1>3, <1>7 DEF UseSound, Tearing, Settled
  <2>1. vh[w] = "up" /\ w \in conf /\ \A t \in Thread : ~Tearing(t, w)
    BY SettledParts DEF SettledInv, UseSound
  <2> QED BY <1>0, <1>6, <2>1
<1> QED
  BY <1>9, <1>10, <1>11, <1>12, <1>13 DEF SettledInv

\* The answer gives the vHCU to the container Allocate serves.
LEMMA MountSettled ==
  ASSUME SettledBefore, MountConf
  PROVE  SettledInv'
<1>0. /\ pc[Alloc] = "conf" /\ UNCHANGED <<podVars, marks, vh, conf, reissued, todo>>
      /\ cur[Alloc] \in Vdev /\ req.pod \in Pod /\ req.ctr \in Ctr
  BY SettledParts, RecordParts DEF MountConf, SettledBefore
<1>1. \A t \in Thread \ {Alloc} : pc'[t] = pc[t] /\ cur'[t] = cur[t]
  BY SettledParts DEF MountConf, Answer
<1>2. pc'[Alloc] \in {"idle", "unmark"}
  BY SettledParts DEF MountConf, Answer
<1>3. Records' = Records /\ \A t \in Thread, x \in Vdev : Tearing(t, x)' => Tearing(t, x)
  BY <1>0, <1>1, <1>2 DEF Records, Tearing
<1>4. ~Settled(NoVdev) /\ \A x : Settled(x)' <=> Settled(x)
  BY <1>0, SettledParts DEF Settled
<1>5. CASE cur[Alloc] \notin conf
  <2>1. pc'[Alloc] = "unmark" /\ UNCHANGED <<grant, req, cur>>
    BY <1>5, SettledParts DEF MountConf
  <2>2. \A p \in Pod, c \in Ctr : InUse(p, c)' <=> InUse(p, c)
    BY <1>0, <2>1 DEF InUse
  <2> QED BY <1>0, <1>3, <1>4, <2>1, <2>2, HarmlessStep
<1>6. ASSUME NEW u \in Vdev, NEW p \in Pod, NEW c \in Ctr,
             u = cur[Alloc], p = req.pod, c = req.ctr, u \in conf
      PROVE  SettledInv'
  <2>1. pc'[Alloc] = "idle" /\ grant' = [grant EXCEPT ![p][c] = u]
    BY <1>6, SettledParts DEF MountConf, Answer
  <2>2. /\ grant'[p][c] = u
        /\ \A q \in Pod, d \in Ctr : q # p \/ d # c => grant'[q][d] = grant[q][d]
    BY <2>1, SettledParts
  <2>3. OneRecord'
    BY <1>3, <1>4, SettledParts DEF SettledInv, OneRecord
  <2>4. NewUnknown' /\ OwnRecord' /\ MountSound'
    BY <2>1 DEF NewUnknown, OwnRecord, MountSound
  <2>5. UseSound'
    <3> SUFFICES ASSUME NEW q \in Pod, NEW d \in Ctr, InUse(q, d)', Durable(d),
                        NEW w \in Vdev, w = grant'[q][d], Settled(w)
                 PROVE  vh[w] = "up" /\ w \in conf /\ \A t \in Thread : ~Tearing(t, w)'
      BY <1>0, <1>4 DEF UseSound, Tearing, Settled
    <3>1. CASE q = p /\ d = c
      <4>1. ~Over(q, d)
        BY <1>0 DEF InUse, Over
      <4>2. vh[u] = "up" /\ \A t \in Thread : ~Tearing(t, u)
        BY <1>0, <1>6, <2>2, <3>1, <4>1, SettledParts DEF SettledInv, MountSound
      <4> QED BY <1>3, <1>6, <2>2, <3>1, <4>2
    <3>2. CASE q # p \/ d # c
      <4>1. InUse(q, d) /\ grant[q][d] = w
        BY <1>0, <2>2, <3>2, SettledParts DEF InUse
      <4>2. vh[w] = "up" /\ w \in conf /\ \A t \in Thread : ~Tearing(t, w)
        BY <4>1, SettledParts DEF SettledInv, UseSound
      <4> QED BY <1>3, <4>2
    <3> QED BY <3>1, <3>2
  <2> QED BY <2>3, <2>4, <2>5 DEF SettledInv
<1> QED BY <1>0, <1>5, <1>6

\* Nobody uses a vHCU that Allocate still holds: its record names the container
\* that has no answer yet.
LEMMA HeldUnused ==
  ASSUME SettledBefore, pc[Alloc] \in AllocHolds, Settled(cur[Alloc]),
         NEW p \in Pod, NEW c \in Ctr, InUse(p, c), Durable(c)
  PROVE  grant[p][c] # cur[Alloc]
<1> SUFFICES ASSUME grant[p][c] = cur[Alloc] PROVE FALSE
  OBVIOUS
<1> DEFINE m == [pod |-> p, ctr |-> c, vdev |-> grant[p][c]]
<1>1. m \in Records /\ m.vdev = cur[Alloc]
  BY UseRecorded, SettledParts DEF Settled
<1>2. m = MarkOf(cur[Alloc])
  BY <1>1, SettledParts DEF SettledInv, NewUnknown, OwnRecord, AllocHolds
<1>3. p = req.pod /\ c = req.ctr
  BY <1>2 DEF MarkOf
<1>4. grant[p][c] = Ungranted
  BY <1>3, SettledParts DEF LiveGrantInv, RecordFacts, ServedUnanswered, AllocHolds
<1> QED BY <1>4 DEF InUse

\* A call that fails takes back what only its own mark names.
LEMMA RollbackSettled ==
  ASSUME SettledBefore, RollbackMark \/ RollbackStop \/ RollbackDestroy
  PROVE  SettledInv'
<1>0. /\ pc[Alloc] \in {"unmark", "rbstop", "rbdestroy"} /\ cur[Alloc] \in Vdev
      /\ UNCHANGED <<podVars, grant, conf, reissued, todo, req>>
      /\ \A t \in Thread \ {Alloc} : pc'[t] = pc[t] /\ cur'[t] = cur[t]
      /\ marks' \subseteq marks /\ pc'[Alloc] \in {"rbstop", "rbdestroy", "reject"}
      /\ pc'[Alloc] # "reject" => cur'[Alloc] = cur[Alloc]
  BY SettledParts, UnlinkParts DEF RollbackMark, RollbackStop, RollbackDestroy, SettledBefore
<1>1. Records' \subseteq Records /\ \A p \in Pod, c \in Ctr : InUse(p, c)' <=> InUse(p, c)
  BY <1>0 DEF Records, InUse
<1>2. \A t \in Thread, x \in Vdev : Tearing(t, x)' => Tearing(t, x)
  BY <1>0 DEF Tearing
<1>3. CASE RollbackMark
  <2>1. pc[Alloc] = "unmark" /\ pc'[Alloc] = "rbstop" /\ vh' = vh
    BY <1>3, SettledParts DEF RollbackMark
  <2>2. ~Settled(NoVdev)
    BY SettledParts DEF Settled
  <2> QED BY <1>0, <1>1, <1>2, <2>1, <2>2, HarmlessStep
<1>4. ASSUME NEW w \in Vdev, w = cur[Alloc], RollbackStop \/ RollbackDestroy PROVE SettledInv'
  <2>1. \A v \in Vdev \ {w} : vh'[v] = vh[v]
    BY <1>4, SettledParts DEF RollbackStop, RollbackDestroy, Destroyed, NotDestroyed
  <2>2. \/ pc[Alloc] = "rbstop" /\ pc'[Alloc] = "rbdestroy"
        \/ pc[Alloc] = "rbdestroy" /\ pc'[Alloc] = "reject"
    BY <1>4, SettledParts DEF RollbackStop, RollbackDestroy
  <2>3. ASSUME NEW p \in Pod, NEW c \in Ctr, InUse(p, c), Durable(c), Settled(w)
        PROVE  grant[p][c] # w
    BY <1>4, <2>2, <2>3, HeldUnused DEF AllocHolds
  <2> QED BY <1>0, <1>1, <1>2, <2>1, <2>2, <2>3, HarmlessStep DEF AllocHolds
<1> QED BY <1>0, <1>3, <1>4

\* The other steps: of Allocate, kubelet, users and a crash.
LEMMA CallSettled ==
  ASSUME SettledBefore, AllocStep
  PROVE  SettledInv'
<1>1. CASE Refuse \/ GrantWhole \/ GrantBare
  <2>1. /\ UNCHANGED <<podVars, vh, reissued, conf, cur, todo>>
        /\ pc'[Alloc] \in {"reject", "idle"} /\ \A t \in Thread \ {Alloc} : pc'[t] = pc[t]
        /\ marks' \subseteq marks \cup {MarkOf(NoVdev)}
    BY <1>1, SettledParts DEF Refuse, GrantWhole, GrantBare, Answer
  <2>2. \A m \in marks' : m \in marks \/ m.vdev \notin Vdev
    BY <2>1, SettledParts DEF MarkOf
  <2>3. \A m \in Records' : m \in Records \/ m.vdev \notin Vdev
    BY <2>1, <2>2 DEF Records
  <2>4. grant' = grant \/ (grant' = [grant EXCEPT ![req.pod][req.ctr] = NoVdev] /\ req \in Request)
    BY <1>1, SettledParts, RecordParts DEF Refuse, GrantWhole, GrantBare, Answer, SettledBefore
  <2>5. \A p \in Pod, c \in Ctr : InUse(p, c)' /\ grant'[p][c] \in Vdev =>
          InUse(p, c) /\ grant'[p][c] = grant[p][c]
    BY <2>1, <2>4, SettledParts DEF InUse
  <2> QED BY <2>1, <2>2, <2>3, <2>5, SettledParts, IdleStep DEF AllocHolds
<1> QED
  BY <1>1, CreateSettled, MarkSettled, MountSettled, RollbackSettled DEF AllocStep

LEMMA EnvSettled ==
  ASSUME SettledBefore, EnvStep
  PROVE  SettledInv'
<1>1. ASSUME UNCHANGED <<grant, marks, vh, reissued, conf>>,
             \A t \in Thread : todo'[t] \subseteq todo[t],
             \A t \in Thread : pc'[t] \in {"stop", "destroy", "unlink"} \cup AllocHolds =>
               pc'[t] = pc[t] /\ cur'[t] = cur[t],
             pc'[Alloc] \in AllocHolds => req' = req
      PROVE  SettledInv'
  <2>1. Records' \subseteq Records
    BY <1>1 DEF Records
  <2>2. \A p \in Pod, c \in Ctr : InUse(p, c)' => InUse(p, c)
    BY <1>1, DoneStays DEF SettledBefore, InUse
  <2> QED BY <1>1, <2>1, <2>2, SettledParts, IdleStep
<1>2. CASE RejectPod
  BY <1>1, <1>2, SettledParts DEF RejectPod, AllocHolds
<1>3. ASSUME NEW p \in Pod, NEW c \in Ctr, KubeletAllocate(p, c) PROVE SettledInv'
  BY <1>1, <1>3, SettledParts DEF KubeletAllocate, AllocHolds
<1>4. CASE PluginCrash
  BY <1>1, <1>4, SettledParts DEF PluginCrash, AllocHolds
<1>5. CASE UNCHANGED <<grant, marks, driverVars, pc, todo, cur, req>>
  BY <1>1, <1>5
<1> QED
  BY <1>2, <1>3, <1>4, <1>5
  DEF EnvStep, PodCreate, KillPod, ReportStatus, DeleteByUser, StartContainer,
      ExitContainer, CrashContainer, RestartContainer, SetRun

LEMMA SettledAlways == Spec => []SettledInv
<1>1. Init => SettledInv
  <2> SUFFICES ASSUME Init PROVE SettledInv
    OBVIOUS
  <2>1. Records = {} /\ \A t \in Thread : pc[t] = "idle"
    BY DEF Init, Records
  <2>2. \A p \in Pod, c \in Ctr : ~InUse(p, c)
    BY DEF Init, InUse
  <2>3. pc[Alloc] = "idle" /\ marks = {}
    BY <2>1, ThreadAssumption DEF Init
  <2> QED
    BY <2>1, <2>2, <2>3
    DEF SettledInv, OneRecord, NewUnknown, OwnRecord, MountSound, UseSound
<1>2. TypeOK /\ LiveGrantInv /\ SettledInv /\ [Next]_vars => SettledInv'
  <2> SUFFICES ASSUME TypeOK, LiveGrantInv, SettledInv, [Next]_vars PROVE SettledInv'
    OBVIOUS
  <2>1. SettledBefore
    BY EveryPodStep DEF SettledBefore, PodStep
  <2>2. CASE UNCHANGED vars
    BY <2>1, <2>2, IdleStep DEF Records, InUse
  <2> QED
    BY <2>1, <2>2, PassSettled, CallSettled, EnvSettled DEF Next
<1> QED
  BY <1>1, <1>2, TypeCorrect, LiveGrantAlways, PTL DEF Spec

\* However many passes overlap or die with the plugin, whatever mark files are
\* left behind and whatever kubelet restarts: a container keeps its vHCU for
\* itself, and its conf file, for as long as it runs or may be restarted, if the
\* driver did not hand out the index while a mark file, a pass's list or a
\* teardown under way still meant the former bearer.
THEOREM SettledKeepsVhcu == Spec => []SettledVhcuKept
<1>1. TypeOK /\ LiveGrantInv /\ SettledInv => SettledVhcuKept
  <2> SUFFICES ASSUME TypeOK, LiveGrantInv, SettledInv,
                      NEW p \in Pod, NEW c \in Ctr, InUse(p, c),
                      grant[p][c] \in Vdev \ reissued, Durable(c)
               PROVE  /\ vh[grant[p][c]] = "up" /\ grant[p][c] \in conf
                      /\ \A q \in Pod, d \in Ctr :
                           InUse(q, d) /\ Kind[d] # "init" /\ grant[q][d] = grant[p][c]
                           => q = p /\ d = c
    BY DEF SettledVhcuKept, Durable
  <2>1. Settled(grant[p][c])
    BY DEF Settled
  <2>2. vh[grant[p][c]] = "up" /\ grant[p][c] \in conf
    BY <2>1 DEF SettledInv, UseSound
  <2>3. ASSUME NEW q \in Pod, NEW d \in Ctr, InUse(q, d), Kind[d] # "init",
               grant[q][d] = grant[p][c]
        PROVE  q = p /\ d = c
    <3> DEFINE m == [pod |-> p, ctr |-> c, vdev |-> grant[p][c]]
               n == [pod |-> q, ctr |-> d, vdev |-> grant[q][d]]
    <3>1. m \in Records /\ n \in Records
      BY <2>3, UseRecorded DEF Durable
    <3>2. m = n
      BY <2>1, <2>3, <3>1 DEF SettledInv, OneRecord
    <3> QED BY <3>2
  <2> QED BY <2>2, <2>3
<1> QED
  BY <1>1, TypeCorrect, LiveGrantAlways, SettledAlways, PTL

-----------------------------------------------------------------------------
(* Which pods a pass judges and deletes                                    *)

\* A pass forgets a judged pod only when it deletes it, or in a crash, which
\* removes nothing from the API server.
LEMMA VictimLeaves ==
  ASSUME TypeOK, Next, NEW t \in Thread, victims'[t] # victims[t], pc[t] = "scan",
         NEW p \in Pod, Listed(p), phase'[p] = "gone"
  PROVE  p \in victims[t]
<1>1. victims \in [Thread -> SUBSET Pod] /\ phase \in [Pod -> Phases]
  BY DEF TypeOK
<1>2. ASSUME NEW u \in Thread, NEW q \in victims[u], DeletePod(u, q) PROVE p \in victims[t]
  <2>1. u = t
    BY <1>1, <1>2 DEF DeletePod
  <2>2. p = q
    BY <1>1, <1>2 DEF DeletePod, Gone, Listed
  <2> QED BY <2>1, <2>2
<1>3. ASSUME NEW u \in Thread, ListPods(u) PROVE FALSE
  BY <1>1, <1>3 DEF ListPods
<1>4. CASE PluginCrash
  BY <1>4 DEF PluginCrash, Listed
<1>5. CASE UNCHANGED victims
  BY <1>5
<1> QED
  BY <1>2, <1>3, <1>4, <1>5
  DEF Next, RefreshStep, ReadMarks, RefreshFails, RemoveMark, StopVDevice, DestroyVDevice,
      RemoveConf, EndRefresh, AllocStep, Refuse, GrantWhole, GrantBare, CreateVDevice,
      WriteMark, MountConf, RollbackMark, RollbackStop, RollbackDestroy, EnvStep, RejectPod,
      PodCreate, KillPod, ReportStatus, DeleteByUser, KubeletAllocate, StartContainer,
      ExitContainer, CrashContainer, RestartContainer, SetRun

\* A pod of the same name that follows a judged pod is never deleted for it.
THEOREM DeletesOnlyJudged == Spec => OnlyJudgedPodDeleted
<1>1. TypeOK /\ [Next]_vars =>
        [\A t \in Thread, p \in Pod :
           /\ pc[t] = "scan" /\ victims'[t] # victims[t]
           /\ Listed(p) /\ phase'[p] = "gone"
           => p \in victims[t]]_vars
  BY VictimLeaves
<1> QED
  BY <1>1, TypeCorrect, PTL DEF Spec, OnlyJudgedPodDeleted

\* The report that says a pod is running names its init containers terminated.
RunningFacts ==
  \A p \in Pod, c \in Ctr : phase[p] = "Running" /\ Kind[c] = "init" => c \in term[p]

\* A container for which no pass will ask a mark of a running pod.
Past(p, c) == Kind[c] = "init" \/ phase[p] \in {"Terminal", "gone"}

DoomedPast == \A t \in Thread : pc[t] \in {"scan", "stop", "destroy", "unlink"} =>
  \A m \in todo[t] : Past(m.pod, m.ctr)
ConfMarked == pc[Alloc] = "conf" => MarkOf(cur[Alloc]) \in marks \/ Past(req.pod, req.ctr)
HasMark(p, c) == \E m \in marks : m.pod = p /\ m.ctr = c
AnsweredMarked == faults = 0 =>
  \A p \in Pod, c \in Ctr :
    grant[p][c] # Ungranted /\ Ask[p][c] \in {"part", "whole"} => Past(p, c) \/ HasMark(p, c)

JudgeInv == RunningFacts /\ DoomedPast /\ ConfMarked /\ AnsweredMarked

\* A pod that is reported ended stays so.
LEMMA PastStays ==
  ASSUME TypeOK, Next, NEW p \in Pod, phase[p] \in {"Terminal", "gone"}
  PROVE  phase'[p] \in {"Terminal", "gone"}
<1> DEFINE Stays == phase'[p] \in {"Terminal", "gone"}
<1>1. ASSUME NEW q \in Pod, Gone(q) PROVE Stays
  BY <1>1 DEF Gone, TypeOK
<1>2. ASSUME NEW q \in Pod, PodCreate(q) PROVE Stays
  BY <1>2 DEF PodCreate, TypeOK
<1>3. ASSUME NEW q \in Pod, ReportStatus(q) PROVE Stays
  BY <1>3 DEF ReportStatus, Listed, TypeOK
<1>4. ASSUME phase' = phase PROVE Stays
  BY <1>4
<1> HIDE DEF Stays
<1>5. ASSUME NEW t \in Thread, RefreshStep(t) PROVE Stays
  <2>1. ASSUME NEW q \in victims[t], DeletePod(t, q) PROVE Stays
    BY <1>1, <1>4, <2>1 DEF DeletePod
  <2> QED
    BY <1>4, <1>5, <2>1
    DEF RefreshStep, ReadMarks, RefreshFails, ListPods, RemoveMark, StopVDevice,
        DestroyVDevice, RemoveConf, EndRefresh
<1>6. ASSUME AllocStep PROVE Stays
  BY <1>4, <1>6
  DEF AllocStep, Refuse, GrantWhole, GrantBare, CreateVDevice, WriteMark, MountConf,
      RollbackMark, RollbackStop, RollbackDestroy
<1>7. ASSUME EnvStep PROVE Stays
  BY <1>1, <1>2, <1>3, <1>4, <1>7
  DEF EnvStep, RejectPod, KillPod, DeleteByUser, KubeletAllocate, StartContainer,
      ExitContainer, CrashContainer, RestartContainer, SetRun, PluginCrash
<1>8. Stays
  BY <1>5, <1>6, <1>7 DEF Next
<1> QED BY <1>8 DEF Stays

\* Only a report makes a pod Running.
LEMMA RunningFactsStep ==
  ASSUME TypeOK, RunningFacts, PodStep
  PROVE  RunningFacts'
<1> SUFFICES ASSUME NEW p \in Pod, NEW c \in Ctr, phase'[p] = "Running", Kind[c] = "init"
             PROVE  c \in term'[p]
  BY DEF RunningFacts
<1> DEFINE Told == c \in term'[p]
<1>1. ASSUME NEW q \in Pod, Gone(q) PROVE Told
  BY <1>1 DEF Gone, RunningFacts, TypeOK
<1>2. ASSUME NEW q \in Pod, Created(q) PROVE Told
  BY <1>2 DEF Created, RunningFacts, TypeOK
<1>3. ASSUME NEW q \in Pod, Reported(q) PROVE Told
  <2>1. PhaseOf(q) = "Running" => c \in TermOf(q)
    BY DEF PhaseOf, TermOf, InitsPast
  <2> QED BY <1>3, <2>1 DEF Reported, RunningFacts, TypeOK
<1>4. ASSUME UNCHANGED <<phase, term>> PROVE Told
  BY <1>4 DEF RunningFacts
<1> HIDE DEF Told
<1>5. ASSUME NEW q \in Pod, Ended(q) PROVE Told
  BY <1>4, <1>5 DEF Ended
<1>6. ASSUME NEW q \in Pod, NEW d \in Ctr, NEW s \in RunStates, Moved(q, d, s) PROVE Told
  BY <1>4, <1>6 DEF Moved
<1>7. Told
  BY <1>1, <1>2, <1>3, <1>4, <1>5, <1>6 DEF PodStep
<1> QED BY <1>7 DEF Told

LEMMA JudgeFacts ==
  ASSUME TypeOK, Next, JudgeInv
  PROVE  /\ \A p \in Pod, c \in Ctr : Past(p, c) => Past(p, c)'
         /\ RunningFacts'
         /\ \A m \in marks : m.pod \in Pod /\ m.ctr \in Ctr
         /\ \A u \in Thread : \A m \in todo[u] : m.pod \in Pod /\ m.ctr \in Ctr
         /\ pc[Alloc] # "idle" => req.pod \in Pod /\ req.ctr \in Ctr
         /\ Alloc \in Thread
BY PastStays, EveryPodStep, RunningFactsStep, RecordParts, ThreadAssumption DEF Past, JudgeInv

\* A step of one goroutine that gives no answer: of the marks it removes or
\* dooms, no container of a running pod needs one.
LEMMA JudgeStep ==
  ASSUME TypeOK, Next, LiveGrantInv, JudgeInv, NEW t \in Thread,
         UNCHANGED <<grant, req>>, faults' = 0 => faults = 0,
         \A u \in Thread \ {t} : pc'[u] = pc[u] /\ cur'[u] = cur[u] /\ todo'[u] = todo[u],
         pc'[t] \in {"scan", "stop", "destroy", "unlink"} =>
           \A m \in todo'[t] : m \in Mark /\ Past(m.pod, m.ctr),
         \A m \in marks \ marks' :
           \/ Past(m.pod, m.ctr)
           \/ t = Alloc /\ grant[m.pod][m.ctr] = Ungranted,
         t = Alloc /\ pc'[t] = "conf" => MarkOf(cur'[t]) \in marks'
  PROVE  JudgeInv'
<1>0. /\ \A p \in Pod, c \in Ctr : Past(p, c) => Past(p, c)'
      /\ RunningFacts' /\ Alloc \in Thread
      /\ pc[Alloc] # "idle" => req.pod \in Pod /\ req.ctr \in Ctr
  BY JudgeFacts
<1>1. DoomedPast'
  <2> SUFFICES ASSUME NEW u \in Thread, pc'[u] \in {"scan", "stop", "destroy", "unlink"},
                      NEW m \in todo'[u]
               PROVE  Past(m.pod, m.ctr)'
    BY DEF DoomedPast
  <2>1. Past(m.pod, m.ctr) /\ m.pod \in Pod /\ m.ctr \in Ctr
    BY JudgeFacts DEF JudgeInv, DoomedPast
  <2> QED BY <1>0, <2>1
<1>2. ConfMarked'
  <2> SUFFICES ASSUME pc'[Alloc] = "conf", t # Alloc, NEW p \in Pod, NEW c \in Ctr,
                      p = req.pod, c = req.ctr, MarkOf(cur[Alloc]) \notin marks'
               PROVE  Past(p, c)'
    BY <1>0 DEF ConfMarked, MarkOf, Past
  <2>1. pc[Alloc] = "conf"
    BY <1>0
  <2>2. Past(p, c)
    BY <2>1 DEF JudgeInv, ConfMarked, MarkOf
  <2> QED BY <1>0, <2>2
<1>3. AnsweredMarked'
  <2> SUFFICES ASSUME faults' = 0, NEW p \in Pod, NEW c \in Ctr, grant[p][c] # Ungranted,
                      Ask[p][c] \in {"part", "whole"}, ~Past(p, c)'
               PROVE  HasMark(p, c)'
    BY DEF AnsweredMarked
  <2>1. ~Past(p, c)
    BY <1>0
  <2>2. PICK m \in marks : m.pod = p /\ m.ctr = c
    BY <2>1 DEF JudgeInv, AnsweredMarked, HasMark
  <2>3. m \in marks'
    BY <2>1, <2>2
  <2> QED BY <2>2, <2>3 DEF HasMark
<1> QED BY <1>0, <1>1, <1>2, <1>3 DEF JudgeInv

LEMMA PassJudges ==
  ASSUME TypeOK, Next, LiveGrantInv, JudgeInv, NEW t \in Thread, RefreshStep(t)
  PROVE  JudgeInv'
<1>0. /\ pc \in [Thread -> {"idle"} \cup RefreshPcs \cup AllocPcs]
      /\ cur \in [Thread -> Vdev \cup {NoVdev}]
      /\ todo \in [Thread -> SUBSET Mark]
      /\ DoomedPast /\ Alloc \in Thread
  BY ThreadAssumption DEF TypeOK, JudgeInv
<1>1. CASE ReadMarks(t)
  BY <1>0, <1>1, JudgeStep DEF ReadMarks
<1>2. CASE RefreshFails(t)
  BY <1>0, <1>2, JudgeStep DEF RefreshFails, Resume
<1>3. CASE ListPods(t)
  <2> DEFINE kept == {m \in todo[t] : MarkFileStillNeeded(m.pod, m.ctr)}
  <2>1. /\ pc[t] = "list" /\ pc' = [pc EXCEPT ![t] = "scan"]
        /\ todo' = [todo EXCEPT ![t] = @ \ kept]
        /\ UNCHANGED <<grant, marks, cur, req, faults>>
    BY <1>3 DEF ListPods
  <2>2. ASSUME NEW m \in todo[t] \ kept PROVE m \in Mark /\ Past(m.pod, m.ctr)
    <3>1. m \in Mark /\ phase[m.pod] # "absent" /\ m.pod \in Pod
      BY <1>0, RecordParts DEF LiveGrantInv, RecordFacts, CreatedOnly
    <3>2. ~MarkFileStillNeeded(m.pod, m.ctr)
      OBVIOUS
    <3> QED
      BY <3>1, <3>2 DEF MarkFileStillNeeded, Listed, Past, TypeOK
  <2> HIDE DEF kept
  <2> QED BY <1>0, <2>1, <2>2, JudgeStep
<1>4. ASSUME NEW m \in todo[t], RemoveMark(t, m) PROVE JudgeInv'
  <2>1. /\ pc[t] = "scan" /\ \A n \in marks : n = m \/ n \in marks'
        /\ todo' = [todo EXCEPT ![t] = @ \ {m}]
        /\ UNCHANGED <<grant, req>> /\ (faults' = 0 => faults = 0)
        /\ \A u \in Thread \ {t} : pc'[u] = pc[u] /\ cur'[u] = cur[u]
        /\ pc'[t] \in {"scan", "stop"}
    BY <1>0, <1>4, UnlinkParts DEF RemoveMark
  <2>2. \A n \in todo[t] : n \in Mark /\ Past(n.pod, n.ctr)
    BY <1>0, <2>1 DEF DoomedPast
  <2> QED BY <1>0, <2>1, <2>2, JudgeStep
<1>5. CASE StopVDevice(t)
  BY <1>0, <1>5, JudgeStep DEF StopVDevice, DoomedPast
<1>6. CASE DestroyVDevice(t)
  <2>1. faults' = 0 => faults = 0
    BY <1>6, BoundAssumption DEF DestroyVDevice, Destroyed, NotDestroyed, TypeOK
  <2> QED BY <1>0, <1>6, <2>1, JudgeStep DEF DestroyVDevice, DoomedPast
<1>7. CASE RemoveConf(t)
  <2>1. faults' = 0 => faults = 0
    BY <1>7, BoundAssumption DEF RemoveConf, TypeOK
  <2> QED BY <1>0, <1>7, <2>1, JudgeStep DEF RemoveConf, DoomedPast
<1>8. ASSUME NEW p \in victims[t], DeletePod(t, p) PROVE JudgeInv'
  BY <1>0, <1>8, JudgeStep DEF DeletePod, DoomedPast
<1>9. CASE EndRefresh(t)
  BY <1>0, <1>9, JudgeStep DEF EndRefresh, Resume
<1> QED
  BY <1>1, <1>2, <1>3, <1>4, <1>5, <1>6, <1>7, <1>8, <1>9 DEF RefreshStep

\* A new answer comes with a mark, unless writing it failed.
LEMMA AnswerJudges ==
  ASSUME TypeOK, Next, LiveGrantInv, JudgeInv, NEW v \in Vdev \cup {NoVdev},
         pc[Alloc] # "idle", Answer(v),
         faults' = 0 => faults = 0,
         faults' = 0 /\ Requester \in {"part", "whole"} =>
           Past(req.pod, req.ctr) \/ MarkOf(v) \in marks',
         marks \subseteq marks', todo' = todo
  PROVE  JudgeInv'
<1>0. PICK p \in Pod, c \in Ctr : p = req.pod /\ c = req.ctr
  BY JudgeFacts
<1>1. /\ grant' = [grant EXCEPT ![p][c] = v] /\ pc'[Alloc] = "idle"
      /\ \A u \in Thread \ {Alloc} : pc'[u] = pc[u]
      /\ Alloc \in Thread
  BY <1>0, JudgeFacts DEF Answer, TypeOK
<1>2. DoomedPast'
  <2> SUFFICES ASSUME NEW u \in Thread, pc'[u] \in {"scan", "stop", "destroy", "unlink"},
                      NEW m \in todo[u]
               PROVE  Past(m.pod, m.ctr)'
    BY DEF DoomedPast
  <2>1. Past(m.pod, m.ctr) /\ m.pod \in Pod /\ m.ctr \in Ctr
    BY <1>1, JudgeFacts DEF JudgeInv, DoomedPast
  <2> QED BY <2>1, JudgeFacts
<1>3. AnsweredMarked'
  <2> SUFFICES ASSUME faults' = 0, NEW q \in Pod, NEW d \in Ctr, grant'[q][d] # Ungranted,
                      Ask[q][d] \in {"part", "whole"}, ~Past(q, d)'
               PROVE  HasMark(q, d)'
    BY DEF AnsweredMarked
  <2>1. ~Past(q, d)
    BY JudgeFacts
  <2>2. CASE q = p /\ d = c
    <3>1. MarkOf(v) \in marks'
      BY <1>0, <2>1, <2>2 DEF Requester
    <3>2. MarkOf(v).pod = q /\ MarkOf(v).ctr = d
      BY <1>0, <2>2 DEF MarkOf
    <3> QED BY <3>1, <3>2 DEF HasMark
  <2>3. CASE q # p \/ d # c
    <3>1. grant[q][d] # Ungranted
      BY <1>1, <2>3 DEF TypeOK
    <3> QED BY <2>1, <3>1 DEF JudgeInv, AnsweredMarked, HasMark
  <2> QED BY <2>2, <2>3
<1> QED
  BY <1>1, <1>2, <1>3, JudgeFacts DEF JudgeInv, ConfMarked

LEMMA AllocJudges ==
  ASSUME TypeOK, Next, LiveGrantInv, JudgeInv, AllocStep
  PROVE  JudgeInv'
<1>0. /\ pc \in [Thread -> {"idle"} \cup RefreshPcs \cup AllocPcs]
      /\ cur \in [Thread -> Vdev \cup {NoVdev}]
      /\ Alloc \in Thread /\ faults \in Nat
      /\ pc[Alloc] # "idle" => grant[req.pod][req.ctr] = Ungranted
      /\ \A v : MarkOf(v).pod = req.pod /\ MarkOf(v).ctr = req.ctr
  BY ThreadAssumption, BoundAssumption
  DEF TypeOK, LiveGrantInv, RecordFacts, ServedUnanswered, MarkOf
<1>1. CASE Refuse
  BY <1>0, <1>1, JudgeStep DEF Refuse
<1>2. CASE GrantWhole
  BY <1>0, <1>2, AnswerJudges DEF GrantWhole
<1>3. CASE GrantBare
  BY <1>0, <1>3, AnswerJudges DEF GrantBare
<1>4. ASSUME NEW v \in Vdev, CreateVDevice(v) PROVE JudgeInv'
  BY <1>0, <1>4, JudgeStep DEF CreateVDevice
<1>5. CASE WriteMark
  <2>1. /\ UNCHANGED <<grant, req, cur, todo>> /\ (faults' = 0 => faults = 0)
        /\ marks \subseteq marks'
        /\ \A u \in Thread \ {Alloc} : pc'[u] = pc[u]
        /\ \/ pc'[Alloc] = "conf" /\ MarkOf(cur[Alloc]) \in marks'
           \/ pc'[Alloc] = "rbstop"
    BY <1>0, <1>5 DEF WriteMark, MarkFails
  <2>2. MarkOf(cur'[Alloc]) = MarkOf(cur[Alloc])
    BY <2>1 DEF MarkOf
  <2> QED BY <1>0, <2>1, <2>2, JudgeStep
<1>6. CASE MountConf
  <2>1. pc[Alloc] = "conf" /\ UNCHANGED <<marks, todo, faults>>
    BY <1>6 DEF MountConf
  <2>2. CASE cur[Alloc] \in conf
    <3>1. Answer(cur[Alloc]) /\ cur[Alloc] \in Vdev
      BY <1>6, <2>1, <2>2 DEF MountConf, TypeOK
    <3>2. MarkOf(cur[Alloc]) \in marks \/ Past(req.pod, req.ctr)
      BY <2>1 DEF JudgeInv, ConfMarked
    <3> QED BY <2>1, <3>1, <3>2, AnswerJudges
  <2>3. CASE cur[Alloc] \notin conf
    BY <1>0, <1>6, <2>3, JudgeStep DEF MountConf
  <2> QED BY <2>2, <2>3
<1>7. CASE RollbackMark
  BY <1>0, <1>7, JudgeStep, UnlinkParts DEF RollbackMark
<1>8. CASE RollbackStop
  BY <1>0, <1>8, JudgeStep DEF RollbackStop
<1>9. CASE RollbackDestroy
  <2>1. faults' = 0 => faults = 0
    BY <1>0, <1>9 DEF RollbackDestroy, Destroyed, NotDestroyed
  <2> QED BY <1>0, <1>9, <2>1, JudgeStep DEF RollbackDestroy
<1> QED
  BY <1>1, <1>2, <1>3, <1>4, <1>5, <1>6, <1>7, <1>8, <1>9 DEF AllocStep

LEMMA EnvJudges ==
  ASSUME TypeOK, LiveGrantInv, JudgeInv, EnvStep
  PROVE  JudgeInv'
<1>0. Next /\ faults \in Nat /\ Alloc \in Thread
      /\ pc \in [Thread -> {"idle"} \cup RefreshPcs \cup AllocPcs]
  BY BoundAssumption, ThreadAssumption DEF Next, TypeOK
<1>1. ASSUME UNCHANGED <<grant, marks>>, faults' = 0 => faults = 0,
             \A t \in Thread : pc'[t] \in {"scan", "stop", "destroy", "unlink"} =>
               pc'[t] = pc[t] /\ todo'[t] = todo[t],
             pc'[Alloc] = "conf" => pc[Alloc] = "conf" /\ UNCHANGED <<cur, req>>
      PROVE  JudgeInv'
  <2>1. DoomedPast'
    <3> SUFFICES ASSUME NEW u \in Thread, pc'[u] \in {"scan", "stop", "destroy", "unlink"},
                        NEW m \in todo'[u]
                 PROVE  Past(m.pod, m.ctr)'
      BY DEF DoomedPast
    <3>1. Past(m.pod, m.ctr) /\ m.pod \in Pod /\ m.ctr \in Ctr
      BY <1>0, <1>1, JudgeFacts DEF JudgeInv, DoomedPast
    <3> QED BY <1>0, <3>1, JudgeFacts
  <2>2. ConfMarked'
    <3> SUFFICES ASSUME pc'[Alloc] = "conf", NEW p \in Pod, NEW c \in Ctr, p = req.pod, c = req.ctr,
                        MarkOf(cur[Alloc]) \notin marks
                 PROVE  Past(p, c)'
      BY <1>0, <1>1, JudgeFacts DEF ConfMarked, MarkOf, Past
    <3>1. Past(p, c)
      BY <1>1 DEF JudgeInv, ConfMarked
    <3> QED BY <1>0, <3>1, JudgeFacts
  <2>3. AnsweredMarked'
    <3>1. \A p \in Pod, c \in Ctr : Past(p, c) => Past(p, c)'
      BY <1>0, JudgeFacts
    <3> QED BY <1>1, <3>1 DEF JudgeInv, AnsweredMarked, HasMark
  <2> QED BY <1>0, <2>1, <2>2, <2>3, JudgeFacts DEF JudgeInv
<1>2. CASE RejectPod
  BY <1>0, <1>1, <1>2 DEF RejectPod
<1>3. ASSUME NEW p \in Pod, NEW c \in Ctr, KubeletAllocate(p, c) PROVE JudgeInv'
  BY <1>0, <1>1, <1>3 DEF KubeletAllocate
<1>4. CASE PluginCrash
  BY <1>0, <1>1, <1>4 DEF PluginCrash
<1>5. CASE UNCHANGED <<grant, marks, pc, todo, cur, req, faults>>
  BY <1>1, <1>5
<1> QED
  BY <1>2, <1>3, <1>4, <1>5
  DEF EnvStep, PodCreate, KillPod, ReportStatus, DeleteByUser, StartContainer,
      ExitContainer, CrashContainer, RestartContainer, SetRun

LEMMA JudgeAlways == Spec => []JudgeInv
<1>1. Init => JudgeInv
  BY ThreadAssumption
  DEF Init, JudgeInv, RunningFacts, DoomedPast, ConfMarked, AnsweredMarked
<1>2. TypeOK /\ LiveGrantInv /\ JudgeInv /\ [Next]_vars => JudgeInv'
  <2> SUFFICES ASSUME TypeOK, LiveGrantInv, JudgeInv, [Next]_vars PROVE JudgeInv'
    OBVIOUS
  <2>1. CASE UNCHANGED vars
    BY <2>1
    DEF JudgeInv, RunningFacts, DoomedPast, ConfMarked, AnsweredMarked, Past, HasMark, MarkOf
  <2> QED
    BY <2>1, PassJudges, AllocJudges, EnvJudges DEF Next
<1> QED
  BY <1>1, <1>2, TypeCorrect, LiveGrantAlways, PTL DEF Spec

\* A pass that knows every mark of a pod judges it.
LEMMA JudgedFailed ==
  ASSUME TypeOK, JudgeInv, Next, NEW t \in Thread, NEW p \in Pod,
         pc[t] = "list", pc'[t] = "scan", p \in victims'[t],
         {m \in marks : m.pod = p} \subseteq todo[t]
  PROVE  \/ \E c \in Asked(p) : grant[p][c] = Ungranted \/ Ask[p][c] = "bare"
         \/ faults > 0
<1>1. ListPods(t)
  <2>1. pc \in [Thread -> {"idle"} \cup RefreshPcs \cup AllocPcs]
    BY DEF TypeOK
  <2>2. ASSUME NEW u \in Thread, RefreshStep(u) PROVE ListPods(t)
    <3>1. u = t
      BY <2>1, <2>2
      DEF RefreshStep, ReadMarks, RefreshFails, ListPods, RemoveMark, StopVDevice,
          DestroyVDevice, RemoveConf, DeletePod, EndRefresh
    <3> QED
      BY <2>1, <2>2, <3>1
      DEF RefreshStep, ReadMarks, RefreshFails, RemoveMark, StopVDevice,
          DestroyVDevice, RemoveConf, DeletePod, EndRefresh, Idle, Resume
  <2>3. ~AllocStep
    BY <2>1
    DEF AllocStep, Refuse, GrantWhole, GrantBare, Answer, CreateVDevice, WriteMark, MountConf,
        RollbackMark, RollbackStop, RollbackDestroy
  <2>4. ~EnvStep
    BY <2>1
    DEF EnvStep, RejectPod, PluginCrash, KubeletAllocate, PodCreate, KillPod, ReportStatus,
        DeleteByUser, StartContainer, ExitContainer, CrashContainer, RestartContainer, SetRun
  <2> QED BY <2>2, <2>3, <2>4 DEF Next
<1> DEFINE kept == {m \in todo[t] : MarkFileStillNeeded(m.pod, m.ctr)}
<1>2. PodMissingRequiredMark(p, kept)
  <2>1. victims' = [victims EXCEPT ![t] = {q \in Pod : PodMissingRequiredMark(q, kept)}]
    BY <1>1 DEF ListPods
  <2> HIDE DEF kept
  <2> QED BY <2>1 DEF TypeOK
<1>3. PICK c \in Ctr : /\ phase[p] \in {"Running", "Terminal"}
                       /\ RequestsVirtualHCU(p, c) /\ MarkFileStillNeeded(p, c)
                       /\ \A m \in kept : m.pod # p \/ m.ctr # c
  BY <1>2 DEF PodMissingRequiredMark
<1>4. ~Past(p, c)
  BY <1>3 DEF JudgeInv, RunningFacts, Past, MarkFileStillNeeded
<1>5. ~HasMark(p, c)
  <2> SUFFICES ASSUME NEW m \in marks, m.pod = p, m.ctr = c PROVE FALSE
    BY DEF HasMark
  <2>1. m \in kept
    BY <1>3
  <2> QED BY <1>3, <2>1
<1>6. c \in Asked(p) /\ Ask[p][c] \in {"part", "whole", "bare"}
  BY <1>3 DEF RequestsVirtualHCU, Asked
<1>7. faults \in Nat
  BY BoundAssumption DEF TypeOK
<1> QED
  BY <1>4, <1>5, <1>6, <1>7 DEF JudgeInv, AnsweredMarked

\* Whatever kubelet restarts, a pass that read every mark of a pod judges it
\* only after a failed or bare answer, or a fault.
THEOREM JudgesOnlyFailed == Spec => OnlyFailedPodJudged
<1>1. TypeOK /\ JudgeInv /\ [Next]_vars =>
        [\A t \in Thread, p \in Pod :
           /\ pc[t] = "list" /\ pc'[t] = "scan" /\ p \in victims'[t]
           /\ {m \in marks : m.pod = p} \subseteq todo[t]
           => \/ \E c \in Asked(p) : grant[p][c] = Ungranted \/ Ask[p][c] = "bare"
              \/ faults > 0]_vars
  BY JudgedFailed
<1> QED
  BY <1>1, TypeCorrect, JudgeAlways, PTL DEF Spec, OnlyFailedPodJudged
-----------------------------------------------------------------------------
(* The refinement of VhcuPool, whatever passes overlap and mark files stay. *)

HIDE DEF Kinds, Asks, Phases, RunStates

\* What the pool's variables stand for.
Work(v) == IF v \in reissued THEN "astray" ELSE vh[v]
WorkMap == [v \in Vdev |-> Work(v)]
Uses(x, v) == InUse(x[1], x[2]) /\ Durable(x[2]) /\ grant[x[1]][x[2]] = v /\ v \notin reissued
Users(v) == {x \in Pod \X Ctr : Uses(x, v)}
UserMap == [v \in Vdev |-> Users(v)]
Due == {v \in Vdev : Awaited(v)}

PoolStep == Pool!Next \/ UNCHANGED Pool!vars

\* The steps of the pool, with its variables replaced.
LEMMA PoolSteps ==
  /\ Pool!Init <=> /\ WorkMap = [v \in Vdev |-> "free"] /\ UserMap = [v \in Vdev |-> {}]
                   /\ Due = {}
  /\ Pool!vars = <<WorkMap, UserMap, Due>>
  /\ \A v \in Vdev :
       /\ Work(v) = "free" /\ Users(v) = {} /\ UserMap' = UserMap /\ Due' = Due
       /\ WorkMap' = [WorkMap EXCEPT ![v] = IF v \in Due THEN "astray" ELSE "up"]
       => Pool!Next
  /\ \A v \in Vdev :
       Work(v) # "free" /\ Due' = Due \cup {v} /\ WorkMap' = WorkMap /\ UserMap' = UserMap
       => Pool!Next
  /\ \A v \in Vdev, x \in Pod \X Ctr :
       /\ Work(v) = "up" /\ v \in Due /\ Users(v) = {}
       /\ UserMap' = [UserMap EXCEPT ![v] = {x}] /\ WorkMap' = WorkMap /\ Due' = Due
       => Pool!Next
  /\ \A ended \in SUBSET (Pod \X Ctr), lost \in SUBSET Vdev :
       /\ UserMap' = [v \in Vdev |-> Users(v) \ ended] /\ Due' = Due \ lost
       /\ \A v \in lost : Users(v) \subseteq ended
       /\ WorkMap' = WorkMap
       => Pool!Next
  /\ \A v \in Vdev :
       /\ Users(v) = {} /\ Work(v) \in {"up", "stopped"} /\ UserMap' = UserMap /\ Due' = Due
       /\ WorkMap' \in {[WorkMap EXCEPT ![v] = "stopped"], [WorkMap EXCEPT ![v] = "free"]}
       => Pool!Next
<1>1. \A v \in Vdev : WorkMap[v] = Work(v) /\ UserMap[v] = Users(v)
  BY DEF WorkMap, UserMap
<1>2. Pool!vars = <<WorkMap, UserMap, Due>>
  BY DEF Pool!vars, WorkMap, Work, UserMap, Users, Uses, Due
<1>3. Pool!Init <=> /\ WorkMap = [v \in Vdev |-> "free"] /\ UserMap = [v \in Vdev |-> {}]
                    /\ Due = {}
  BY DEF Pool!Init, WorkMap, Work, UserMap, Users, Uses, Due
<1>4. ASSUME NEW v \in Vdev
      PROVE  /\ Pool!Cut(v) <=>
                  /\ WorkMap[v] = "free" /\ UserMap[v] = {} /\ UserMap' = UserMap /\ Due' = Due
                  /\ WorkMap' = [WorkMap EXCEPT ![v] = IF v \in Due THEN "astray" ELSE "up"]
             /\ Pool!Record(v) <=>
                  /\ WorkMap[v] # "free" /\ Due' = Due \cup {v}
                  /\ WorkMap' = WorkMap /\ UserMap' = UserMap
             /\ Pool!TakeBack(v) <=>
                  /\ UserMap[v] = {} /\ WorkMap[v] \in {"up", "stopped"}
                  /\ UserMap' = UserMap /\ Due' = Due
                  /\ WorkMap' \in {[WorkMap EXCEPT ![v] = "stopped"], [WorkMap EXCEPT ![v] = "free"]}
  BY DEF Pool!Cut, Pool!Record, Pool!TakeBack, WorkMap, Work, UserMap, Users, Uses, Due
<1>5. ASSUME NEW v \in Vdev, NEW x \in Pod \X Ctr
      PROVE  Pool!Give(v, x) <=>
                  /\ WorkMap[v] = "up" /\ v \in Due /\ UserMap[v] = {}
                  /\ UserMap' = [UserMap EXCEPT ![v] = {x}] /\ WorkMap' = WorkMap /\ Due' = Due
  BY DEF Pool!Give, WorkMap, Work, UserMap, Users, Uses, Due
<1>6. ASSUME NEW ended \in SUBSET (Pod \X Ctr), NEW lost \in SUBSET Vdev
      PROVE  Pool!End(ended, lost) <=>
                  /\ UserMap' = [v \in Vdev |-> UserMap[v] \ ended] /\ Due' = Due \ lost
                  /\ \A v \in lost : UserMap[v] \subseteq ended
                  /\ WorkMap' = WorkMap
  BY DEF Pool!End, WorkMap, Work, UserMap, Users, Uses, Due
<1>7. \A v \in Vdev : Pool!Cut(v) \/ Pool!Record(v) \/ Pool!TakeBack(v) => Pool!Next
  BY DEF Pool!Next
<1>8. \A v \in Vdev, x \in Pod \X Ctr : Pool!Give(v, x) => Pool!Next
  BY DEF Pool!Next
<1>9. \A ended \in SUBSET (Pod \X Ctr), lost \in SUBSET Vdev : Pool!End(ended, lost) => Pool!Next
  BY DEF Pool!Next
<1> HIDE DEF WorkMap, UserMap
<1>10. ASSUME NEW v \in Vdev
       PROVE  /\ /\ Work(v) = "free" /\ Users(v) = {} /\ UserMap' = UserMap /\ Due' = Due
                 /\ WorkMap' = [WorkMap EXCEPT ![v] = IF v \in Due THEN "astray" ELSE "up"]
                 => Pool!Next
              /\ /\ Work(v) # "free" /\ Due' = Due \cup {v}
                 /\ WorkMap' = WorkMap /\ UserMap' = UserMap
                 => Pool!Next
              /\ /\ Users(v) = {} /\ Work(v) \in {"up", "stopped"}
                 /\ UserMap' = UserMap /\ Due' = Due
                 /\ WorkMap' \in {[WorkMap EXCEPT ![v] = "stopped"], [WorkMap EXCEPT ![v] = "free"]}
                 => Pool!Next
  BY <1>1, <1>4, <1>7
<1>11. ASSUME NEW v \in Vdev, NEW x \in Pod \X Ctr,
              Work(v) = "up", v \in Due, Users(v) = {},
              UserMap' = [UserMap EXCEPT ![v] = {x}], WorkMap' = WorkMap, Due' = Due
       PROVE  Pool!Next
  BY <1>1, <1>5, <1>8, <1>11
<1>12. ASSUME NEW ended \in SUBSET (Pod \X Ctr), NEW lost \in SUBSET Vdev,
              UserMap' = [v \in Vdev |-> Users(v) \ ended], Due' = Due \ lost,
              \A v \in lost : Users(v) \subseteq ended, WorkMap' = WorkMap
       PROVE  Pool!Next
  <2>1. UserMap' = [v \in Vdev |-> UserMap[v] \ ended]
    BY <1>1, <1>12
  <2>2. \A v \in lost : UserMap[v] \subseteq ended
    BY <1>1, <1>12
  <2>3. Pool!End(ended, lost)
    BY <1>6, <1>12, <2>1, <2>2
  <2> QED BY <1>9, <2>3
<1> QED
  BY <1>2, <1>3, <1>10, <1>11, <1>12

LEMMA PoolStutters ==
  ASSUME WorkMap' = WorkMap, UserMap' = UserMap, Due' = Due
  PROVE  PoolStep
<1>1. Pool!vars = <<WorkMap, UserMap, Due>>
  BY PoolSteps
<1>2. Pool!vars' = Pool!vars
  BY DEF Pool!vars, WorkMap, Work, UserMap, Users, Uses, Due
<1> QED BY <1>2 DEF PoolStep

\* What is known before and after a step.
PoolBefore == SettledBefore /\ DurableMarked'

\* A step that gives nobody a vHCU and records none: containers end, and records
\* go, but not those of containers still in use.
LEMMA ContainersEnd ==
  ASSUME PoolBefore, vh' = vh, reissued' = reissued,
         \A v \in Vdev : Awaited(v)' => Awaited(v),
         \A p \in Pod, c \in Ctr : InUse(p, c)' /\ grant'[p][c] \in Vdev =>
           InUse(p, c) /\ grant'[p][c] = grant[p][c]
  PROVE  PoolStep
<1> DEFINE ended == {x \in Pod \X Ctr : ~(InUse(x[1], x[2])' /\ grant'[x[1]][x[2]] = grant[x[1]][x[2]])}
           lost == Due \ Due'
<1>1. Due' = Due \ lost /\ lost \in SUBSET Vdev /\ ended \in SUBSET (Pod \X Ctr)
  BY DEF Due
<1>2. WorkMap' = WorkMap
  BY DEF WorkMap, Work
<1>3. ASSUME NEW v \in Vdev PROVE Users(v)' = Users(v) \ ended
  <2>1. ASSUME NEW x \in Pod \X Ctr PROVE Uses(x, v)' <=> Uses(x, v) /\ x \notin ended
    <3>1. x[1] \in Pod /\ x[2] \in Ctr
      OBVIOUS
    <3> QED BY <3>1 DEF Uses, Durable
  <2> QED BY <2>1 DEF Users
<1>4. ASSUME NEW v \in lost PROVE Users(v) \subseteq ended
  <2> SUFFICES ASSUME NEW x \in Pod \X Ctr, Uses(x, v), x \notin ended PROVE FALSE
    BY DEF Users
  <2> DEFINE p == x[1]
             c == x[2]
  <2>1. p \in Pod /\ c \in Ctr /\ v \in Vdev /\ ~Awaited(v)'
    BY DEF Due
  <2>2. InUse(p, c)' /\ Durable(c) /\ grant'[p][c] = v
    BY DEF Uses
  <2>3. [pod |-> p, ctr |-> c, vdev |-> grant'[p][c]] \in marks'
    BY <2>1, <2>2 DEF PoolBefore, DurableMarked, Durable
  <2>4. [pod |-> p, ctr |-> c, vdev |-> grant'[p][c]].vdev = v
    BY <2>2
  <2>5. Awaited(v)'
    BY <2>3, <2>4 DEF Awaited, Marked
  <2> QED BY <2>1, <2>5
<1>5. UserMap' = [v \in Vdev |-> Users(v) \ ended]
  BY <1>3 DEF UserMap
<1> HIDE DEF ended, lost
<1> QED BY <1>1, <1>2, <1>4, <1>5, PoolSteps DEF PoolStep

\* A driver call that stops or destroys a vHCU nobody uses.
LEMMA TakenBack ==
  ASSUME PoolBefore, NEW w \in Vdev, UNCHANGED <<run, grant, reissued>>,
         \A v \in Vdev : Awaited(v)' <=> Awaited(v),
         \/ vh' = vh
         \/ vh' = [vh EXCEPT ![w] = "free"]
         \/ vh' = [vh EXCEPT ![w] = IF @ = "up" THEN "stopped" ELSE @],
         Settled(w) => \A p \in Pod, c \in Ctr : InUse(p, c) /\ Durable(c) => grant[p][c] # w
  PROVE  PoolStep
<1>1. vh \in [Vdev -> {"free", "up", "stopped"}]
  BY SettledParts DEF PoolBefore
<1>2. UserMap' = UserMap /\ Due' = Due
  BY DEF UserMap, Users, Uses, InUse, Due, Durable
<1>3. CASE WorkMap' = WorkMap
  BY <1>2, <1>3, PoolStutters
<1>4. CASE w \in reissued \/ vh[w] = "free" \/ vh' = vh
  <2>1. \A v \in Vdev : Work(v)' = Work(v)
    BY <1>1, <1>4 DEF Work
  <2> QED BY <1>3, <2>1 DEF WorkMap
<1>5. CASE w \notin reissued /\ vh[w] # "free" /\ vh' # vh
  <2>1. Users(w) = {}
    BY <1>5 DEF Users, Uses, Settled
  <2>2. Work(w) \in {"up", "stopped"}
    BY <1>1, <1>5 DEF Work
  <2>3. PICK s \in {"stopped", "free"} : vh' = [vh EXCEPT ![w] = s]
    BY <1>1, <1>5
  <2>4. WorkMap' = [WorkMap EXCEPT ![w] = s]
    <3>1. \A v \in Vdev : Work(v)' = IF v = w THEN s ELSE Work(v)
      BY <1>1, <1>5, <2>3 DEF Work
    <3> QED BY <3>1 DEF WorkMap
  <2> QED BY <1>2, <2>1, <2>2, <2>4, PoolSteps DEF PoolStep
<1> QED BY <1>4, <1>5

\* The driver hands out an index: of nobody's vHCU, or one that is still on record.
LEMMA CutOut ==
  ASSUME PoolBefore, NEW v \in Vdev, CreateVDevice(v)
  PROVE  PoolStep
<1>1. /\ vh[v] = "free" /\ vh' = [vh EXCEPT ![v] = "up"] /\ UNCHANGED <<grant, run, marks, todo>>
      /\ pc[Alloc] = "serve" /\ pc' = [pc EXCEPT ![Alloc] = "mark"]
      /\ cur' = [cur EXCEPT ![Alloc] = v]
      /\ reissued' = reissued \cup IF Awaited(v) THEN {v} ELSE {}
  BY DEF CreateVDevice
<1>2. /\ \A t \in Thread \ {Alloc} : pc'[t] = pc[t] /\ cur'[t] = cur[t]
      /\ pc'[Alloc] = "mark" /\ vh \in [Vdev -> {"free", "up", "stopped"}]
      /\ vh'[v] = "up" /\ \A w \in Vdev \ {v} : vh'[w] = vh[w]
  BY <1>1, SettledParts DEF PoolBefore
<1>3. Due' = Due
  BY <1>1, <1>2 DEF Due, Awaited, Marked
<1>4. Users(v) = {}
  BY <1>1, SettledParts DEF PoolBefore, SettledInv, UseSound, Users, Uses, Settled
<1>5. UserMap' = UserMap
  <2>1. ASSUME NEW w \in Vdev, NEW x \in Pod \X Ctr PROVE Uses(x, w)' <=> Uses(x, w)
    <3>1. CASE w = v
      <4>1. ~Uses(x, w)
        BY <1>4, <3>1 DEF Users
      <4> QED BY <1>1, <4>1 DEF Uses, InUse, Durable
    <3>2. CASE w # v
      BY <1>1, <3>2 DEF Uses, InUse, Durable
    <3> QED BY <3>1, <3>2
  <2> QED BY <2>1 DEF UserMap, Users
<1>6. CASE v \in reissued
  <2>1. \A w \in Vdev : Work(w)' = Work(w)
    BY <1>1, <1>2, <1>6 DEF Work
  <2>2. WorkMap' = WorkMap
    BY <2>1 DEF WorkMap
  <2> QED BY <1>3, <1>5, <2>2, PoolStutters
<1>7. CASE v \notin reissued
  <2>1. \A w \in Vdev : Work(w)' = IF w = v THEN (IF v \in Due THEN "astray" ELSE "up") ELSE Work(w)
    BY <1>1, <1>2, <1>7 DEF Work, Due
  <2>2. WorkMap' = [WorkMap EXCEPT ![v] = IF v \in Due THEN "astray" ELSE "up"]
    BY <2>1 DEF WorkMap
  <2>3. Work(v) = "free"
    BY <1>1, <1>7 DEF Work
  <2> QED BY <1>3, <1>4, <1>5, <2>2, <2>3, PoolSteps DEF PoolStep
<1> QED BY <1>6, <1>7

\* It is put on record while it exists, also by a write that fails half-way.
LEMMA Recorded ==
  ASSUME PoolBefore, WriteMark
  PROVE  PoolStep
<1>0. /\ pc[Alloc] = "mark" /\ UNCHANGED <<run, grant, vh, reissued, todo, cur>>
      /\ cur[Alloc] \in Vdev
  BY SettledParts DEF WriteMark, PoolBefore
<1>1. PICK u \in Vdev : u = cur[Alloc]
  BY <1>0
<1>2. marks' \in {marks, marks \cup {MarkOf(u)}} /\ MarkOf(u).vdev = u
  BY <1>1 DEF WriteMark, MarkFails, MarkOf
<1>3. \A t \in Thread : pc'[t] = pc[t] \/ {pc'[t], pc[t]} \subseteq {"mark", "conf", "rbstop"}
  BY <1>0, SettledParts DEF WriteMark, PoolBefore
<1>4. WorkMap' = WorkMap /\ UserMap' = UserMap
  BY <1>0 DEF WorkMap, Work, UserMap, Users, Uses, InUse, Durable
<1>5. \A t \in Thread, v \in Vdev :
        (pc'[t] \in {"stop", "destroy", "unlink"} /\ cur'[t] = v) <=>
        (pc[t] \in {"stop", "destroy", "unlink"} /\ cur[t] = v)
  BY <1>0, <1>3
<1>6. CASE marks' = marks
  <2>1. \A v \in Vdev : Awaited(v)' <=> Awaited(v)
    BY <1>0, <1>5, <1>6 DEF Awaited, Marked
  <2>2. Due' = Due
    BY <2>1 DEF Due
  <2> QED BY <1>4, <2>2, PoolStutters
<1>7. CASE marks' = marks \cup {MarkOf(u)}
  <2>1. \A v \in Vdev : Awaited(v)' <=> Awaited(v) \/ v = u
    BY <1>0, <1>2, <1>5, <1>7 DEF Awaited, Marked
  <2>2. Due' = Due \cup {u}
    BY <2>1 DEF Due
  <2>3. Work(u) # "free"
    BY <1>0, <1>1, SettledParts DEF Work, PoolBefore, SettledInv, NewUnknown, Settled
  <2> QED BY <1>4, <2>2, <2>3, PoolSteps DEF PoolStep
<1> QED BY <1>2, <1>6, <1>7

\* It is given to the container Allocate serves, unless that has ended meanwhile.
LEMMA GivenOnce ==
  ASSUME PoolBefore, MountConf
  PROVE  PoolStep
<1>0. /\ cur[Alloc] \in Vdev /\ req.pod \in Pod /\ req.ctr \in Ctr
      /\ pc[Alloc] = "conf" /\ UNCHANGED <<run, vh, reissued, marks, todo>> /\ Alloc \in Thread
      /\ grant \in [Pod -> [Ctr -> Vdev \cup {NoVdev, Ungranted}]]
      /\ grant[req.pod][req.ctr] = Ungranted /\ Ungranted \notin Vdev
  BY RecordParts, SettledParts
  DEF MountConf, PoolBefore, SettledBefore, LiveGrantInv, RecordFacts, ServedUnanswered
<1>1. /\ \A t \in Thread \ {Alloc} : pc'[t] = pc[t] /\ cur'[t] = cur[t]
      /\ pc'[Alloc] \in {"idle", "unmark"}
  BY SettledParts DEF MountConf, Answer, PoolBefore
<1>2. \A v \in Vdev : Awaited(v)' <=> Awaited(v)
  BY <1>0, <1>1 DEF Awaited, Marked
<1>3. WorkMap' = WorkMap /\ Due' = Due
  BY <1>0, <1>2 DEF WorkMap, Work, Due
<1>4. CASE cur[Alloc] \notin conf
  <2>1. UNCHANGED grant
    BY <1>4 DEF MountConf
  <2> QED BY <1>0, <1>2, <2>1, ContainersEnd DEF InUse
<1>5. ASSUME NEW u \in Vdev, NEW p \in Pod, NEW c \in Ctr,
             u = cur[Alloc], p = req.pod, c = req.ctr, u \in conf
      PROVE  PoolStep
  <2>1. grant' = [grant EXCEPT ![p][c] = u]
    BY <1>5 DEF MountConf, Answer
  <2>2. /\ grant'[p][c] = u /\ grant[p][c] = Ungranted
        /\ \A q \in Pod, d \in Ctr : q # p \/ d # c => grant'[q][d] = grant[q][d]
    BY <1>0, <1>5, <2>1
  <2>3. ASSUME NEW x \in Pod \X Ctr, NEW v \in Vdev, x # <<p, c>> \/ v # u
        PROVE  Uses(x, v)' <=> Uses(x, v)
    <3>1. x[1] \in Pod /\ x[2] \in Ctr /\ (x = <<p, c>> <=> x[1] = p /\ x[2] = c)
      OBVIOUS
    <3>2. CASE x = <<p, c>>
      BY <1>0, <2>2, <2>3, <3>1, <3>2 DEF Uses, InUse
    <3>3. CASE x # <<p, c>>
      BY <1>0, <2>2, <3>1, <3>3 DEF Uses, InUse, Durable
    <3> QED BY <3>2, <3>3
  <2>4. ~Uses(<<p, c>>, u)
    BY <2>2 DEF Uses, InUse
  <2>5. CASE u \in reissued \/ Over(p, c)
    <3>1. ~Uses(<<p, c>>, u)'
      BY <1>0, <2>5 DEF Uses, InUse, Over, Durable
    <3>2. \A x \in Pod \X Ctr, v \in Vdev : Uses(x, v)' <=> Uses(x, v)
      BY <2>3, <2>4, <3>1
    <3>3. UserMap' = UserMap
      BY <3>2 DEF UserMap, Users
    <3> QED BY <1>3, <3>3, PoolStutters
  <2>6. CASE u \notin reissued /\ ~Over(p, c)
    <3>1. Settled(u) /\ Work(u) = "up"
      BY <1>0, <1>5, <2>6, SettledParts DEF PoolBefore, SettledInv, MountSound, Settled, Work
    <3>2. u \in Due
      <4>1. MarkOf(u) \in marks /\ MarkOf(u).vdev = u
        BY <1>0, <1>5, <2>6, SettledParts
        DEF PoolBefore, LiveGrantInv, RecordFacts, MarkedOrEnded, MarkOf
      <4> QED BY <4>1 DEF Due, Awaited, Marked
    <3>3. Users(u) = {}
      <4>1. \A q \in Pod, d \in Ctr : InUse(q, d) /\ Durable(d) => grant[q][d] # u
        BY <1>0, <1>5, <3>1, HeldUnused DEF PoolBefore, AllocHolds
      <4> QED BY <4>1 DEF Users, Uses
    <3>4. Uses(<<p, c>>, u)'
      BY <1>0, <2>2, <2>6, VdevAssumption DEF Uses, InUse, Over, Durable
    <3>5. \A x \in Pod \X Ctr : Uses(x, u)' <=> x = <<p, c>>
      BY <2>3, <3>3, <3>4 DEF Users
    <3>6. \A v \in Vdev : Users(v)' = IF v = u THEN {<<p, c>>} ELSE Users(v)
      BY <2>3, <3>5 DEF Users
    <3>7. UserMap' = [UserMap EXCEPT ![u] = {<<p, c>>}]
      BY <3>6 DEF UserMap
    <3>8. <<p, c>> \in Pod \X Ctr
      OBVIOUS
    <3>9. Pool!Next
      BY <1>3, <3>1, <3>2, <3>3, <3>7, <3>8, PoolSteps
    <3> QED BY <3>9 DEF PoolStep
  <2> QED BY <2>5, <2>6
<1> QED BY <1>0, <1>4, <1>5

\* The steps of passes.
LEMMA PassPools ==
  ASSUME PoolBefore, NEW t \in Thread, RefreshStep(t)
  PROVE  PoolStep
<1>0. SettledBefore /\ NoVdev \notin Vdev
      /\ pc \in [Thread -> {"idle"} \cup RefreshPcs \cup AllocPcs]
      /\ cur \in [Thread -> Vdev \cup {NoVdev}] /\ todo \in [Thread -> SUBSET Mark]
  BY SettledParts DEF PoolBefore
<1>1. CASE StopVDevice(t) \/ DestroyVDevice(t)
  <2>1. /\ pc[t] \in {"stop", "destroy"} /\ pc' = [pc EXCEPT ![t] = pc'[t]]
        /\ pc'[t] \in {"destroy", "unlink"}
        /\ UNCHANGED <<run, grant, reissued, marks, todo, cur>>
    BY <1>0, <1>1 DEF StopVDevice, DestroyVDevice
  <2>2. PICK w \in Vdev : w = cur[t]
    BY <1>0, <2>1, SettledParts
  <2>3. \/ vh' = vh
        \/ vh' = [vh EXCEPT ![w] = "free"]
        \/ vh' = [vh EXCEPT ![w] = IF @ = "up" THEN "stopped" ELSE @]
    BY <1>1, <2>2 DEF StopVDevice, DestroyVDevice, Destroyed, NotDestroyed
  <2>4. \A v \in Vdev : Awaited(v)' <=> Awaited(v)
    <3>1. \A u \in Thread : pc'[u] \in {"stop", "destroy", "unlink"} <=>
                            pc[u] \in {"stop", "destroy", "unlink"}
      BY <1>0, <2>1
    <3> QED BY <2>1, <3>1 DEF Awaited, Marked
  <2>5. Settled(w) => \A p \in Pod, c \in Ctr : InUse(p, c) /\ Durable(c) => grant[p][c] # w
    BY <1>0, <2>1, <2>2, TornUnused DEF Tearing
  <2> QED BY <2>1, <2>3, <2>4, <2>5, TakenBack
<1>2. ASSUME UNCHANGED <<grant, vh, reissued>>, marks' \subseteq marks,
             \A u \in Thread \ {t} : pc'[u] = pc[u] /\ cur'[u] = cur[u] /\ todo'[u] = todo[u],
             todo'[t] \subseteq todo[t] \cup marks,
             pc'[t] \in {"stop", "destroy", "unlink"} => \E m \in todo[t] : m.vdev = cur'[t]
      PROVE  PoolStep
  <2>1. ASSUME NEW v \in Vdev, Awaited(v)' PROVE Awaited(v)
    <3>1. CASE Marked(v)'
      BY <1>2, <3>1 DEF Awaited, Marked
    <3>2. ASSUME NEW u \in Thread, NEW m \in todo'[u], m.vdev = v PROVE Awaited(v)
      <4>1. m \in todo[u] \/ m \in marks
        BY <1>2
      <4> QED BY <3>2, <4>1 DEF Awaited, Marked
    <3>3. ASSUME NEW u \in Thread, pc'[u] \in {"stop", "destroy", "unlink"}, cur'[u] = v
          PROVE  Awaited(v)
      BY <1>2, <3>3 DEF Awaited
    <3> QED BY <2>1, <3>1, <3>2, <3>3 DEF Awaited
  <2>2. \A p \in Pod, c \in Ctr : InUse(p, c)' => InUse(p, c)
    BY <1>0, <1>2, DoneStays DEF SettledBefore, InUse
  <2> QED BY <1>2, <2>1, <2>2, ContainersEnd
<1>3. CASE ReadMarks(t)
  BY <1>0, <1>2, <1>3 DEF ReadMarks
<1>4. CASE RefreshFails(t)
  BY <1>0, <1>2, <1>4 DEF RefreshFails, Resume
<1>5. CASE ListPods(t)
  BY <1>0, <1>2, <1>5 DEF ListPods
<1>6. ASSUME NEW m \in todo[t], RemoveMark(t, m) PROVE PoolStep
  BY <1>0, <1>2, <1>6, UnlinkParts DEF RemoveMark, SettledBefore
<1>7. CASE RemoveConf(t)
  BY <1>0, <1>2, <1>7 DEF RemoveConf
<1>8. ASSUME NEW p \in victims[t], DeletePod(t, p) PROVE PoolStep
  BY <1>0, <1>2, <1>8 DEF DeletePod
<1>9. CASE EndRefresh(t)
  BY <1>0, <1>2, <1>9 DEF EndRefresh, Resume
<1> QED
  BY <1>1, <1>3, <1>4, <1>5, <1>6, <1>7, <1>8, <1>9 DEF RefreshStep

\* Those of Allocate.
LEMMA CallPools ==
  ASSUME PoolBefore, AllocStep
  PROVE  PoolStep
<1>0. SettledBefore /\ NoVdev \notin Vdev /\ Alloc \in Thread
      /\ pc \in [Thread -> {"idle"} \cup RefreshPcs \cup AllocPcs]
      /\ cur \in [Thread -> Vdev \cup {NoVdev}]
      /\ grant \in [Pod -> [Ctr -> Vdev \cup {NoVdev, Ungranted}]]
  BY SettledParts DEF PoolBefore
<1>1. ASSUME UNCHANGED <<vh, reissued, todo>>,
             \A m \in marks' : m \in marks \/ m.vdev \notin Vdev,
             \A t \in Thread \ {Alloc} : pc'[t] = pc[t] /\ cur'[t] = cur[t],
             pc'[Alloc] \notin {"stop", "destroy", "unlink"}
      PROVE  \A v \in Vdev : Awaited(v)' => Awaited(v)
  <2>1. \A t \in Thread, v \in Vdev :
          pc'[t] \in {"stop", "destroy", "unlink"} /\ cur'[t] = v =>
          pc[t] \in {"stop", "destroy", "unlink"} /\ cur[t] = v
    BY <1>1
  <2> QED BY <1>1, <2>1 DEF Awaited, Marked
<1>2. CASE Refuse \/ GrantWhole \/ GrantBare
  <2>1. /\ UNCHANGED <<run, vh, reissued, cur, todo>>
        /\ pc'[Alloc] \in {"reject", "idle"} /\ \A t \in Thread \ {Alloc} : pc'[t] = pc[t]
        /\ marks' \subseteq marks \cup {MarkOf(NoVdev)}
    BY <1>0, <1>2 DEF Refuse, GrantWhole, GrantBare, Answer
  <2>2. \A m \in marks' : m \in marks \/ m.vdev \notin Vdev
    BY <1>0, <2>1 DEF MarkOf
  <2>3. grant' = grant \/ (grant' = [grant EXCEPT ![req.pod][req.ctr] = NoVdev] /\ req \in Request)
    BY <1>0, <1>2, RecordParts DEF Refuse, GrantWhole, GrantBare, Answer, SettledBefore
  <2>4. \A p \in Pod, c \in Ctr : InUse(p, c)' /\ grant'[p][c] \in Vdev =>
          InUse(p, c) /\ grant'[p][c] = grant[p][c]
    BY <1>0, <2>1, <2>3 DEF InUse
  <2>5. \A v \in Vdev : Awaited(v)' => Awaited(v)
    BY <1>1, <2>1, <2>2
  <2> QED BY <2>1, <2>4, <2>5, ContainersEnd
<1>3. CASE RollbackMark
  <2>1. /\ UNCHANGED <<run, grant, vh, reissued, cur, todo>> /\ marks' \subseteq marks
        /\ pc'[Alloc] = "rbstop" /\ \A t \in Thread \ {Alloc} : pc'[t] = pc[t]
    BY <1>0, <1>3, UnlinkParts DEF RollbackMark, SettledBefore
  <2>2. \A v \in Vdev : Awaited(v)' => Awaited(v)
    BY <1>1, <2>1
  <2> QED BY <2>1, <2>2, ContainersEnd DEF InUse
<1>4. CASE RollbackStop \/ RollbackDestroy
  <2>1. /\ pc[Alloc] \in {"rbstop", "rbdestroy"} /\ pc'[Alloc] \in {"rbdestroy", "reject"}
        /\ UNCHANGED <<run, grant, reissued, marks, todo>>
        /\ \A t \in Thread \ {Alloc} : pc'[t] = pc[t] /\ cur'[t] = cur[t]
    BY <1>0, <1>4 DEF RollbackStop, RollbackDestroy
  <2>2. PICK w \in Vdev : w = cur[Alloc]
    BY <1>0, <2>1, SettledParts
  <2>3. \/ vh' = vh
        \/ vh' = [vh EXCEPT ![w] = "free"]
        \/ vh' = [vh EXCEPT ![w] = IF @ = "up" THEN "stopped" ELSE @]
    BY <1>4, <2>2 DEF RollbackStop, RollbackDestroy, Destroyed, NotDestroyed
  <2>4. \A v \in Vdev : Awaited(v)' <=> Awaited(v)
    <3>1. \A t \in Thread, v \in Vdev :
            (pc'[t] \in {"stop", "destroy", "unlink"} /\ cur'[t] = v) <=>
            (pc[t] \in {"stop", "destroy", "unlink"} /\ cur[t] = v)
      BY <2>1
    <3> QED BY <2>1, <3>1 DEF Awaited, Marked
  <2>5. Settled(w) => \A p \in Pod, c \in Ctr : InUse(p, c) /\ Durable(c) => grant[p][c] # w
    BY <1>0, <2>1, <2>2, HeldUnused DEF AllocHolds
  <2> QED BY <2>1, <2>3, <2>4, <2>5, TakenBack
<1> QED
  BY <1>2, <1>3, <1>4, CutOut, Recorded, GivenOnce DEF AllocStep

\* Those of kubelet, users and a crash.
LEMMA EnvPools ==
  ASSUME PoolBefore, EnvStep
  PROVE  PoolStep
<1>0. /\ Alloc \in Thread /\ pc \in [Thread -> {"idle"} \cup RefreshPcs \cup AllocPcs]
      /\ TypeOK /\ PodStep
  BY SettledParts DEF PoolBefore, SettledBefore
<1>1. ASSUME UNCHANGED <<grant, vh, reissued, marks>>,
             \A t \in Thread : todo'[t] \subseteq todo[t],
             \A t \in Thread : pc'[t] \in {"stop", "destroy", "unlink"} =>
               pc'[t] = pc[t] /\ cur'[t] = cur[t]
      PROVE  PoolStep
  <2>1. \A v \in Vdev : Awaited(v)' => Awaited(v)
    BY <1>1 DEF Awaited, Marked
  <2>2. \A p \in Pod, c \in Ctr : InUse(p, c)' => InUse(p, c)
    BY <1>0, <1>1, DoneStays DEF InUse
  <2> QED BY <1>1, <2>1, <2>2, ContainersEnd
<1>2. CASE RejectPod
  BY <1>0, <1>1, <1>2 DEF RejectPod
<1>3. ASSUME NEW p \in Pod, NEW c \in Ctr, KubeletAllocate(p, c) PROVE PoolStep
  BY <1>0, <1>1, <1>3 DEF KubeletAllocate
<1>4. CASE PluginCrash
  BY <1>0, <1>1, <1>4 DEF PluginCrash
<1>5. CASE UNCHANGED <<grant, marks, driverVars, pc, todo, cur, req>>
  BY <1>1, <1>5
<1> QED
  BY <1>2, <1>3, <1>4, <1>5
  DEF EnvStep, PodCreate, KillPod, ReportStatus, DeleteByUser, StartContainer,
      ExitContainer, CrashContainer, RestartContainer, SetRun

\* Any step.
LEMMA EveryPoolStep ==
  ASSUME TypeOK, LiveGrantInv, SettledInv, DurableMarked', [Next]_vars
  PROVE  PoolStep
<1>1. CASE UNCHANGED vars
  <2>1. WorkMap' = WorkMap /\ UserMap' = UserMap /\ Due' = Due
    BY <1>1 DEF WorkMap, Work, UserMap, Users, Uses, InUse, Due, Awaited, Marked, Durable
  <2> QED BY <2>1, PoolStutters
<1>2. CASE Next
  <2>1. PoolBefore
    BY <1>2, EveryPodStep DEF PoolBefore, SettledBefore
  <2> QED BY <1>2, <2>1, PassPools, CallPools, EnvPools DEF Next
<1> QED BY <1>1, <1>2

\* However many passes overlap, calls fail and the plugin crashes, and whatever
\* kubelet restarts, marks, passes, Allocate and rollbacks implement a pool: each
\* vHCU goes to one container, is on record while it is used, and is stopped or
\* destroyed only after that container ended; an index that is handed out while
\* a record of its former bearer is left is lost to the pool.
THEOREM ImplementsPool == Spec => PoolSpec
<1>1. Init => Pool!Init
  <2> SUFFICES ASSUME Init PROVE Pool!Init
    OBVIOUS
  <2>1. /\ \A v \in Vdev : Work(v) = "free" /\ Users(v) = {}
        /\ Due = {}
    BY DEF Init, Work, Users, Uses, InUse, Due, Awaited, Marked
  <2> QED BY <2>1, PoolSteps DEF WorkMap, UserMap
<1>2. LiveGrantInv' => DurableMarked'
  BY DEF LiveGrantInv
<1>3. TypeOK /\ LiveGrantInv /\ SettledInv /\ LiveGrantInv' /\ [Next]_vars
        => [Pool!Next]_(Pool!vars)
  <2> SUFFICES ASSUME TypeOK, LiveGrantInv, SettledInv, LiveGrantInv', [Next]_vars
               PROVE  [Pool!Next]_(Pool!vars)
    OBVIOUS
  <2>1. PoolStep
    BY <1>2, EveryPoolStep
  <2> QED BY <2>1 DEF PoolStep
<1> QED
  BY <1>1, <1>3, TypeCorrect, LiveGrantAlways, SettledAlways, PTL DEF Spec, PoolSpec, Pool!Spec
=============================================================================
