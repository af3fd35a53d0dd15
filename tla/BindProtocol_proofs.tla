------------------------ MODULE BindProtocol_proofs ------------------------
(***************************************************************************)
(* Proofs that an Allocate call gives a container the devices the          *)
(* scheduler chose for it, that the bind phase and the node lock are       *)
(* settled at the right moment, for any pods, containers, handlers and     *)
(* faults.  How segments find their containers is PodDevices_proofs'; the  *)
(* variables of AnnotationServer that come with it play no part here.      *)
(***************************************************************************)
EXTENDS BindProtocol, PodDevices_proofs

-----------------------------------------------------------------------------
(* The annotation of a pod                                                 *)

LEMMA CtrFacts ==
  /\ N \in Nat \ {0} /\ Ctr \in SUBSET Int /\ IsFiniteSet(Ctr) /\ Cardinality(Ctr) = N
  /\ \A p \in Pod : /\ Chosen[p] \in ListOfLists /\ DOMAIN Chosen[p] = Ctr /\ Len(Chosen[p]) = N
                    /\ \A c \in Ctr : Chosen[p][c] \in Seq(Dev)
                    /\ NonEmpty(Chosen[p]) \subseteq Ctr /\ NonEmpty(Chosen[p]) # {}
                    /\ Requesting(p) \subseteq Ctr /\ NonEmpty(Chosen[p]) \subseteq Requesting(p)
<1>1. N \in Nat \ {0}
  BY BindAssumption
<1>2. IsFiniteSet(Ctr) /\ Cardinality(Ctr) = N
  BY <1>1, FS_Interval DEF Ctr
<1>3. \A p \in Pod : /\ Chosen[p] \in [Ctr -> Seq(Dev)] /\ Other[p] \subseteq Ctr
                    /\ NonEmpty(Chosen[p]) # {}
  BY BindAssumption
<1>4. \A p \in Pod : Chosen[p] \in ListOfLists /\ DOMAIN Chosen[p] = Ctr /\ Len(Chosen[p]) = N
  BY <1>1, <1>3 DEF Ctr, ListOfLists
<1> QED BY <1>1, <1>2, <1>3, <1>4 DEF Requesting, NonEmpty, Ctr

\* What the scheduler writes is a list of lists.
LEMMA KeptType ==
  ASSUME NEW p \in Pod, NEW kept \in SUBSET Ctr
  PROVE  Kept(Chosen[p], kept \cup NonEmpty(Chosen[p])) \in ListOfLists
<1>1. kept \cup NonEmpty(Chosen[p]) \in SUBSET (1 .. Len(Chosen[p])) /\ Chosen[p] \in ListOfLists
  BY CtrFacts DEF Ctr
<1> QED BY <1>1, KeptPlaces

\* What is left for the containers outside A.
Left(p, A) == Remaining(Chosen[p], A)

LEMMA LeftFacts ==
  ASSUME NEW p \in Pod, NEW A
  PROVE  /\ Left(p, A) \in ListOfLists /\ Len(Left(p, A)) = N /\ DOMAIN Left(p, A) = Ctr
         /\ NonEmpty(Left(p, A)) = NonEmpty(Chosen[p]) \ A
         /\ Left(p, {}) = Chosen[p]
BY CtrFacts, RemainingFacts DEF Left

\* An annotation that holds the devices of all containers but those in A.
Layout(pd, p, A) == LaidOut(pd, Chosen[p], A)

\* What the scheduler writes is one, before any call.
LEMMA KeptLayout ==
  ASSUME NEW p \in Pod, NEW kept \in SUBSET Ctr
  PROVE  Layout(Kept(Chosen[p], kept \cup NonEmpty(Chosen[p])), p, {})
<1>1. kept \cup NonEmpty(Chosen[p]) \in SUBSET (1 .. Len(Chosen[p]))
  BY CtrFacts DEF Ctr
<1> QED BY <1>1 DEF Layout, LaidOut

LEMMA LayoutExpands ==
  ASSUME NEW p \in Pod, NEW A, NEW pd, Layout(pd, p, A), Alignable(pd, N, Requesting(p))
  PROVE  Expand(pd, N, Requesting(p)) = Left(p, A)
<1>1. /\ Chosen[p] \in ListOfLists /\ Len(Chosen[p]) = N
      /\ Requesting(p) \in SUBSET (1 .. Len(Chosen[p])) /\ NonEmpty(Chosen[p]) \subseteq Requesting(p)
  BY CtrFacts DEF Ctr
<1> QED BY <1>1, LaidOutExpands DEF Layout, Left

\* The first container outside A is the next to be served, and blanked.
LEMMA NextIsFirst ==
  ASSUME NEW p \in Pod, NEW A, NEW c \in NonEmpty(Chosen[p]),
         \A d : d \in A <=> d \in NonEmpty(Chosen[p]) /\ d < c
  PROVE  /\ NonEmpty(Left(p, A)) # {} /\ NextContainer(Left(p, A)) = c
         /\ Left(p, A)[c] = Chosen[p][c]
         /\ EraseFirstDeviceSegment(Left(p, A)) = Left(p, A \cup {c})
<1>1. Chosen[p] \in ListOfLists /\ NonEmpty(Chosen[p]) \in SUBSET Int
  BY CtrFacts
<1>2. c \in NonEmpty(Chosen[p]) \ A /\ \A d \in NonEmpty(Chosen[p]) \ A : c <= d
  <2>1. c \in Int /\ \A d \in NonEmpty(Chosen[p]) \ A : d \in Int /\ ~(d < c)
    BY <1>1
  <2> QED BY <2>1
<1> QED BY <1>1, <1>2, NextServed DEF Left

-----------------------------------------------------------------------------
(* Types                                                                   *)

Objects == {"absent", "created", "bound", "rejected", "gone"}
Phases == {"none", "allocating", "success", "failed"}
Calls == [pod : Pod, ctr : Ctr, by : Handler]
PastErase == {"create", "check", "successphase", "successlock", "return"}

Shapes ==
  /\ obj \in [Pod -> Objects]
  /\ anno \in [Pod -> ListOfLists]
  /\ bind \in [Pod -> Phases]
  /\ lock \in Name \cup {NoName}
  /\ answer \in [Pod -> [Ctr -> Seq(Dev) \cup {NoAnswer}]]
  /\ call \in Calls \cup {NoCall}
  /\ pc \in [Handler -> HandlerPcs]
  /\ want \in [Handler -> Nat]
  /\ mine \in [Handler -> Pod \cup {NoPod}]
  /\ copy \in [Handler -> ListOfLists]
  /\ tries \in [Handler -> 0 .. MaxTries]
  /\ faults \in 0 .. MaxFaults

\* What a handler knows by the time it is somewhere.
Knows(h) ==
  /\ pc[h] \notin {"idle", "pending", "error"} => mine[h] \in Pod
  /\ pc[h] = "pending" => tries[h] < MaxTries
  /\ pc[h] \in PastErase => Serviceable(h)

IType == Shapes /\ \A h \in Handler : Knows(h)

LEMMA ITypeImplies == IType => TypeOK
  BY DEF IType, Shapes, Knows, TypeOK, ListOfLists, Objects, Phases, Calls, PastErase

\* A handler forgets nothing while another one moves.
LEMMA KnowsKept ==
  ASSUME NEW h, Knows(h), pc'[h] = pc[h], mine'[h] = mine[h], copy'[h] = copy[h],
         want'[h] = want[h], tries'[h] = tries[h]
  PROVE  Knows(h)'
  BY DEF Knows, Serviceable, Served, Segments

\* What a handler has to serve is one of the segments of its copy.
LEMMA ServedType ==
  ASSUME Shapes, NEW h \in Handler, mine[h] \in Pod, Serviceable(h)
  PROVE  /\ Segments(h) \in ListOfLists /\ Served(h) \in Seq(Dev)
         /\ EraseFirstDeviceSegment(Segments(h)) \in ListOfLists
<1>1. Segments(h) \in ListOfLists /\ NonEmpty(Segments(h)) # {}
  <2>1. N \in Nat /\ Requesting(mine[h]) \in SUBSET (1 .. N) /\ copy[h] \in ListOfLists
    BY CtrFacts DEF Ctr, Shapes
  <2> QED BY <2>1, ExpandType DEF Serviceable, Segments
<1>2. NextContainer(Segments(h)) \in NonEmpty(Segments(h))
  BY <1>1, ListFacts, MinExists DEF NextContainer
<1>3. Served(h) \in Seq(Dev)
  BY <1>1, <1>2 DEF Served, NonEmpty, ListOfLists
<1> QED BY <1>1, <1>3, EraseType

LEMMA InitType == Init => IType
<1> SUFFICES ASSUME Init PROVE IType
  OBVIOUS
<1>1. <<>> \in ListOfLists
  BY DEF ListOfLists
<1>2. MaxTries \in Nat /\ MaxFaults \in Nat
  BY BindAssumption
<1> QED BY <1>1, <1>2 DEF Init, IType, Shapes, Knows, Objects, Phases, HandlerPcs, PastErase

\* Steps of the scheduler, users and kubelet.
LEMMA ClusterType ==
  ASSUME IType, NEW p \in Pod, CreatePod(p) \/ Schedule(p) \/ Bind(p) \/ DeletePod(p)
  PROVE  IType'
<1>1. \A h \in Handler : Knows(h)'
  <2> SUFFICES ASSUME NEW h \in Handler PROVE Knows(h)'
    OBVIOUS
  <2>1. UNCHANGED <<pc, mine, copy, want, tries>>
    BY DEF CreatePod, Schedule, Bind, DeletePod, local
  <2> QED BY <2>1, KnowsKept DEF IType
<1>2. CASE CreatePod(p) \/ DeletePod(p)
  BY <1>1, <1>2 DEF CreatePod, DeletePod, IType, Shapes, Objects, local
<1>3. CASE Bind(p)
  <2>1. NameOf[p] \in Name
    BY BindAssumption
  <2> QED BY <1>1, <1>3, <2>1 DEF Bind, IType, Shapes, Objects, Phases, local
<1>4. CASE Schedule(p)
  <2>1. PICK kept \in SUBSET Ctr :
          anno' = [anno EXCEPT ![p] = Kept(Chosen[p], kept \cup NonEmpty(Chosen[p]))]
    BY <1>4 DEF Schedule
  <2>2. Kept(Chosen[p], kept \cup NonEmpty(Chosen[p])) \in ListOfLists
    BY KeptType
  <2> QED BY <1>1, <1>4, <2>1, <2>2 DEF Schedule, IType, Shapes, local
<1> QED BY <1>2, <1>3, <1>4

LEMMA CallType ==
  ASSUME IType, NEW p \in Pod, NEW c \in Ctr, NEW h \in Handler, Call(p, c, h)
  PROVE  IType'
<1>1. Chosen[p][c] \in Seq(Dev) /\ MaxTries \in Nat \ {0}
  BY CtrFacts, BindAssumption
<1>2. Shapes'
  BY <1>1 DEF Call, IType, Shapes, Calls, Goto, HandlerPcs, cluster
<1>3. Knows(h)'
  BY <1>1 DEF Call, IType, Shapes, Goto, Knows, PastErase
<1>4. ASSUME NEW g \in Handler \ {h} PROVE Knows(g)'
  BY KnowsKept DEF Call, IType, Shapes, Goto
<1> QED BY <1>2, <1>3, <1>4 DEF IType

LEMMA RestartType ==
  ASSUME IType, KubeletRestart
  PROVE  IType'
<1>1. Shapes'
  BY BindAssumption DEF KubeletRestart, Fault, IType, Shapes, cluster, local
<1>2. ASSUME NEW g \in Handler PROVE Knows(g)'
  BY KnowsKept DEF KubeletRestart, IType, local
<1> QED BY <1>1, <1>2 DEF IType

\* A handler goes on with what it knows; other handlers are not concerned.
LEMMA GoesOn ==
  ASSUME IType, NEW h \in Handler, NEW to \in HandlerPcs, Goto(h, to),
         UNCHANGED <<want, mine, copy, tries>>,
         to \notin {"idle", "error"} => mine[h] \in Pod,
         to # "pending", to \in PastErase => Serviceable(h)
  PROVE  pc' \in [Handler -> HandlerPcs] /\ \A g \in Handler : Knows(g)'
<1>1. pc' \in [Handler -> HandlerPcs] /\ pc'[h] = to
  BY DEF IType, Shapes, Goto
<1>2. Knows(h)'
  BY <1>1 DEF Knows, Serviceable, Served, Segments
<1>3. ASSUME NEW g \in Handler \ {h} PROVE Knows(g)'
  BY KnowsKept DEF IType, Shapes, Goto
<1> QED BY <1>1, <1>2, <1>3

LEMMA LookUpType ==
  ASSUME IType, NEW h \in Handler, GetPendingPod(h) \/ GetPendingPodFails(h)
  PROVE  IType'
<1>0. pc[h] = "pending" /\ tries[h] < MaxTries /\ MaxTries \in Nat \ {0} /\ MaxFaults \in Nat
  BY BindAssumption DEF GetPendingPod, GetPendingPodFails, IType, Knows
<1>1. ASSUME NEW g \in Handler \ {h} PROVE Knows(g)'
  BY KnowsKept DEF GetPendingPod, GetPendingPodFails, IType, Shapes, Goto
<1>2. CASE GetPendingPod(h)
  <2>1. PICK q \in Pending : /\ mine' = [mine EXCEPT ![h] = q]
                            /\ copy' = [copy EXCEPT ![h] = anno[q]]
    BY <1>2 DEF GetPendingPod
  <2>2. q \in Pod
    BY DEF Pending
  <2>3. Shapes'
    BY <1>2, <2>1, <2>2 DEF GetPendingPod, IType, Shapes, Goto, HandlerPcs, cluster
  <2>4. Knows(h)'
    BY <1>2, <2>1, <2>2 DEF GetPendingPod, IType, Shapes, Goto, Knows, PastErase
  <2> QED BY <1>1, <2>3, <2>4 DEF IType
<1>3. CASE GetPendingPodFails(h)
  <2> DEFINE to == IF tries[h] + 1 = MaxTries \/ GivenUp(h) THEN "error" ELSE "pending"
  <2>1. tries[h] \in 0 .. MaxTries /\ tries[h] + 1 \in 0 .. MaxTries
    BY <1>0 DEF IType, Shapes
  <2>2. /\ pc' = [pc EXCEPT ![h] = to] /\ tries' = [tries EXCEPT ![h] = tries[h] + 1]
        /\ to \in {"error", "pending"} /\ (to = "pending" => tries[h] + 1 # MaxTries)
        /\ UNCHANGED <<cluster, answer, call, want, mine, copy>>
    BY <1>3 DEF GetPendingPodFails, Goto
  <2>3. faults' \in 0 .. MaxFaults
    BY <1>0, <1>3 DEF GetPendingPodFails, Fault, NoFault, IType, Shapes
  <2> HIDE DEF to
  <2>4. Shapes'
    BY <2>1, <2>2, <2>3 DEF IType, Shapes, HandlerPcs, cluster
  <2>5. Knows(h)'
    <3>1. pc'[h] = to /\ tries'[h] = tries[h] + 1
      BY <2>2 DEF IType, Shapes
    <3> QED BY <1>0, <2>1, <2>2, <3>1 DEF Knows, PastErase
  <2> QED BY <1>1, <2>4, <2>5 DEF IType
<1> QED BY <1>2, <1>3

\* EraseNextDeviceTypeFromAnnotation, applied or not.
LEMMA EraseTypes ==
  ASSUME IType, NEW h \in Handler, Erase(h) \/ EraseFails(h)
  PROVE  IType'
<1>0. pc[h] = "next" /\ mine[h] \in Pod /\ Serviceable(h)
  BY DEF Erase, EraseFails, IType, Knows
<1>1. anno' \in [Pod -> ListOfLists]
  <2>1. EraseFirstDeviceSegment(Segments(h)) \in ListOfLists
    BY <1>0, ServedType DEF IType
  <2> QED BY <2>1 DEF Erase, EraseFails, WriteErased, IType, Shapes
<1>2. faults' \in 0 .. MaxFaults
  BY BindAssumption DEF Erase, EraseFails, Fault, NoFault, IType, Shapes
<1>3. /\ Goto(h, "create") \/ Goto(h, "failphase")
      /\ UNCHANGED <<obj, bind, lock, answer, call, local>>
  BY DEF Erase, EraseFails
<1>4. pc' \in [Handler -> HandlerPcs] /\ \A g \in Handler : Knows(g)'
  BY <1>0, <1>3, GoesOn DEF local, HandlerPcs, PastErase
<1> QED BY <1>1, <1>2, <1>3, <1>4 DEF IType, Shapes, local

LEMMA SettleType ==
  ASSUME IType, NEW h \in Handler,
         RejectRequest(h) \/ Create(h) \/ TrySuccess(h) \/ PatchPhase(h) \/ Unlock(h)
  PROVE  IType'
<1>0. mine[h] \in Pod /\ (pc[h] \in PastErase => Serviceable(h))
  BY DEF RejectRequest, Create, TrySuccess, PatchPhase, Unlock, IType, Knows
<1>1. UNCHANGED <<obj, anno, answer, call, local>>
  BY DEF RejectRequest, Create, TrySuccess, PatchPhase, Unlock, cluster
<1>2. faults' \in 0 .. MaxFaults
  BY BindAssumption
  DEF RejectRequest, Create, TrySuccess, PatchPhase, Unlock, Fault, NoFault, IType, Shapes
<1>3. bind' \in [Pod -> Phases]
  <2>1. PhaseOf(h) \in Phases
    BY DEF PhaseOf, Phases
  <2> QED BY <2>1 DEF RejectRequest, Create, TrySuccess, PatchPhase, Unlock, IType, Shapes, cluster
<1>4. lock' \in Name \cup {NoName}
  BY DEF RejectRequest, Create, TrySuccess, PatchPhase, Unlock, ReleaseNodeLock, IType, Shapes, cluster
<1>5. \E to \in {"failphase", "check", "return", "successphase", "successlock", "faillock", "error"} :
        Goto(h, to) /\ (to \in PastErase => pc[h] \in PastErase)
  BY DEF RejectRequest, Create, TrySuccess, PatchPhase, Unlock, PastErase
<1>6. pc' \in [Handler -> HandlerPcs] /\ \A g \in Handler : Knows(g)'
  BY <1>0, <1>1, <1>5, GoesOn DEF local, HandlerPcs
<1> QED BY <1>1, <1>2, <1>3, <1>4, <1>6 DEF IType, Shapes, local

LEMMA ReturnType ==
  ASSUME IType, NEW h \in Handler, Return(h) \/ ReturnError(h)
  PROVE  IType'
<1>1. pc' \in [Handler -> HandlerPcs] /\ \A g \in Handler : Knows(g)'
  BY GoesOn DEF Return, ReturnError, local, HandlerPcs, PastErase
<1>2. call' \in Calls \cup {NoCall} /\ UNCHANGED <<anno, bind, lock, local, faults>>
  BY DEF Return, ReturnError, IType, Shapes, cluster
<1>3. CASE Return(h)
  <2>1. Served(h) \in Seq(Dev)
    BY <1>3, ServedType DEF Return, IType, Knows, PastErase
  <2>2. answer' \in [Pod -> [Ctr -> Seq(Dev) \cup {NoAnswer}]]
    <3>1. CASE call # NoCall /\ call.by = h
      <4>1. call.pod \in Pod /\ call.ctr \in Ctr
        BY <3>1 DEF IType, Shapes, Calls
      <4>2. answer' = [answer EXCEPT ![call.pod][call.ctr] = Served(h)]
        BY <1>3, <3>1 DEF Return
      <4> QED BY <2>1, <4>1, <4>2 DEF IType, Shapes
    <3>2. CASE ~(call # NoCall /\ call.by = h)
      BY <1>3, <3>2 DEF Return, IType, Shapes
    <3> QED BY <3>1, <3>2
  <2> QED BY <1>1, <1>2, <1>3, <2>2 DEF Return, IType, Shapes, local, cluster
<1>4. CASE ReturnError(h)
  <2>1. obj' \in [Pod -> Objects]
    BY <1>4 DEF ReturnError, IType, Shapes, Calls, Objects
  <2> QED BY <1>1, <1>2, <1>4, <2>1 DEF ReturnError, IType, Shapes, local
<1> QED BY <1>3, <1>4

LEMMA NextType == IType /\ [Next]_vars => IType'
<1> SUFFICES ASSUME IType, [Next]_vars PROVE IType'
  OBVIOUS
<1>1. CASE UNCHANGED vars
  <2>1. UNCHANGED <<cluster, local, answer, call, pc, faults>>
    BY <1>1 DEF vars
  <2>2. ASSUME NEW h \in Handler PROVE Knows(h)'
    BY <2>1, KnowsKept DEF IType, local
  <2> QED BY <2>1, <2>2 DEF IType, Shapes, cluster, local
<1> QED BY <1>1, ClusterType, CallType, RestartType, LookUpType, EraseTypes, SettleType, ReturnType
        DEF Next, Handle

\* Whatever fails, a handler past its look-up has a pod, one past its rejections
\* has a segment of the size kubelet asked for (AllocateHAMiHCUs, plugin.go), and
\* none looks for the pending pod more often than pendingPodRetryTimes.
THEOREM TypeCorrect == Spec => []TypeOK
  BY InitType, NextType, ITypeImplies, PTL DEF Spec

-----------------------------------------------------------------------------
(* The inductive invariant                                                 *)

Answered(p) == {c \in Ctr : answer[p][c] # NoAnswer}
Locked(p) == bind[p] = "allocating" /\ lock = NameOf[p]
Own(p, h) == call # NoCall /\ call.by = h /\ call.pod = p

\* Kubelet's call is for the first container without an answer, and it asks for
\* as many devices as the scheduler chose.
CallSound == call # NoCall =>
  /\ obj[call.pod] \in {"bound", "gone"}
  /\ call.ctr \in NonEmpty(Chosen[call.pod])
  /\ Answered(call.pod) = {d \in NonEmpty(Chosen[call.pod]) : d < call.ctr}
  /\ pc[call.by] # "idle"
  /\ want[call.by] = Len(Chosen[call.pod][call.ctr])

NamesUnique ==
  \A p, q \in Pod : Live(p) /\ Live(q) /\ NameOf[p] = NameOf[q] => p = q

\* Containers are answered in their order, after the pod is bound.
Progress(p) ==
  /\ obj[p] \in {"absent", "created"} => Answered(p) = {}
  /\ Answered(p) \subseteq NonEmpty(Chosen[p])
  /\ \A c \in Answered(p), d \in NonEmpty(Chosen[p]) : d < c => d \in Answered(p)

\* Nobody touches a pod before it is bound but the scheduler.
Unserved(p) == obj[p] \in {"absent", "created"} =>
  (anno[p] = <<>> \/ Layout(anno[p], p, {})) /\ bind[p] # "success"

\* Between two calls the annotation holds what has no answer yet.
Between(p) ==
  Layout(anno[p], p, Answered(p)) /\ (Locked(p) \/ Answered(p) = NonEmpty(Chosen[p]))

\* During a call, by where its handler h is; once it is answered, the containers
\* in done have theirs.
Serving(p, h, done) ==
  /\ pc[h] \in {"pending", "next"} => Layout(anno[p], p, Answered(p)) /\ Locked(p)
  /\ pc[h] = "next" => mine[h] = p /\ copy[h] = anno[p]
  /\ pc[h] \in PastErase =>
       mine[h] = p /\ Layout(copy[h], p, Answered(p)) /\ anno[p] = Left(p, done)
  /\ pc[h] \in {"create", "check", "successphase"} => Locked(p)
  /\ pc[h] \in {"successphase", "successlock"} => done = NonEmpty(Chosen[p])
  /\ pc[h] \in {"successlock", "failphase", "faillock"} => lock = NameOf[p]
  /\ pc[h] = "return" => Locked(p) \/ done = NonEmpty(Chosen[p])

BoundSound(p) == obj[p] = "bound" =>
  /\ \A c \in Answered(p) : answer[p][c] = Chosen[p][c]
  /\ ~Calling(p) => Between(p)
  /\ Calling(p) => Serving(p, call.by, Answered(p) \cup {call.ctr})

SuccessServed(p) == bind[p] = "success" =>
  \A c \in NonEmpty(Chosen[p]) :
    \/ c \in Answered(p)
    \/ Calling(p) /\ call.ctr = c /\ pc[call.by] \in {"successlock", "return"}

Sound(p) ==
  Progress(p) /\ (p \notin strayed => Unserved(p) /\ BoundSound(p) /\ SuccessServed(p))

IInv == IType /\ CallSound /\ NamesUnique /\ \A p \in Pod : Sound(p)

\* What a step may do to a pod it does not concern: a pod that it patches all the
\* same counts as strayed.
Apart(p) ==
  /\ obj'[p] = obj[p] /\ answer'[p] = answer[p] /\ strayed \subseteq strayed'
  /\ p \notin strayed' =>
       /\ anno'[p] = anno[p] /\ bind'[p] = bind[p]
       /\ obj[p] = "bound" /\ lock = NameOf[p] => lock' = NameOf[p]
       /\ (call # NoCall /\ call.pod = p) <=> (call' # NoCall /\ call'.pod = p)
       /\ call # NoCall /\ call.pod = p =>
            /\ call' = call /\ pc'[call.by] = pc[call.by]
            /\ mine'[call.by] = mine[call.by] /\ copy'[call.by] = copy[call.by]

LEMMA ApartSound ==
  ASSUME NEW p \in Pod, Sound(p), Apart(p)
  PROVE  Sound(p)'
<1>1. Answered(p)' = Answered(p)
  BY DEF Apart, Answered
<1>2. Progress(p)'
  BY <1>1 DEF Sound, Progress, Apart
<1>3. ASSUME p \notin strayed'
      PROVE  (Unserved(p) /\ BoundSound(p) /\ SuccessServed(p))'
  <2>1. p \notin strayed
    BY <1>3 DEF Apart
  <2>2. Unserved(p)'
    BY <1>3, <2>1 DEF Sound, Unserved, Apart, Layout
  <2>3. obj[p] = "bound" /\ Locked(p) => Locked(p)'
    BY <1>3 DEF Apart, Locked
  <2>4. Calling(p)' <=> Calling(p)
    BY <1>3 DEF Apart, Calling
  <2>5. BoundSound(p)'
    <3> SUFFICES ASSUME obj[p] = "bound" PROVE BoundSound(p)'
      BY DEF BoundSound, Apart
    <3>1. \A c \in Answered(p) : answer'[p][c] = Chosen[p][c]
      BY <2>1 DEF Sound, BoundSound, Apart
    <3>2. ~Calling(p) => Between(p)'
      BY <1>1, <1>3, <2>1, <2>3 DEF Sound, BoundSound, Between, Apart
    <3>3. ASSUME Calling(p)
          PROVE  Serving(p, call.by, Answered(p) \cup {call.ctr})'
      <4>1. /\ call' = call /\ pc'[call.by] = pc[call.by] /\ mine'[call.by] = mine[call.by]
            /\ copy'[call.by] = copy[call.by] /\ anno'[p] = anno[p]
            /\ (lock = NameOf[p] => lock' = NameOf[p])
        BY <1>3, <3>3 DEF Apart, Calling
      <4>2. Serving(p, call.by, Answered(p) \cup {call.ctr})
        BY <2>1, <3>3 DEF Sound, BoundSound
      <4> QED BY <1>1, <2>3, <4>1, <4>2 DEF Serving
    <3> QED BY <1>1, <2>4, <3>1, <3>2, <3>3 DEF BoundSound
  <2>6. SuccessServed(p)'
    BY <1>1, <1>3, <2>1 DEF Sound, SuccessServed, Apart, Calling
  <2> QED BY <2>2, <2>5, <2>6
<1> QED BY <1>2, <1>3 DEF Sound

LEMMA InitSound == Init => IInv
<1> SUFFICES ASSUME Init PROVE IInv
  OBVIOUS
<1>1. \A p \in Pod : Answered(p) = {}
  BY DEF Init, Answered
<1>2. \A p \in Pod : Progress(p) /\ Unserved(p) /\ BoundSound(p) /\ SuccessServed(p)
  BY <1>1 DEF Init, Progress, Unserved, BoundSound, SuccessServed
<1> QED BY <1>2, InitType DEF Init, IInv, CallSound, NamesUnique, Live, Sound

-----------------------------------------------------------------------------
(* Steps of the scheduler, users and kubelet keep it                       *)

\* A call stays sound while its pod has the same answers and its handler runs.
LEMMA CallSoundKept ==
  ASSUME CallSound, call' \in {call, NoCall}, call' # NoCall => UNCHANGED <<answer, want>>,
         call' # NoCall => obj'[call.pod] \in {"bound", "gone"} /\ pc'[call.by] # "idle"
  PROVE  CallSound'
  BY DEF CallSound, Answered

LEMMA NamesKept ==
  ASSUME IType, IType', NamesUnique, \A p \in Pod : Live(p)' => Live(p)
  PROVE  NamesUnique'
  BY DEF NamesUnique

LEMMA CreateSound ==
  ASSUME IInv, NEW p \in Pod, CreatePod(p)
  PROVE  CallSound' /\ NamesUnique' /\ \A q \in Pod : Sound(q)'
<1>0. /\ obj' = [obj EXCEPT ![p] = "created"] /\ obj[p] = "absent" /\ obj \in [Pod -> Objects]
      /\ UNCHANGED <<anno, bind, lock, answer, call, pc, want, mine, copy, strayed>>
  BY DEF CreatePod, IInv, IType, Shapes, local
<1>1. call # NoCall => call.pod # p /\ call.pod \in Pod
  BY <1>0 DEF IInv, CallSound, IType, Shapes, Calls
<1>2. CallSound'
  BY <1>0, <1>1, CallSoundKept DEF IInv, CallSound
<1>3. NamesUnique'
  BY <1>0 DEF CreatePod, IInv, NamesUnique, Live
<1>4. ASSUME NEW q \in Pod \ {p} PROVE Sound(q)'
  BY <1>0, ApartSound DEF IInv, Apart
<1>5. Sound(p)'
  <2>1. Answered(p)' = Answered(p) /\ Answered(p) = {}
    BY <1>0 DEF Answered, IInv, Sound, Progress
  <2> QED BY <1>0, <2>1 DEF IInv, Sound, Progress, Unserved, BoundSound, SuccessServed, Calling
<1> QED BY <1>2, <1>3, <1>4, <1>5

LEMMA ScheduleSound ==
  ASSUME IInv, NEW p \in Pod, Schedule(p)
  PROVE  CallSound' /\ NamesUnique' /\ \A q \in Pod : Sound(q)'
<1>0. /\ obj[p] = "created" /\ UNCHANGED <<obj, bind, lock, answer, call, pc, want, mine, copy, strayed>>
      /\ anno \in [Pod -> ListOfLists]
  BY DEF Schedule, IInv, IType, Shapes, local
<1>1. PICK kept \in SUBSET Ctr :
        anno' = [anno EXCEPT ![p] = Kept(Chosen[p], kept \cup NonEmpty(Chosen[p]))]
  BY DEF Schedule
<1>2. CallSound' /\ NamesUnique'
  BY <1>0 DEF IInv, CallSound, Answered, NamesUnique, Live
<1>3. ASSUME NEW q \in Pod \ {p} PROVE Sound(q)'
  BY <1>0, <1>1, ApartSound DEF IInv, Apart
<1>4. Sound(p)'
  <2>1. Layout(anno'[p], p, {})
    <3>1. anno'[p] = Kept(Chosen[p], kept \cup NonEmpty(Chosen[p]))
      BY <1>0, <1>1
    <3> QED BY <3>1, KeptLayout
  <2>2. Unserved(p)' <=> (anno'[p] = <<>> \/ Layout(anno'[p], p, {})) /\ bind[p] # "success"
    BY <1>0 DEF Unserved, Layout
  <2>3. Progress(p)' /\ BoundSound(p)' /\ (p \notin strayed => SuccessServed(p)')
    BY <1>0 DEF IInv, Sound, Progress, Answered, BoundSound, SuccessServed, Calling
  <2> QED BY <1>0, <2>1, <2>2, <2>3 DEF IInv, Sound, Unserved
<1> QED BY <1>2, <1>3, <1>4

LEMMA BindSound ==
  ASSUME IInv, NEW p \in Pod, Bind(p)
  PROVE  CallSound' /\ NamesUnique' /\ \A q \in Pod : Sound(q)'
<1>0. /\ obj[p] = "created" /\ anno[p] # <<>> /\ lock = NoName /\ lock' = NameOf[p]
      /\ bind' = [bind EXCEPT ![p] = "allocating"] /\ obj' = [obj EXCEPT ![p] = "bound"]
      /\ UNCHANGED <<anno, answer, call, pc, want, mine, copy, strayed>>
      /\ obj \in [Pod -> Objects] /\ bind \in [Pod -> Phases]
  BY DEF Bind, IInv, IType, Shapes, local
<1>1. call # NoCall => call.pod # p /\ call.pod \in Pod
  BY <1>0 DEF IInv, CallSound, IType, Shapes, Calls
<1>2. CallSound'
  BY <1>0, <1>1, CallSoundKept DEF IInv, CallSound
<1>3. NamesUnique'
  BY <1>0 DEF IInv, NamesUnique, Live
<1>4. ASSUME NEW q \in Pod \ {p} PROVE Sound(q)'
  <2>1. NameOf[q] # NoName
    BY BindAssumption
  <2> QED BY <1>0, <2>1, ApartSound DEF IInv, Apart
<1>5. Sound(p)'
  <2>1. Answered(p)' = Answered(p) /\ Answered(p) = {}
    BY <1>0 DEF Answered, IInv, Sound, Progress
  <2>2. Locked(p)' /\ ~Calling(p)'
    BY <1>0, <1>1 DEF Locked, Calling
  <2>3. p \notin strayed => Layout(anno[p], p, {})
    BY <1>0 DEF IInv, Sound, Unserved
  <2>4. p \notin strayed => Between(p)'
    BY <1>0, <2>1, <2>2, <2>3 DEF Between, Layout
  <2> QED BY <1>0, <2>1, <2>2, <2>4 DEF Sound, Progress, Unserved, BoundSound, SuccessServed
<1> QED BY <1>2, <1>3, <1>4, <1>5

LEMMA DeleteSound ==
  ASSUME IInv, NEW p \in Pod, DeletePod(p)
  PROVE  CallSound' /\ NamesUnique' /\ \A q \in Pod : Sound(q)'
<1>0. /\ Live(p) /\ obj' = [obj EXCEPT ![p] = "gone"] /\ obj \in [Pod -> Objects]
      /\ UNCHANGED <<anno, bind, lock, answer, call, pc, want, mine, copy, strayed>>
  BY DEF DeletePod, IInv, IType, Shapes, local
<1>1. call # NoCall => call.pod \in Pod
  BY DEF IInv, IType, Shapes, Calls
<1>2. CallSound'
  BY <1>0, <1>1, CallSoundKept DEF IInv, CallSound
<1>3. NamesUnique'
  BY <1>0 DEF IInv, NamesUnique, Live
<1>4. ASSUME NEW q \in Pod \ {p} PROVE Sound(q)'
  BY <1>0, ApartSound DEF IInv, Apart
<1>5. Sound(p)'
  <2>1. Answered(p)' = Answered(p)
    BY <1>0 DEF Answered
  <2>2. obj'[p] = "gone"
    BY <1>0
  <2>3. Progress(p)' /\ Unserved(p)' /\ BoundSound(p)'
    BY <2>1, <2>2 DEF IInv, Sound, Progress, Unserved, BoundSound
  <2>4. p \notin strayed => SuccessServed(p)'
    BY <1>0, <2>1 DEF IInv, Sound, SuccessServed, Calling
  <2> QED BY <1>0, <2>3, <2>4 DEF Sound
<1> QED BY <1>2, <1>3, <1>4, <1>5

LEMMA NewCallSound ==
  ASSUME IInv, NEW p \in Pod, NEW c \in Ctr, NEW h \in Handler, Call(p, c, h)
  PROVE  CallSound' /\ NamesUnique' /\ \A q \in Pod : Sound(q)'
<1>0. /\ call = NoCall /\ obj[p] = "bound" /\ c \in NonEmpty(Chosen[p])
      /\ answer[p][c] = NoAnswer /\ \A d \in NonEmpty(Chosen[p]) : d < c => answer[p][d] # NoAnswer
      /\ call' = [pod |-> p, ctr |-> c, by |-> h] /\ pc'[h] = "pending"
      /\ want'[h] = Len(Chosen[p][c]) /\ call' # NoCall
      /\ UNCHANGED <<obj, anno, bind, lock, answer, mine, copy, strayed>>
  BY NoneAssumption DEF Call, Goto, IInv, IType, Shapes, cluster
<1>1. Answered(p) = {d \in NonEmpty(Chosen[p]) : d < c} /\ c \notin Answered(p)
  <2>1. /\ Progress(p) /\ NonEmpty(Chosen[p]) \subseteq Ctr /\ Ctr \in SUBSET Int
        /\ Answered(p) \subseteq NonEmpty(Chosen[p])
    BY CtrFacts DEF IInv, Sound, Progress
  <2>2. c \notin Answered(p)
    BY <1>0 DEF Answered
  <2>3. ASSUME NEW d \in Answered(p) PROVE d < c
    <3>1. d # c /\ ~(c < d)
      BY <1>0, <2>1, <2>2, <2>3 DEF Progress
    <3>2. c \in Int /\ d \in Int
      BY <2>1, <2>3
    <3> QED BY <3>1, <3>2
  <2>4. ASSUME NEW d \in NonEmpty(Chosen[p]), d < c PROVE d \in Answered(p)
    BY <1>0, <2>1, <2>4 DEF Answered
  <2> QED BY <2>1, <2>2, <2>3, <2>4
<1>2. CallSound'
  BY <1>0, <1>1 DEF CallSound, Answered
<1>3. NamesUnique'
  BY <1>0 DEF IInv, NamesUnique, Live
<1>4. ASSUME NEW q \in Pod \ {p} PROVE Sound(q)'
  BY <1>0, ApartSound DEF IInv, Apart
<1>5. Sound(p)'
  <2>1. Answered(p)' = Answered(p)
    BY <1>0 DEF Answered
  <2>2. Progress(p)'
    BY <1>0, <2>1 DEF IInv, Sound, Progress
  <2>3. ASSUME p \notin strayed
        PROVE  (Unserved(p) /\ BoundSound(p) /\ SuccessServed(p))'
    <3>1. Unserved(p)'
      BY <1>0 DEF Unserved
    <3>2. Between(p) /\ \A d \in Answered(p) : answer[p][d] = Chosen[p][d]
      BY <1>0, <2>3 DEF IInv, Sound, BoundSound, Calling
    <3>3. Locked(p) /\ Layout(anno[p], p, Answered(p))
      BY <1>0, <1>1, <3>2 DEF Between
    <3>4. Serving(p, call.by, Answered(p) \cup {call.ctr})'
      BY <1>0, <2>1, <3>3 DEF Serving, Locked, Layout, PastErase
    <3>5. BoundSound(p)'
      BY <1>0, <2>1, <3>2, <3>4 DEF BoundSound, Calling
    <3>6. SuccessServed(p)'
      BY <1>0, <2>1, <2>3 DEF IInv, Sound, SuccessServed, Calling
    <3> QED BY <3>1, <3>5, <3>6
  <2> QED BY <1>0, <2>2, <2>3 DEF Sound
<1> QED BY <1>2, <1>3, <1>4, <1>5

\* The answer of a call past its look-up is lost: its pod counts as strayed.
LEMMA RestartSound ==
  ASSUME IInv, KubeletRestart
  PROVE  CallSound' /\ NamesUnique' /\ \A q \in Pod : Sound(q)'
<1>0. /\ call # NoCall /\ call' = NoCall
      /\ strayed' = strayed \cup {p \in {call.pod} : pc[call.by] \notin {"pending", "next"}}
      /\ UNCHANGED <<obj, anno, bind, lock, answer, pc, want, mine, copy>>
  BY DEF KubeletRestart, cluster, local
<1>1. CallSound' /\ NamesUnique'
  BY <1>0 DEF IInv, CallSound, NamesUnique, Live
<1>2. ASSUME NEW q \in Pod, q # call.pod PROVE Sound(q)'
  <2>1. Apart(q)
    BY <1>0, <1>2 DEF Apart
  <2> QED BY <2>1, ApartSound DEF IInv
<1>3. ASSUME NEW p \in Pod, p = call.pod PROVE Sound(p)'
  <2>1. Answered(p)' = Answered(p)
    BY <1>0 DEF Answered
  <2>2. Progress(p)'
    BY <1>0, <2>1 DEF IInv, Sound, Progress
  <2>3. ASSUME p \notin strayed'
        PROVE  (Unserved(p) /\ BoundSound(p) /\ SuccessServed(p))'
    <3>1. p \notin strayed /\ pc[call.by] \in {"pending", "next"}
      BY <1>0, <1>3, <2>3
    <3>2. Unserved(p)'
      BY <1>0, <3>1 DEF IInv, Sound, Unserved, Layout
    <3>3. SuccessServed(p)'
      BY <1>0, <2>1, <3>1 DEF IInv, Sound, SuccessServed, Calling
    <3>4. ASSUME obj[p] = "bound"
          PROVE  /\ Layout(anno[p], p, Answered(p)) /\ Locked(p)
                 /\ \A d \in Answered(p) : answer[p][d] = Chosen[p][d]
      BY <1>0, <1>3, <3>1, <3>4 DEF IInv, Sound, BoundSound, Calling, Serving
    <3>5. BoundSound(p)'
      BY <1>0, <2>1, <3>4 DEF BoundSound, Calling, Between, Locked, Layout
    <3> QED BY <3>2, <3>3, <3>5
  <2> QED BY <2>2, <2>3 DEF Sound
<1> QED BY <1>1, <1>2, <1>3

-----------------------------------------------------------------------------
(* Steps of a handler keep it                                              *)

\* What a step of handler h may do, whichever it is: only the pods its pod's name
\* reaches are patched and only their lock is freed, and they count as strayed
\* unless kubelet waits for h's answer for them.
Moves(h) ==
  /\ \A g \in Handler \ {h} : pc'[g] = pc[g] /\ mine'[g] = mine[g] /\ copy'[g] = copy[g]
  /\ want' = want /\ strayed \subseteq strayed'
  /\ \/ UNCHANGED <<call, answer, obj>> /\ pc'[h] # "idle"
     \/ /\ call # NoCall => call.by # h
        /\ UNCHANGED <<call, answer, obj>>
     \/ /\ call # NoCall /\ call.by = h /\ call' = NoCall
        /\ \A p \in Pod : p # call.pod => answer'[p] = answer[p] /\ obj'[p] = obj[p]
        /\ \A p \in Pod : obj'[p] = "bound" => obj[p] = "bound"
        /\ \A p \in Pod : Live(p)' => Live(p)
  /\ \A p \in Pod : \/ anno'[p] = anno[p] /\ bind'[p] = bind[p]
                    \/ p \in Reached(h) /\ (Own(p, h) \/ p \in strayed')
  /\ \/ lock' = lock
     \/ lock = NameOf[mine[h]] /\ \A p \in Reached(h) : Own(p, h) \/ p \in strayed'

LEMMA TouchStrays ==
  ASSUME NEW h \in Handler, Touch(h), UNCHANGED call
  PROVE  /\ strayed \subseteq strayed'
         /\ \A p \in Reached(h) : Own(p, h) \/ p \in strayed'
  BY DEF Touch, GivenUp, Own

LEMMA HandleMoves ==
  ASSUME IInv, NEW h \in Handler, Handle(h)
  PROVE  Moves(h)
<1>0. /\ pc \in [Handler -> HandlerPcs] /\ answer \in [Pod -> [Ctr -> Seq(Dev) \cup {NoAnswer}]]
      /\ obj \in [Pod -> Objects] /\ anno \in [Pod -> ListOfLists] /\ bind \in [Pod -> Phases]
      /\ call # NoCall => call.pod \in Pod
      /\ mine \in [Handler -> Pod \cup {NoPod}] /\ copy \in [Handler -> ListOfLists]
  BY DEF IInv, IType, Shapes, Calls
<1>1. CASE GetPendingPod(h) \/ GetPendingPodFails(h)
  BY <1>0, <1>1 DEF GetPendingPod, GetPendingPodFails, Goto, Moves, cluster
<1>2. CASE RejectRequest(h) \/ Create(h) \/ TrySuccess(h)
  BY <1>0, <1>2 DEF RejectRequest, Create, TrySuccess, Goto, Moves, cluster, local
<1>3. CASE Erase(h) \/ EraseFails(h)
  <2>1. /\ Goto(h, "create") \/ Goto(h, "failphase")
        /\ UNCHANGED <<obj, bind, lock, answer, call, local>> /\ Touch(h)
        /\ anno' = anno \/ WriteErased(h)
    BY <1>3 DEF Erase, EraseFails
  <2>2. \A p \in Pod : anno'[p] = anno[p] \/ p \in Reached(h)
    BY <1>0, <2>1 DEF WriteErased
  <2> QED BY <1>0, <2>1, <2>2, TouchStrays DEF Goto, Moves, local
<1>4. CASE PatchPhase(h)
  <2>1. /\ Goto(h, "successlock") \/ Goto(h, "faillock")
        /\ UNCHANGED <<obj, anno, lock, answer, call, local>> /\ Touch(h)
    BY <1>4 DEF PatchPhase
  <2>2. \A p \in Pod : bind'[p] = bind[p] \/ p \in Reached(h)
    BY <1>0, <1>4 DEF PatchPhase
  <2> QED BY <1>0, <2>1, <2>2, TouchStrays DEF Goto, Moves, local
<1>5. CASE Unlock(h)
  <2>1. /\ Goto(h, "return") \/ Goto(h, "error")
        /\ UNCHANGED <<obj, anno, bind, answer, call, local>> /\ Touch(h)
        /\ lock' = lock \/ lock = NameOf[mine[h]]
    BY <1>5 DEF Unlock, ReleaseNodeLock
  <2> QED BY <1>0, <2>1, TouchStrays DEF Goto, Moves, local
<1>6. CASE Return(h)
  BY <1>0, <1>6 DEF Return, Goto, Moves, cluster, local, Live
<1>7. CASE ReturnError(h)
  BY <1>0, <1>7 DEF ReturnError, Goto, Moves, local, Live, Objects
<1> QED BY <1>1, <1>2, <1>3, <1>4, <1>5, <1>6, <1>7 DEF Handle

\* The pods h does not answer for are left apart.
LEMMA OthersApart ==
  ASSUME IInv, NEW h \in Handler, Moves(h), NEW p \in Pod, ~Own(p, h)
  PROVE  Apart(p)
<1>0. call # NoCall => call \in Calls /\ call.by \in Handler
  BY DEF IInv, IType, Shapes, Calls
<1>1. /\ obj'[p] = obj[p] /\ answer'[p] = answer[p] /\ strayed \subseteq strayed'
      /\ (call # NoCall /\ call.pod = p) <=> (call' # NoCall /\ call'.pod = p)
      /\ call # NoCall /\ call.pod = p => call' = call /\ call.by # h
  BY DEF Moves, Own
<1>2. p \notin strayed' => anno'[p] = anno[p] /\ bind'[p] = bind[p]
  BY DEF Moves
<1>3. p \notin strayed' /\ obj[p] = "bound" /\ lock = NameOf[p] => lock' = NameOf[p]
  BY DEF Moves, Reached, Live
<1>4. call # NoCall /\ call.pod = p =>
        /\ pc'[call.by] = pc[call.by] /\ mine'[call.by] = mine[call.by]
        /\ copy'[call.by] = copy[call.by]
  BY <1>0, <1>1 DEF Moves
<1> QED BY <1>1, <1>2, <1>3, <1>4 DEF Apart

LEMMA HandleCallSound ==
  ASSUME IInv, NEW h \in Handler, Moves(h)
  PROVE  CallSound' /\ NamesUnique'
<1>0. call # NoCall => call \in Calls /\ call.by \in Handler /\ call.pod \in Pod
  BY DEF IInv, IType, Shapes, Calls
<1>1. CallSound'
  BY <1>0, CallSoundKept DEF IInv, CallSound, Moves
<1>2. \A p \in Pod : Live(p)' => Live(p)
  BY DEF Moves, Live
<1> QED BY <1>1, <1>2 DEF IInv, NamesUnique

\* The containers with an answer once h has given its own.
Done(p) == Answered(p) \cup {call.ctr}

LEMMA OwnFacts ==
  ASSUME IInv, NEW h \in Handler, NEW p \in Pod, Own(p, h)
  PROVE  /\ obj[p] \in {"bound", "gone"} /\ call.ctr \in NonEmpty(Chosen[p]) /\ call.ctr \in Ctr
         /\ Answered(p) = {d \in NonEmpty(Chosen[p]) : d < call.ctr}
         /\ want[h] = Len(Chosen[p][call.ctr]) /\ Done(p) \subseteq NonEmpty(Chosen[p])
         /\ p \notin strayed /\ obj[p] = "bound" => Serving(p, h, Done(p))
         /\ NameOf[p] # NoName
<1>1. NonEmpty(Chosen[p]) \subseteq Ctr /\ NameOf[p] # NoName
  BY CtrFacts, BindAssumption
<1> QED BY <1>1 DEF IInv, CallSound, Own, Done, Sound, BoundSound, Calling

\* The pod the lock names is the only one of its name that lives.
LEMMA ReachedAlone ==
  ASSUME IInv, NEW h \in Handler, NEW p \in Pod, mine[h] = p, obj[p] = "bound"
  PROVE  Reached(h) = {p}
  BY DEF IInv, NamesUnique, Reached, Live

\* The segment h serves is the one of the container kubelet asks for.
LEMMA ServesOwn ==
  ASSUME IInv, NEW h \in Handler, NEW p \in Pod, Own(p, h), mine[h] = p,
         Layout(copy[h], p, Answered(p)), Serviceable(h)
  PROVE  /\ Served(h) = Chosen[p][call.ctr]
         /\ EraseFirstDeviceSegment(Segments(h)) = Left(p, Done(p))
<1>1. Segments(h) = Left(p, Answered(p))
  BY LayoutExpands DEF Serviceable, Segments
<1>2. /\ call.ctr \in NonEmpty(Chosen[p])
      /\ \A d : d \in Answered(p) <=> d \in NonEmpty(Chosen[p]) /\ d < call.ctr
  BY OwnFacts
<1>3. /\ NextContainer(Left(p, Answered(p))) = call.ctr
      /\ Left(p, Answered(p))[call.ctr] = Chosen[p][call.ctr]
      /\ EraseFirstDeviceSegment(Left(p, Answered(p))) = Left(p, Answered(p) \cup {call.ctr})
  BY <1>2, NextIsFirst
<1> QED BY <1>1, <1>3 DEF Served, Done

LEMMA FindsOwn ==
  ASSUME IInv, NEW h \in Handler, NEW p \in Pod, Own(p, h), p \notin strayed, obj[p] = "bound",
         GetPendingPod(h) \/ GetPendingPodFails(h)
  PROVE  Serving(p, h, Done(p))'
<1>0. pc[h] = "pending" /\ Layout(anno[p], p, Answered(p)) /\ Locked(p) /\ NameOf[p] # NoName
  BY OwnFacts DEF GetPendingPod, GetPendingPodFails, Serving
<1>1. UNCHANGED <<obj, anno, bind, lock, answer, call>> /\ Answered(p)' = Answered(p)
  BY DEF GetPendingPod, GetPendingPodFails, cluster, Answered
<1>2. CASE GetPendingPod(h)
  <2>1. Pending = {p}
    BY <1>0 DEF Pending, Locked, IInv, NamesUnique, Live
  <2>2. pc'[h] = "next" /\ mine'[h] = p /\ copy'[h] = anno[p]
    BY <1>2, <2>1 DEF GetPendingPod, Goto, IInv, IType, Shapes
  <2> QED BY <1>0, <1>1, <2>2 DEF Serving, Locked, Layout, PastErase
<1>3. CASE GetPendingPodFails(h)
  <2>1. pc'[h] \in {"error", "pending"}
    BY <1>3 DEF GetPendingPodFails, Goto, IInv, IType, Shapes
  <2> QED BY <1>0, <1>1, <2>1 DEF Serving, Locked, Layout, PastErase
<1> QED BY <1>2, <1>3

LEMMA ErasesOwn ==
  ASSUME IInv, NEW h \in Handler, NEW p \in Pod, Own(p, h), p \notin strayed, obj[p] = "bound",
         RejectRequest(h) \/ Erase(h) \/ EraseFails(h)
  PROVE  Serving(p, h, Done(p))'
<1>0. /\ pc[h] = "next" /\ Layout(anno[p], p, Answered(p)) /\ Locked(p)
      /\ mine[h] = p /\ copy[h] = anno[p]
  BY OwnFacts DEF RejectRequest, Erase, EraseFails, Serving
<1>1. UNCHANGED <<obj, bind, lock, answer, call, mine, copy>> /\ Done(p)' = Done(p)
      /\ Answered(p)' = Answered(p)
  BY DEF RejectRequest, Erase, EraseFails, cluster, local, Answered, Done
<1>2. CASE RejectRequest(h) \/ EraseFails(h)
  <2>1. pc'[h] = "failphase"
    BY <1>2 DEF RejectRequest, EraseFails, Goto, IInv, IType, Shapes
  <2> QED BY <1>0, <1>1, <2>1 DEF Serving, Locked, PastErase
<1>3. CASE Erase(h)
  <2>1. pc'[h] = "create"
    BY <1>3 DEF Erase, Goto, IInv, IType, Shapes
  <2>2. anno'[p] = Left(p, Done(p))
    <3>1. anno'[p] = EraseFirstDeviceSegment(Segments(h))
      BY <1>0, <1>3, ReachedAlone DEF Erase, WriteErased
    <3> QED BY <1>0, <1>3, <3>1, ServesOwn DEF Erase
  <2>3. Layout(copy[h], p, Answered(p))
    BY <1>0
  <2> QED BY <1>0, <1>1, <2>1, <2>2, <2>3 DEF Serving, Locked, Layout, PastErase
<1> QED BY <1>2, <1>3

LEMMA SettlesOwn ==
  ASSUME IInv, NEW h \in Handler, NEW p \in Pod, Own(p, h), p \notin strayed, obj[p] = "bound",
         Create(h) \/ TrySuccess(h) \/ PatchPhase(h) \/ Unlock(h)
  PROVE  Serving(p, h, Done(p))'
<1>0. Serving(p, h, Done(p)) /\ Done(p) \subseteq NonEmpty(Chosen[p])
  BY OwnFacts
<1>1. UNCHANGED <<obj, anno, answer, call, mine, copy>> /\ Done(p)' = Done(p)
      /\ Answered(p)' = Answered(p)
  BY DEF Create, TrySuccess, PatchPhase, Unlock, cluster, local, Answered, Done
<1>2. pc \in [Handler -> HandlerPcs]
  BY DEF IInv, IType, Shapes
<1>3. CASE Create(h)
  <2>1. pc[h] = "create" /\ pc'[h] \in {"check", "failphase"} /\ UNCHANGED <<bind, lock>>
    BY <1>2, <1>3 DEF Create, Goto, cluster
  <2> QED BY <1>0, <1>1, <2>1 DEF Serving, Locked, Layout, PastErase
<1>4. CASE TrySuccess(h)
  <2>1. pc[h] = "check" /\ pc'[h] \in {"return", "successphase"} /\ UNCHANGED <<bind, lock>>
    BY <1>2, <1>4 DEF TrySuccess, Goto, cluster
  <2>2. mine[h] = p /\ anno[p] = Left(p, Done(p))
    BY <1>0, <2>1 DEF Serving, PastErase
  <2>3. pc'[h] = "successphase" => NonEmpty(anno[p]) = {}
    BY <1>2, <1>4, <2>2, ReachedAlone DEF TrySuccess, Goto
  <2>4. pc'[h] = "successphase" => Done(p) = NonEmpty(Chosen[p])
    <3>1. NonEmpty(Left(p, Done(p))) = NonEmpty(Chosen[p]) \ Done(p)
      BY LeftFacts
    <3> QED BY <1>0, <2>2, <2>3, <3>1
  <2> QED BY <1>0, <1>1, <2>1, <2>4 DEF Serving, Locked, Layout, PastErase
<1>5. CASE PatchPhase(h)
  <2>1. /\ UNCHANGED lock
        /\ \/ pc[h] = "successphase" /\ pc'[h] = "successlock"
           \/ pc[h] = "failphase" /\ pc'[h] = "faillock"
    BY <1>2, <1>5 DEF PatchPhase, Goto
  <2> QED BY <1>0, <1>1, <2>1 DEF Serving, Locked, Layout, PastErase
<1>6. CASE Unlock(h)
  <2>1. \/ pc[h] = "successlock" /\ pc'[h] = "return"
        \/ pc[h] = "faillock" /\ pc'[h] = "error"
    BY <1>2, <1>6 DEF Unlock, Goto
  <2> QED BY <1>0, <1>1, <2>1 DEF Serving, Locked, Layout, PastErase
<1> QED BY <1>3, <1>4, <1>5, <1>6

\* The bind phase becomes success only when the call in progress is the last one.
LEMMA SuccessOwn ==
  ASSUME IInv, NEW h \in Handler, NEW p \in Pod, Own(p, h), p \notin strayed,
         UNCHANGED <<answer, call>>, Handle(h)
  PROVE  SuccessServed(p)'
<1>0. /\ Answered(p)' = Answered(p) /\ pc \in [Handler -> HandlerPcs] /\ bind \in [Pod -> Phases]
      /\ SuccessServed(p) /\ Calling(p) /\ call.by = h
  BY DEF Answered, IInv, IType, Shapes, Sound, Own, Calling
<1>1. CASE bind'[p] = bind[p]
  <2>1. ASSUME pc[h] \in {"successlock", "return"}
        PROVE  pc'[h] \in {"successlock", "return"}
    BY <1>0, <2>1 DEF Handle, GetPendingPod, GetPendingPodFails, RejectRequest, Erase, EraseFails,
       Create, TrySuccess, PatchPhase, Unlock, Return, ReturnError, Goto, Own
  <2> QED BY <1>0, <1>1, <2>1 DEF SuccessServed, Calling
<1>2. CASE bind'[p] # bind[p] /\ bind'[p] = "success"
  <2>1. PatchPhase(h)
    BY <1>2 DEF Handle, GetPendingPod, GetPendingPodFails, RejectRequest, Erase, EraseFails,
       Create, TrySuccess, Unlock, Return, ReturnError, cluster
  <2>2. pc[h] = "successphase" /\ p \in Reached(h) /\ pc'[h] = "successlock"
    BY <1>0, <1>2, <2>1 DEF PatchPhase, PhaseOf, Goto
  <2>3. obj[p] = "bound"
    BY <2>2, OwnFacts DEF Reached, Live
  <2>4. Done(p) = NonEmpty(Chosen[p])
    BY <2>2, <2>3, OwnFacts DEF Serving
  <2> QED BY <1>0, <2>2, <2>4 DEF SuccessServed, Calling, Done
<1>3. CASE bind'[p] # "success"
  BY <1>3 DEF SuccessServed
<1> QED BY <1>1, <1>2, <1>3

\* While kubelet waits, h's steps keep the pod it waits for sound.
LEMMA OwnGoesOn ==
  ASSUME IInv, NEW h \in Handler, NEW p \in Pod, Own(p, h), Moves(h),
         Handle(h), ~Return(h), ~ReturnError(h)
  PROVE  Sound(p)'
<1>0. /\ UNCHANGED <<obj, answer, call>> /\ Answered(p)' = Answered(p) /\ Done(p)' = Done(p)
      /\ strayed \subseteq strayed' /\ obj[p] \in {"bound", "gone"} /\ Calling(p)'
      /\ call.by = h /\ Calling(p)
  BY OwnFacts DEF Answered, Done, Handle, GetPendingPod, GetPendingPodFails, RejectRequest, Erase,
     EraseFails, Create, TrySuccess, PatchPhase, Unlock, cluster, Moves, Own, Calling
<1>1. Progress(p)'
  BY <1>0 DEF IInv, Sound, Progress
<1>2. ASSUME p \notin strayed'
      PROVE  (Unserved(p) /\ BoundSound(p) /\ SuccessServed(p))'
  <2>1. Unserved(p)'
    BY <1>0 DEF Unserved
  <2>2. SuccessServed(p)'
    BY <1>0, <1>2, SuccessOwn
  <2>3. obj[p] = "bound" => Serving(p, h, Done(p))'
    BY <1>0, <1>2, FindsOwn, ErasesOwn, SettlesOwn DEF Handle
  <2>4. p \notin strayed /\ obj[p] = "bound" => \A c \in Answered(p) : answer[p][c] = Chosen[p][c]
    BY DEF IInv, Sound, BoundSound
  <2>5. BoundSound(p)'
    BY <1>0, <1>2, <2>3, <2>4 DEF BoundSound, Done
  <2> QED BY <2>1, <2>2, <2>5
<1> QED BY <1>1, <1>2 DEF Sound

\* The answer is recorded for the container kubelet asked for.
LEMMA AnswerSound ==
  ASSUME IInv, NEW h \in Handler, NEW p \in Pod, Own(p, h), Return(h)
  PROVE  Sound(p)'
<1> DEFINE c == call.ctr
<1>0. /\ UNCHANGED <<obj, anno, bind, lock, strayed>> /\ pc[h] = "return" /\ call' = NoCall
      /\ answer' = [answer EXCEPT ![p][c] = Served(h)]
      /\ answer \in [Pod -> [Ctr -> Seq(Dev) \cup {NoAnswer}]] /\ NoAnswer \notin Seq(Dev)
  BY NoneAssumption DEF Return, Own, cluster, IInv, IType, Shapes
<1>1. mine[h] \in Pod /\ Serviceable(h) /\ Served(h) # NoAnswer
  <2>1. mine[h] \in Pod /\ Serviceable(h)
    BY <1>0 DEF IInv, IType, Knows, PastErase
  <2> QED BY <1>0, <2>1, ServedType DEF IInv, IType
<1>2. /\ obj[p] \in {"bound", "gone"} /\ c \in NonEmpty(Chosen[p]) /\ c \in Ctr
      /\ \A d : d \in Answered(p) <=> d \in NonEmpty(Chosen[p]) /\ d < c
      /\ Done(p) = Answered(p) \cup {c} /\ Done(p) \subseteq NonEmpty(Chosen[p])
      /\ Ctr \in SUBSET Int /\ NonEmpty(Chosen[p]) \subseteq Ctr
  BY OwnFacts, CtrFacts DEF Done
<1> HIDE DEF c
<1>3. /\ answer'[p][c] = Served(h)
      /\ \A d \in Ctr : d # c => answer'[p][d] = answer[p][d]
  BY <1>0, <1>2
<1>4. Answered(p)' = Done(p)
  BY <1>1, <1>2, <1>3 DEF Answered
<1>5. Progress(p)'
  <2>1. ASSUME NEW e \in Done(p), NEW d \in NonEmpty(Chosen[p]), d < e PROVE d \in Done(p)
    <3>1. e \in Int /\ d \in Int /\ c \in Int /\ (e = c \/ e < c)
      BY <1>2
    <3>2. d < c
      BY <2>1, <3>1
    <3> QED BY <1>2, <3>2
  <2> QED BY <1>0, <1>2, <1>4, <2>1 DEF Progress
<1>6. ASSUME p \notin strayed
      PROVE  (Unserved(p) /\ BoundSound(p) /\ SuccessServed(p))'
  <2>1. Unserved(p)'
    BY <1>0, <1>2 DEF Unserved
  <2>2. SuccessServed(p)'
    <3>1. bind[p] = "success" => \A d \in NonEmpty(Chosen[p]) : d \in Done(p)
      BY <1>2, <1>6 DEF IInv, Sound, SuccessServed, c
    <3> QED BY <1>0, <1>4, <3>1 DEF SuccessServed
  <2>3. ASSUME obj[p] = "bound"
        PROVE  Between(p)' /\ \A d \in Done(p) : answer'[p][d] = Chosen[p][d]
    <3>1. /\ mine[h] = p /\ Layout(copy[h], p, Answered(p)) /\ anno[p] = Left(p, Done(p))
          /\ Locked(p) \/ Done(p) = NonEmpty(Chosen[p])
      BY <1>0, <1>6, <2>3, OwnFacts DEF Serving, PastErase
    <3>2. Served(h) = Chosen[p][c]
      BY <1>1, <3>1, ServesOwn DEF c
    <3>3. \A d \in Answered(p) : answer[p][d] = Chosen[p][d] /\ d \in Ctr
      BY <1>6, <2>3 DEF IInv, Sound, BoundSound, Answered
    <3>4. \A d \in Done(p) : answer'[p][d] = Chosen[p][d]
      BY <1>2, <1>3, <3>2, <3>3
    <3>5. Between(p)'
      <4>1. anno'[p] = Left(p, Answered(p)') /\ (Locked(p)' \/ Answered(p)' = NonEmpty(Chosen[p]))
        BY <1>0, <1>4, <3>1 DEF Locked
      <4> QED BY <4>1 DEF Between, Layout, LaidOut, Left
    <3> QED BY <3>4, <3>5
  <2>4. BoundSound(p)'
    BY <1>0, <1>4, <2>3 DEF BoundSound, Calling
  <2> QED BY <2>1, <2>2, <2>4
<1> QED BY <1>0, <1>5, <1>6 DEF Sound

LEMMA RejectSound ==
  ASSUME IInv, NEW h \in Handler, NEW p \in Pod, Own(p, h), ReturnError(h)
  PROVE  Sound(p)'
<1>0. /\ UNCHANGED <<anno, bind, lock, answer, strayed>> /\ call' = NoCall /\ pc[h] = "error"
      /\ obj'[p] \in {"rejected", "gone"} /\ Answered(p)' = Answered(p)
  BY OwnFacts DEF ReturnError, Own, IInv, IType, Shapes, Answered
<1>1. (Progress(p) /\ Unserved(p) /\ BoundSound(p))'
  BY <1>0 DEF IInv, Sound, Progress, Unserved, BoundSound
<1>2. p \notin strayed => SuccessServed(p)'
  BY <1>0 DEF IInv, Sound, SuccessServed, Own, Calling
<1> QED BY <1>0, <1>1, <1>2 DEF Sound

LEMMA HandleSound ==
  ASSUME IInv, NEW h \in Handler, Handle(h)
  PROVE  CallSound' /\ NamesUnique' /\ \A q \in Pod : Sound(q)'
<1>1. Moves(h)
  BY HandleMoves
<1>2. ASSUME NEW q \in Pod, ~Own(q, h) PROVE Sound(q)'
  BY <1>1, <1>2, OthersApart, ApartSound DEF IInv
<1>3. ASSUME NEW q \in Pod, Own(q, h) PROVE Sound(q)'
  BY <1>1, <1>3, OwnGoesOn, AnswerSound, RejectSound
<1> QED BY <1>1, <1>2, <1>3, HandleCallSound

LEMMA NextSound == IInv /\ [Next]_vars => IInv'
<1> SUFFICES ASSUME IInv, [Next]_vars PROVE IInv'
  OBVIOUS
<1>1. IType'
  BY NextType DEF IInv
<1>2. CallSound' /\ NamesUnique' /\ \A q \in Pod : Sound(q)'
  <2>1. CASE UNCHANGED vars
    <3>1. /\ UNCHANGED <<obj, anno, bind, lock, answer, call, pc, want, mine, copy, strayed>>
          /\ \A q \in Pod : Apart(q)
      BY <2>1 DEF vars, cluster, local, Apart
    <3>2. CallSound' /\ NamesUnique'
      BY <3>1 DEF IInv, CallSound, Answered, NamesUnique, Live
    <3> QED BY <3>1, <3>2, ApartSound DEF IInv
  <2> QED BY <2>1, CreateSound, ScheduleSound, BindSound, DeleteSound, NewCallSound, RestartSound,
             HandleSound DEF Next
<1> QED BY <1>1, <1>2 DEF IInv

-----------------------------------------------------------------------------
(* Theorems                                                                *)

LEMMA AlwaysSound == Spec => []IInv
  BY InitSound, NextSound, PTL DEF Spec

\* Kubelet gets, for each container of a pod it admits, the devices the scheduler
\* chose for that container, unless a call patched the pod that was not for it:
\* the alignment of dense segments, the copy a handler keeps across its API calls
\* and the node lock never mix up two containers or two pods (AllocateHAMiHCUs).
THEOREM AnswersOwn == Spec => []ServedOwn
<1>1. IInv => ServedOwn
  BY DEF IInv, Sound, BoundSound, Answered, ServedOwn
<1> QED BY <1>1, AlwaysSound, PTL

\* The bind phase says success only when every container of the pod has its
\* answer or is about to get the last one (PodAllocationTrySuccess).
THEOREM SuccessIsServed == Spec => []SuccessMeansServed
<1>1. IInv => SuccessMeansServed
  BY CtrFacts DEF IInv, Sound, SuccessServed, Answered, SuccessMeansServed
<1> QED BY <1>1, AlwaysSound, PTL

\* As long as a bound pod has a container to serve the node lock is its own: only
\* a call that fails, or the last one, gives it up (PodAllocationFailed,
\* PodAllocationSuccess).
THEOREM LockHeld == Spec => []LockCoversPod
<1>1. IInv => LockCoversPod
  <2> SUFFICES ASSUME IInv, NEW p \in Pod, NEW c \in Ctr, obj[p] = "bound",
                      bind[p] = "allocating", c \in NonEmpty(Chosen[p]),
                      answer[p][c] = NoAnswer, p \notin strayed
               PROVE  \/ lock = NameOf[p]
                      \/ Calling(p) /\ call.ctr = c /\ pc[call.by] = "return"
                      \/ Calling(p) /\ pc[call.by] = "error"
    BY DEF LockCoversPod
  <2>0. c \notin Answered(p)
    BY DEF Answered
  <2>1. CASE ~Calling(p)
    BY <2>0, <2>1 DEF IInv, Sound, BoundSound, Between, Locked
  <2>2. CASE Calling(p)
    <3>1. Serving(p, call.by, Answered(p) \cup {call.ctr})
      BY <2>2 DEF IInv, Sound, BoundSound
    <3>2. pc[call.by] \in HandlerPcs /\ pc[call.by] # "idle"
      BY <2>2 DEF IInv, IType, Shapes, Calls, CallSound, Calling
    <3> QED BY <2>0, <2>2, <3>1, <3>2 DEF Serving, Locked, HandlerPcs
  <2> QED BY <2>1, <2>2
<1> QED BY <1>1, AlwaysSound, PTL
=============================================================================
