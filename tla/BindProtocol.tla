---------------------------- MODULE BindProtocol ----------------------------
(***************************************************************************)
(* How an Allocate call finds out what it is for.  Kubelet does not say    *)
(* which pod and container it asks for; HAMi's scheduler holds the node    *)
(* lock for one pod at a time and leaves the devices of its containers in  *)
(* an annotation, which the calls consume segment by segment.  The last    *)
(* call, or one that fails, settles the bind phase and frees the lock.     *)
(*                                                                         *)
(* Code: internal/pkg/plugin/plugin.go (getPendingPodWithRetry,            *)
(* AllocateHAMiHCUs), internal/pkg/util/util.go                            *)
(* (EraseNextDeviceTypeFromAnnotation, PodAllocationTrySuccess,            *)
(* PodAllocationSuccess, PodAllocationFailed).  HAMi's scheduler, lock and *)
(* GetPendingPod, kubelet and the API server are external.  PodDevices     *)
(* shows that decoding an encoded annotation gives its segments back, so   *)
(* an annotation is its list of segments here.                             *)
(***************************************************************************)
EXTENDS PodDevices

CONSTANTS
  Pod,       \* pod UIDs
  Name,      \* namespace/name pairs
  NameOf,    \* [Pod -> Name]
  N,         \* containers of a pod, init containers first
  Chosen,    \* Chosen[p][c]: the devices the scheduler chooses for container c
  Other,     \* Other[p]: containers with a hygon.com limit but no hcunum
  Handler,   \* gRPC handler goroutines of Allocate
  NoName,    \* the node lock is free
  NoPod,     \* a handler holds no pod copy
  NoCall,    \* kubelet waits for no answer
  NoAnswer,  \* kubelet has no answer for a container
  MaxTries,  \* pendingPodRetryTimes
  MaxFaults  \* API calls that fail
CONSTANT KubeletRestarts  \* TRUE: kubelet may restart during an Allocate call

Ctr == 1 .. N

ASSUME BindAssumption ==
  /\ N \in Nat \ {0} /\ MaxTries \in Nat \ {0} /\ MaxFaults \in Nat
  /\ NameOf \in [Pod -> Name] /\ NoName \notin Name /\ NoPod \notin Pod
  /\ Chosen \in [Pod -> [Ctr -> Seq(Dev)]]
  /\ Other \in [Pod -> SUBSET Ctr]
  /\ \A p \in Pod : NonEmpty(Chosen[p]) # {} /\ Other[p] \cap NonEmpty(Chosen[p]) = {}
  /\ KubeletRestarts \in BOOLEAN
ASSUME NoneAssumption ==
  /\ NoCall \notin [pod : Pod, ctr : Ctr, by : Handler]
  /\ NoAnswer \notin Seq(Dev)

VARIABLES
  obj,    \* obj[p]: the pod object, and whether kubelet refused it
  anno,   \* anno[p]: the segments of its devices-to-allocate annotation
  bind,   \* bind[p]: its bind-phase annotation
  lock,   \* the name in the node lock annotation
  answer, \* answer[p][c]: the devices of the answer kubelet recorded
  call,   \* kubelet's outstanding call
  pc,     \* pc[h]: where handler h is
  want,   \* want[h]: how many devices kubelet asked h for
  mine,   \* mine[h]: the pod h believes the call is for
  copy,   \* copy[h]: the annotation of h's copy of that pod
  tries,  \* tries[h]: failed GetPendingPod calls
  strayed, \* history: pods that a call patched that was not for them, or that
          \* kubelet had given up
  faults

cluster == <<obj, anno, bind, lock>>
local == <<want, mine, copy, tries>>
vars == <<cluster, answer, call, pc, local, strayed, faults>>

Live(p) == obj[p] \in {"created", "bound", "rejected"}
Requesting(p) == NonEmpty(Chosen[p]) \cup Other[p]
Segments(h) == Expand(copy[h], N, Requesting(mine[h]))
Served(h) == Segments(h)[NextContainer(Segments(h))]

\* The pod objects an API call that names h's pod reaches: the name only.
Reached(h) == {q \in Pod : Live(q) /\ NameOf[q] = NameOf[mine[h]]}

Fault == faults < MaxFaults /\ faults' = faults + 1
NoFault == UNCHANGED faults
\* Kubelet no longer waits for h's answer; h's patch reaches pods other than
\* the one kubelet waits for.
GivenUp(h) == call = NoCall \/ call.by # h
Touch(h) == strayed' = strayed \cup (Reached(h) \ IF GivenUp(h) THEN {} ELSE {call.pod})
Goto(h, to) == pc' = [pc EXCEPT ![h] = to]

-----------------------------------------------------------------------------
(* HAMi's scheduler, users and kubelet (external).                          *)

CreatePod(p) ==
  /\ obj[p] = "absent"
  /\ \A q \in Pod : NameOf[q] = NameOf[p] => ~Live(q)
  /\ obj' = [obj EXCEPT ![p] = "created"]
  /\ UNCHANGED <<anno, bind, lock, answer, call, pc, local, faults, strayed>>

\* The annotation has a segment for every container that gets devices; the
\* empty segments of other containers may be there or not.
Schedule(p) ==
  /\ obj[p] = "created"
  /\ anno[p] = <<>>
  /\ \E kept \in SUBSET Ctr :
       anno' = [anno EXCEPT ![p] = Kept(Chosen[p], kept \cup NonEmpty(Chosen[p]))]
  /\ UNCHANGED <<obj, bind, lock, answer, call, pc, local, faults, strayed>>

Bind(p) ==
  /\ obj[p] = "created"
  /\ anno[p] # <<>>
  /\ lock = NoName
  /\ lock' = NameOf[p]
  /\ bind' = [bind EXCEPT ![p] = "allocating"]
  /\ obj' = [obj EXCEPT ![p] = "bound"]
  /\ UNCHANGED <<anno, answer, call, pc, local, faults, strayed>>

DeletePod(p) ==
  /\ Live(p)
  /\ obj' = [obj EXCEPT ![p] = "gone"]
  /\ UNCHANGED <<anno, bind, lock, answer, call, pc, local, faults, strayed>>

\* Kubelet asks for the containers of a pod in flat order, one call at a time.
Call(p, c, h) ==
  /\ call = NoCall
  /\ pc[h] = "idle"
  /\ obj[p] = "bound"
  /\ c \in NonEmpty(Chosen[p])
  /\ answer[p][c] = NoAnswer
  /\ \A d \in NonEmpty(Chosen[p]) : d < c => answer[p][d] # NoAnswer
  /\ call' = [pod |-> p, ctr |-> c, by |-> h]
  /\ Goto(h, "pending")
  /\ want' = [want EXCEPT ![h] = Len(Chosen[p][c])]
  /\ tries' = [tries EXCEPT ![h] = 0]
  /\ UNCHANGED <<cluster, answer, mine, copy, faults, strayed>>

\* The answer of the call in progress is lost; its handler runs on.
KubeletRestart ==
  /\ KubeletRestarts
  /\ call # NoCall
  /\ Fault
  /\ call' = NoCall
  /\ strayed' = strayed \cup {p \in {call.pod} : pc[call.by] \notin {"pending", "next"}}
  /\ UNCHANGED <<cluster, answer, pc, local>>

\* hmutil.GetPendingPod: the pod the node lock names or, when the lock is
\* free, a pod of the node whose bind phase is "allocating".
Pending ==
  IF lock # NoName THEN {p \in Pod : Live(p) /\ NameOf[p] = lock}
  ELSE {p \in Pod : obj[p] = "bound" /\ bind[p] = "allocating"}

\* nodelock.ReleaseNodeLock frees the lock of the pod it is given.
ReleaseNodeLock(h) == lock' = IF lock = NameOf[mine[h]] THEN NoName ELSE lock

-----------------------------------------------------------------------------
(* AllocateHAMiHCUs.                                                       *)

GetPendingPod(h) ==
  /\ pc[h] = "pending"
  /\ \E p \in Pending :
       /\ mine' = [mine EXCEPT ![h] = p]
       /\ copy' = [copy EXCEPT ![h] = anno[p]]
  /\ Goto(h, "next")
  /\ UNCHANGED <<cluster, answer, call, want, tries, faults, strayed>>

\* Mutants of a failed attempt: one attempt too many; attempts without end.
RetryOnceMore(h) ==
  /\ pc[h] = "pending"
  /\ IF Pending = {} THEN NoFault ELSE Fault
  /\ tries' = [tries EXCEPT ![h] = @ + 1]
  /\ Goto(h, IF tries[h] = MaxTries THEN "error" ELSE "pending")
  /\ UNCHANGED <<cluster, answer, call, want, mine, copy, strayed>>
RetryForever(h) ==
  /\ pc[h] = "pending"
  /\ IF Pending = {} THEN NoFault ELSE Fault
  /\ tries' = [tries EXCEPT ![h] = (@ + 1) % MaxTries]
  /\ UNCHANGED <<cluster, answer, call, pc, want, mine, copy, strayed>>

\* A failed attempt; the last one, or kubelet hanging up, ends the call with
\* an error and leaves bind phase and lock alone.
GetPendingPodFails(h) ==
  /\ pc[h] = "pending"
  /\ IF Pending = {} THEN NoFault ELSE Fault
  /\ tries' = [tries EXCEPT ![h] = @ + 1]
  /\ Goto(h, IF tries[h] + 1 = MaxTries \/ GivenUp(h)
             THEN "error" ELSE "pending")
  /\ UNCHANGED <<cluster, answer, call, want, mine, copy, strayed>>

Serviceable(h) ==
  /\ Alignable(copy[h], N, Requesting(mine[h]))
  /\ NonEmpty(Segments(h)) # {}
  /\ Len(Served(h)) = want[h]

\* The annotation cannot be aligned, is used up, or holds a segment of another
\* size than kubelet asks for.
RejectRequest(h) ==
  /\ pc[h] = "next"
  /\ ~Serviceable(h)
  /\ Goto(h, "failphase")
  /\ UNCHANGED <<cluster, answer, call, local, faults, strayed>>

\* Mutant: the segments are written back as they were.
EraseNothing(h) == anno' = [q \in Pod |-> IF q \in Reached(h) THEN Segments(h) ELSE anno[q]]

\* EraseNextDeviceTypeFromAnnotation: what the copy says is left replaces the
\* annotation of whichever pod has the name now.
WriteErased(h) ==
  anno' = [q \in Pod |-> IF q \in Reached(h) THEN EraseFirstDeviceSegment(Segments(h)) ELSE anno[q]]

Erase(h) ==
  /\ pc[h] = "next"
  /\ Serviceable(h)
  /\ Reached(h) # {}
  /\ WriteErased(h)
  /\ Goto(h, "create")
  /\ Touch(h)
  /\ UNCHANGED <<obj, bind, lock, answer, call, local, faults>>

\* The patch fails, or was applied and its answer lost.
EraseFails(h) ==
  /\ pc[h] = "next"
  /\ Serviceable(h)
  /\ IF Reached(h) = {} THEN UNCHANGED anno /\ NoFault
     ELSE (UNCHANGED anno \/ WriteErased(h)) /\ Fault
  /\ Goto(h, "failphase")
  /\ Touch(h)
  /\ UNCHANGED <<obj, bind, lock, answer, call, local>>

\* Cards are looked up, the vHCU is created, marked and mounted, or not.
Create(h) ==
  /\ pc[h] = "create"
  /\ Goto(h, "check") \/ Goto(h, "failphase")
  /\ UNCHANGED <<cluster, answer, call, local, faults, strayed>>

\* Mutants of TrySuccess: any served call settles the pod; every served call
\* frees the lock; the handler's own copy is looked at.
SettleAlways(h) ==
  /\ pc[h] = "check"
  /\ Goto(h, "successphase")
  /\ UNCHANGED <<cluster, answer, call, local, faults, strayed>>
ReleaseEachTime(h) ==
  /\ pc[h] = "check"
  /\ \E q \in Reached(h) :
       Goto(h, IF NonEmpty(anno[q]) # {} THEN "successlock" ELSE "successphase")
  /\ UNCHANGED <<cluster, answer, call, local, faults, strayed>>
TrySuccessOnCopy(h) ==
  /\ pc[h] = "check"
  /\ Goto(h, IF NonEmpty(copy[h]) # {} THEN "return" ELSE "successphase")
  /\ UNCHANGED <<cluster, answer, call, local, faults, strayed>>

\* PodAllocationTrySuccess: it reads the pod again, and leaves everything
\* alone when that fails or when some device remains to be served.
TrySuccess(h) ==
  /\ pc[h] = "check"
  /\ \/ \E q \in Reached(h) :
          Goto(h, IF NonEmpty(anno[q]) # {} THEN "return" ELSE "successphase") /\ NoFault
     \/ Reached(h) = {} /\ Goto(h, "return") /\ NoFault
     \/ Goto(h, "return") /\ Fault
  /\ UNCHANGED <<cluster, answer, call, local, strayed>>

PhaseOf(h) == IF pc[h] = "successphase" THEN "success" ELSE "failed"

\* The patch of the bind phase; its error is only logged.
PatchPhase(h) ==
  /\ pc[h] \in {"successphase", "failphase"}
  /\ \/ bind' = [q \in Pod |-> IF q \in Reached(h) THEN PhaseOf(h) ELSE bind[q]] /\ NoFault
     \/ UNCHANGED bind /\ Fault
  /\ Goto(h, IF pc[h] = "successphase" THEN "successlock" ELSE "faillock")
  /\ Touch(h)
  /\ UNCHANGED <<obj, anno, lock, answer, call, local>>

Unlock(h) ==
  /\ pc[h] \in {"successlock", "faillock"}
  /\ \/ ReleaseNodeLock(h) /\ NoFault
     \/ UNCHANGED lock /\ Fault
  /\ Goto(h, IF pc[h] = "successlock" THEN "return" ELSE "error")
  /\ Touch(h)
  /\ UNCHANGED <<obj, anno, bind, answer, call, local>>

\* Kubelet records the answer of the call it still waits for.
Return(h) ==
  /\ pc[h] = "return"
  /\ Goto(h, "idle")
  /\ IF call # NoCall /\ call.by = h
       THEN /\ answer' = [answer EXCEPT ![call.pod][call.ctr] = Served(h)]
            /\ call' = NoCall
       ELSE UNCHANGED <<answer, call>>
  /\ UNCHANGED <<cluster, local, faults, strayed>>

\* An error of the call kubelet still waits for fails the pod's admission.
ReturnError(h) ==
  /\ pc[h] = "error"
  /\ Goto(h, "idle")
  /\ IF call # NoCall /\ call.by = h
       THEN /\ obj' = IF obj[call.pod] = "bound" THEN [obj EXCEPT ![call.pod] = "rejected"] ELSE obj
            /\ call' = NoCall
       ELSE UNCHANGED <<obj, call>>
  /\ UNCHANGED <<anno, bind, lock, answer, local, faults, strayed>>

Handle(h) ==
  \/ GetPendingPod(h)
  \/ GetPendingPodFails(h)
  \/ RejectRequest(h)
  \/ Erase(h)
  \/ EraseFails(h)
  \/ Create(h)
  \/ TrySuccess(h)
  \/ PatchPhase(h)
  \/ Unlock(h)
  \/ Return(h)
  \/ ReturnError(h)

-----------------------------------------------------------------------------

Init ==
  /\ obj = [p \in Pod |-> "absent"]
  /\ anno = [p \in Pod |-> <<>>]
  /\ bind = [p \in Pod |-> "none"]
  /\ lock = NoName
  /\ answer = [p \in Pod |-> [c \in Ctr |-> NoAnswer]]
  /\ call = NoCall
  /\ pc = [h \in Handler |-> "idle"]
  /\ want = [h \in Handler |-> 0]
  /\ mine = [h \in Handler |-> NoPod]
  /\ copy = [h \in Handler |-> <<>>]
  /\ tries = [h \in Handler |-> 0]
  /\ strayed = {} /\ faults = 0

Next ==
  \/ \E p \in Pod :
       \/ CreatePod(p)
       \/ Schedule(p)
       \/ Bind(p)
       \/ DeletePod(p)
       \/ \E c \in Ctr, h \in Handler : Call(p, c, h)
  \/ KubeletRestart
  \/ \E h \in Handler : Handle(h)

Spec == Init /\ [][Next]_vars

\* Kubelet admits the pods bound to its node; a handler that started runs on.
Fairness ==
  /\ WF_vars(\E p \in Pod, c \in Ctr, h \in Handler : Call(p, c, h))
  /\ \A h \in Handler : WF_vars(Handle(h))

FairSpec == Spec /\ Fairness

-----------------------------------------------------------------------------
(* Properties.                                                             *)

Calling(p) == call # NoCall /\ call.pod = p
HandlerPcs == {"idle", "pending", "next", "create", "check", "successphase",
               "successlock", "failphase", "faillock", "return", "error"}

\* Shapes of the variables; a handler past its look-up has a pod, one past its
\* rejections has a segment to serve, and no call makes more attempts to find
\* the pending pod than pendingPodRetryTimes.
TypeOK ==
  /\ obj \in [Pod -> {"absent", "created", "bound", "rejected", "gone"}]
  /\ anno \in [Pod -> Seq(Seq(Dev))]
  /\ bind \in [Pod -> {"none", "allocating", "success", "failed"}]
  /\ lock \in Name \cup {NoName}
  /\ answer \in [Pod -> [Ctr -> Seq(Dev) \cup {NoAnswer}]]
  /\ call \in [pod : Pod, ctr : Ctr, by : Handler] \cup {NoCall}
  /\ pc \in [Handler -> HandlerPcs]
  /\ want \in [Handler -> Nat]
  /\ mine \in [Handler -> Pod \cup {NoPod}]
  /\ copy \in [Handler -> Seq(Seq(Dev))]
  /\ tries \in [Handler -> 0 .. MaxTries]
  /\ faults \in 0 .. MaxFaults
  /\ \A h \in Handler : pc[h] \notin {"idle", "pending", "error"} => mine[h] \in Pod
  /\ \A h \in Handler : pc[h] \in {"create", "check", "return"} => Serviceable(h)

\* Kubelet gets, for a container of a pod it admits, the devices the scheduler
\* chose for that container ("the plugin maps dense HAMi device annotations
\* onto the correct containers", README_EN.md:435).
ServedOwn ==
  \A p \in Pod, c \in Ctr :
    obj[p] = "bound" => answer[p][c] \in {NoAnswer, Chosen[p][c]} \/ p \in strayed

\* The same without the exception.
ServedOwnAlways ==
  \A p \in Pod, c \in Ctr :
    obj[p] = "bound" => answer[p][c] \in {NoAnswer, Chosen[p][c]}

\* The bind phase says success only when every container of the pod has been
\* served: kubelet has its answer or is about to get the last one.
SuccessMeansServed ==
  \A p \in Pod : bind[p] = "success" =>
    \A c \in NonEmpty(Chosen[p]) :
      \/ answer[p][c] # NoAnswer \/ p \in strayed
      \/ /\ Calling(p) /\ call.ctr = c
         /\ pc[call.by] \in {"successlock", "return"}

\* As long as a bound pod has a container to serve, the node lock is its own, so
\* that no other pod is being allocated; only a call that fails, or the last
\* one, gives it up before kubelet hears of it.
LockCoversPod ==
  \A p \in Pod, c \in Ctr :
    /\ obj[p] = "bound" /\ bind[p] = "allocating"
    /\ c \in NonEmpty(Chosen[p]) /\ answer[p][c] = NoAnswer
    => \/ lock = NameOf[p] \/ p \in strayed
       \/ Calling(p) /\ call.ctr = c /\ pc[call.by] = "return"
       \/ Calling(p) /\ pc[call.by] = "error"

\* Every call of kubelet is answered, also when its pod is deleted meanwhile or
\* cannot be found.
CallReturns == call # NoCall ~> call = NoCall

\* Unless an API call fails, the node lock of a pod that stays is given back,
\* whether its calls succeed or fail.
LockFreed ==
  \A p \in Pod :
    obj[p] = "bound" /\ lock = NameOf[p]
      ~> lock # NameOf[p] \/ obj[p] = "gone" \/ faults > 0

=============================================================================
