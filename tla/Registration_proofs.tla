------------------------ MODULE Registration_proofs ------------------------
(***************************************************************************)
(* Proofs, for any number of cards, goroutines and failures: no library of *)
(* DCGM is closed outside the reconciliation, unless the last Init failed, *)
(* and a failing health query drains nothing.                              *)
(***************************************************************************)
EXTENDS Registration, TLAPS

Users == {"count", "shut", "init"}
Steps == Users \cup {"idle", "lock", "snapshot", "full", "remain", "patch"}

\* The goroutine that counts the cards, closes or opens DCGM is the one with the mutex.
LockInv ==
  /\ pc \in [Thread -> Steps]
  /\ lock \in Thread \cup {NoOne}
  /\ open \subseteq Libs
  /\ \A t \in Thread : (pc[t] \in Users) <=> (lock = t)

\* With that, the next step of the mutex's holder is Init when a library is
\* closed and the last Init did not fail.
ClosedInv == LockInv /\ ClosedUnderLock

\* No goroutine is called NoOne.
LEMMA NoOneIsNoThread == NoOne \notin Thread
  BY RegistrationAssumption DEF Thread, Registrar

\* A goroutine that leaves the reconciliation with Reconciled gives up the
\* mutex, and no other one has it.
LEMMA ReconciledKeeps ==
  ASSUME LockInv, NEW t \in Thread, pc[t] \in Users, Reconciled(t),
         open' \subseteq Libs
  PROVE  LockInv'
<1>1. lock = t /\ lock' = NoOne
  BY DEF LockInv, Reconciled
<1>2. pc' \in [Thread -> Steps] /\ pc'[t] \notin Users
  BY DEF LockInv, Reconciled, Goto, Steps, Users
<1>3. ASSUME NEW u \in Thread PROVE pc'[u] \notin Users
  <2>1. CASE u = t
    BY <1>2, <2>1
  <2>2. CASE u # t
    <3>1. pc[u] \notin Users /\ pc'[u] = pc[u]
      BY <1>1, <2>2 DEF LockInv, Reconciled, Goto
    <3> QED BY <3>1
  <2> QED BY <2>1, <2>2
<1> QED BY <1>1, <1>2, <1>3, NoOneIsNoThread DEF LockInv

\* A step outside the reconciliation changes neither the mutex nor who needs it.
LEMMA OutsideKeeps ==
  ASSUME LockInv, NEW t \in Thread, NEW to \in Steps \ Users,
         pc[t] \notin Users, Goto(t, to), UNCHANGED <<lock, open>>
  PROVE  LockInv'
  BY DEF LockInv, Goto, Steps, Users

\* Each step of the reconciliation keeps the mutex with its user.
LEMMA ReconcileStep ==
  ASSUME ClosedInv, NEW t \in Thread, Reconcile(t)
  PROVE  ClosedInv'
<1>0. LockInv /\ ClosedUnderLock
  BY DEF ClosedInv
<1>1. CASE Begin(t)
  <2>1. LockInv'
    BY <1>0, <1>1, OutsideKeeps DEF Begin, library, Steps, Users
  <2>2. lock # t
    BY <1>0, <1>1 DEF Begin, LockInv, Users
  <2>3. ClosedUnderLock'
    BY <1>0, <1>1, <2>2 DEF Begin, ClosedUnderLock, LockInv, Goto, library, history
  <2> QED BY <2>1, <2>3 DEF ClosedInv
<1>2. CASE Lock(t)
  <2>1. lock = NoOne /\ lock' = t /\ pc'[t] = "count" /\ open' = open /\ lost' = lost
    BY <1>0, <1>2 DEF Lock, Goto, LockInv, library, history
  <2>2. pc' \in [Thread -> Steps]
    BY <1>0, <1>2 DEF Lock, Goto, LockInv, Steps, Users
  <2>3. ASSUME NEW u \in Thread, u # t PROVE pc'[u] \notin Users
    BY <1>0, <1>2, <2>1, <2>3, NoOneIsNoThread DEF Lock, Goto, LockInv
  <2>4. LockInv'
    BY <1>0, <2>1, <2>2, <2>3 DEF LockInv, Users
  <2>5. open = Libs \/ lost
    BY <1>0, <2>1 DEF ClosedUnderLock
  <2> QED BY <2>1, <2>4, <2>5 DEF ClosedInv, ClosedUnderLock
<1>3. CASE LeaveDcgm(t)
  <2>1. pc[t] = "count" /\ Reconciled(t) /\ open' = open /\ lost' = lost
    BY <1>3 DEF LeaveDcgm, Leaves, Counted, library, history
  <2>2. LockInv'
    BY <1>0, <2>1, ReconciledKeeps DEF LockInv, Users
  <2>3. open = Libs \/ lost
    BY <1>0, <2>1 DEF LockInv, ClosedUnderLock, Users
  <2> QED BY <2>1, <2>2, <2>3 DEF ClosedInv, ClosedUnderLock
<1>4. CASE OutOfStep(t)
  <2>1. pc[t] = "count" /\ Goto(t, "shut") /\ lock' = lock /\ open' = open /\ lost' = lost
    BY <1>4 DEF OutOfStep, library, history
  <2>2. LockInv'
    BY <1>0, <2>1 DEF LockInv, Goto, Steps, Users
  <2>3. open = Libs \/ lost
    BY <1>0, <2>1 DEF LockInv, ClosedUnderLock, Users
  <2> QED BY <2>1, <2>2, <2>3 DEF ClosedInv, ClosedUnderLock
<1>5. CASE ShutDown(t)
  <2>1. pc[t] = "shut" /\ Goto(t, "init") /\ lock' = lock
    BY <1>5 DEF ShutDown
  <2>2. open' \subseteq Libs
    BY <1>0, <1>5 DEF ShutDown, Closes, LockInv
  <2>3. LockInv'
    BY <1>0, <2>1, <2>2 DEF LockInv, Goto, Steps, Users
  <2>4. lock' = t /\ pc'[t] = "init"
    BY <1>0, <2>1 DEF LockInv, Goto, Users
  <2>5. t # NoOne
    BY NoOneIsNoThread
  <2> QED BY <2>3, <2>4, <2>5 DEF ClosedInv, ClosedUnderLock
<1>6. CASE InitDcgm(t)
  <2>1. pc[t] = "init" /\ Reconciled(t) /\ open' = Libs
    BY <1>6 DEF InitDcgm
  <2>2. LockInv'
    BY <1>0, <2>1, ReconciledKeeps DEF Users
  <2> QED BY <2>1, <2>2 DEF ClosedInv, ClosedUnderLock
<1>7. CASE InitFails(t)
  <2>1. pc[t] = "init" /\ Reconciled(t) /\ open' \subseteq Libs /\ lost' = TRUE
    BY <1>0, <1>7 DEF InitFails, LockInv
  <2>2. LockInv'
    BY <1>0, <2>1, ReconciledKeeps DEF Users
  <2> QED BY <2>1, <2>2 DEF ClosedInv, ClosedUnderLock
<1> QED BY <1>1, <1>2, <1>3, <1>4, <1>5, <1>6, <1>7 DEF Reconcile

\* The steps of a registration do not touch the mutex or DCGM.
LEMMA RegisterStep ==
  ASSUME ClosedInv, NEW t \in Registrar, Register(t)
  PROVE  ClosedInv'
<1>0. LockInv /\ ClosedUnderLock /\ t \in Thread
  BY DEF ClosedInv, Thread
<1>1. pc[t] \notin Users /\ UNCHANGED <<lock, open, lost>>
  BY DEF Register, Snapshot, FullList, ListCards, RemainingList, PatchNode, ApiFails, library, history, Users
<1>2. \E to \in Steps \ Users : Goto(t, to)
  BY DEF Register, Snapshot, FullList, ListCards, RemainingList, PatchNode, ApiFails, Steps, Users
<1>3. PICK to \in Steps \ Users : Goto(t, to)
  BY <1>2
<1>4. LockInv'
  BY <1>0, <1>1, <1>3, OutsideKeeps
<1>5. lock # t
  BY <1>0, <1>1 DEF LockInv
<1>6. ClosedUnderLock'
  BY <1>0, <1>1, <1>3, <1>5 DEF ClosedUnderLock, LockInv, Goto
<1> QED BY <1>4, <1>6 DEF ClosedInv

\* Both libraries are open at the start, and the mutex is free.
LEMMA InitClosed == Init => ClosedInv
<1> SUFFICES ASSUME Init PROVE ClosedInv
  OBVIOUS
<1>1. LockInv
  BY NoOneIsNoThread DEF Init, LockInv, Steps, Users
<1> QED BY <1>1 DEF Init, ClosedInv, ClosedUnderLock

\* No step closes a library without the mutex.
LEMMA ClosedNext == ClosedInv /\ [Next]_vars => ClosedInv'
<1> SUFFICES ASSUME ClosedInv, [Next]_vars PROVE ClosedInv'
  OBVIOUS
<1>1. ASSUME NEW t \in Thread, Reconcile(t) PROVE ClosedInv'
  BY <1>1, ReconcileStep
<1>2. ASSUME NEW t \in Registrar, Register(t) PROVE ClosedInv'
  BY <1>2, RegisterStep
<1>3. ASSUME NEW c \in Card, UseVhcu(c) \/ FallIll(c) \/ Plug(c) PROVE ClosedInv'
  <2>1. UNCHANGED <<lock, pc, open, lost>>
    BY <1>3 DEF UseVhcu, FallIll, Plug, rest, library, history
  <2> QED BY <2>1 DEF ClosedInv, LockInv, ClosedUnderLock
<1>4. CASE UNCHANGED vars
  BY <1>4 DEF vars, library, history, ClosedInv, LockInv, ClosedUnderLock
<1> QED BY <1>1, <1>2, <1>3, <1>4 DEF Next

\* Unless the last Init failed, ReconcileDCGMDevices leaves both libraries of
\* DCGM open on every way out, a failed ShutDown included: one is closed only
\* between a goroutine's ShutDown and its Init, under the mutex, however many
\* goroutines reconcile and whatever else fails.
THEOREM ClosedOnlyUnderLock == Spec => []ClosedUnderLock
<1>1. ClosedInv => ClosedUnderLock
  BY DEF ClosedInv
<1> QED BY InitClosed, ClosedNext, <1>1, PTL DEF Spec

-----------------------------------------------------------------------------
(* Types, and the health of the cards                                      *)

\* The lists of a goroutine that is past its own step speak of cards that are
\* there, and unless DCGM was blind, of all the cards there were at the start.
Shapes ==
  /\ seen \subseteq present /\ present \subseteq Card
  /\ AtStart \subseteq seen \ incomplete /\ incomplete \subseteq seen
  /\ hcus \subseteq present /\ sick \subseteq everSick
  /\ used \in [Card -> 0 .. SplitCount] /\ blind \in BOOLEAN
  /\ full = [t \in Registrar |-> full[t]] /\ remain = [t \in Registrar |-> remain[t]]
  /\ \A t \in Registrar : DOMAIN full[t] \cup DOMAIN remain[t] \subseteq present
  /\ node = NoList \/ DOMAIN node.full \cup DOMAIN node.remain \subseteq present

AllHealthy(list) == \A c \in AtStart : c \in DOMAIN list /\ (list[c] \/ c \in everSick)
AllLeft(list) == \A c \in AtStart : c \in DOMAIN list /\ (list[c].health \/ c \in everSick)

Unblamed(t) ==
  /\ pc[t] \in {"full", "remain", "patch"} => AtStart \subseteq hcus
  /\ pc[t] \in {"remain", "patch"} => AllHealthy(full[t])
  /\ pc[t] = "patch" => AllLeft(remain[t])

HealthInv ==
  ~blind => /\ \A t \in Registrar : Unblamed(t)
            /\ node # NoList => AllHealthy(node.full) /\ AllLeft(node.remain)

\* A reconciliation changes what DCGM has seen, and no list.
LEMMA HealthReconcile ==
  ASSUME LockInv, Shapes, HealthInv, NEW t \in Thread, Reconcile(t)
  PROVE  Shapes' /\ HealthInv'
<1>1. /\ UNCHANGED <<hardware, hcus, results, node>>
      /\ blind' \in BOOLEAN /\ (~blind' => ~blind)
      /\ \/ UNCHANGED <<seen, incomplete>>
         \/ seen' = present /\ incomplete' = {}
  <2>1. CASE Begin(t) \/ Lock(t) \/ LeaveDcgm(t) \/ OutOfStep(t) \/ InitFails(t)
    BY <2>1 DEF Begin, Lock, LeaveDcgm, OutOfStep, InitFails, library, history, Shapes
  <2>2. CASE ShutDown(t) \/ InitDcgm(t)
    BY <2>2 DEF ShutDown, InitDcgm, history, Shapes
  <2> QED BY <2>1, <2>2 DEF Reconcile
<1>2. \A u \in Registrar : pc'[u] \in {"full", "remain", "patch"} => pc'[u] = pc[u]
  <2>1. PICK to \in {"lock", "count", "shut", "init", "idle", "snapshot"} : Goto(t, to)
    <3>1. CASE Begin(t) \/ Lock(t) \/ OutOfStep(t)
      BY <3>1 DEF Begin, Lock, OutOfStep
    <3>2. CASE LeaveDcgm(t) \/ InitDcgm(t) \/ InitFails(t)
      BY <3>2 DEF LeaveDcgm, InitDcgm, InitFails, Reconciled
    <3>3. CASE ShutDown(t)
      BY <3>3 DEF ShutDown
    <3> QED BY <3>1, <3>2, <3>3 DEF Reconcile
  <2> QED BY <2>1 DEF Goto, LockInv, Thread
<1>3. Shapes'
  BY <1>1 DEF Shapes, hardware, results
<1>4. ASSUME ~blind', NEW u \in Registrar PROVE Unblamed(u)'
  <2>1. Unblamed(u)
    BY <1>1, <1>4 DEF HealthInv
  <2> QED BY <1>1, <1>2, <2>1 DEF Unblamed, AllHealthy, AllLeft, hardware, results
<1>5. HealthInv'
  BY <1>1, <1>4 DEF HealthInv, AllHealthy, AllLeft, hardware
<1> QED BY <1>3, <1>5

\* A snapshot that DCGM answered has all the cards of the start.
LEMMA HealthSnapshot ==
  ASSUME LockInv, Shapes, HealthInv, NEW t \in Registrar, Snapshot(t)
  PROVE  Shapes' /\ HealthInv'
<1>1. /\ pc[t] = "snapshot" /\ Goto(t, "full")
      /\ UNCHANGED <<hardware, seen, incomplete, results, node>>
      /\ \/ blind' = blind /\ hcus' = seen \ incomplete
         \/ blind' = TRUE /\ hcus' = {}
  <2>1. PICK answered \in BOOLEAN :
          /\ hcus' = IF answered THEN seen \ incomplete ELSE {}
          /\ blind' = (blind \/ ~answered)
    BY DEF Snapshot
  <2> QED BY <2>1 DEF Snapshot, library, Shapes
<1>2. Shapes'
  BY <1>1 DEF Shapes, hardware, results
<1>3. ASSUME ~blind', NEW u \in Registrar PROVE Unblamed(u)'
  <2>1. Unblamed(u) /\ AtStart \subseteq hcus'
    BY <1>1, <1>3 DEF HealthInv, Shapes
  <2>2. pc'[u] = IF u = t THEN "full" ELSE pc[u]
    BY <1>1 DEF Goto, LockInv, Thread
  <2> QED BY <1>1, <2>1, <2>2 DEF Unblamed, AllHealthy, AllLeft, hardware, results
<1>4. HealthInv'
  BY <1>1, <1>3 DEF HealthInv, AllHealthy, AllLeft, hardware
<1> QED BY <1>2, <1>4

\* A list with a card missing makes DCGM blind; in any other, a card is called
\* unhealthy only if it is.
LEMMA HealthFull ==
  ASSUME LockInv, Shapes, HealthInv, NEW t \in Registrar, FullList(t)
  PROVE  Shapes' /\ HealthInv'
<1>1. PICK list :
        /\ full' = [full EXCEPT ![t] = list]
        /\ DOMAIN list \subseteq hcus
        /\ \A c \in DOMAIN list : list[c] \/ c \in sick
        /\ blind' = (blind \/ DOMAIN list # hcus)
  <2>1. PICK cards \in Listable, told \in BOOLEAN :
          /\ full' = [full EXCEPT ![t] = [c \in cards |-> Health(c, told, TRUE)]]
          /\ blind' = (blind \/ cards # hcus)
    BY DEF FullList, ListCards
  <2> DEFINE list == [c \in cards |-> Health(c, told, TRUE)]
  <2>2. DOMAIN list = cards /\ cards \subseteq hcus
    BY DEF Listable
  <2>3. \A c \in DOMAIN list : list[c] \/ c \in sick
    BY DEF Health
  <2>4. full' = [full EXCEPT ![t] = list]
    BY <2>1
  <2> HIDE DEF list
  <2> QED BY <2>1, <2>2, <2>3, <2>4
<1>2. /\ pc[t] = "full" /\ Goto(t, "remain")
      /\ UNCHANGED <<hardware, seen, incomplete, hcus, remain, node>>
  BY DEF FullList, ListCards, library
<1>3. \A u \in Registrar : full'[u] = IF u = t THEN list ELSE full[u]
  BY <1>1 DEF Shapes
<1>4. Shapes'
  <2>1. full' = [u \in Registrar |-> full'[u]]
    BY <1>1 DEF Shapes
  <2>2. \A u \in Registrar : DOMAIN full'[u] \subseteq present
    BY <1>1, <1>3 DEF Shapes
  <2>3. blind' \in BOOLEAN
    BY <1>1 DEF Shapes
  <2> QED BY <1>2, <2>1, <2>2, <2>3 DEF Shapes, hardware
<1>5. ASSUME ~blind', NEW u \in Registrar PROVE Unblamed(u)'
  <2>1. Unblamed(u) /\ DOMAIN list = hcus /\ ~blind
    BY <1>1, <1>5 DEF HealthInv
  <2>2. pc'[u] = IF u = t THEN "remain" ELSE pc[u]
    BY <1>2 DEF Goto, LockInv, Thread
  <2>3. CASE u = t
    <3>1. AtStart \subseteq hcus
      BY <1>2, <2>1, <2>3 DEF Unblamed
    <3>2. AllHealthy(list)'
      BY <1>1, <1>2, <2>1, <3>1 DEF AllHealthy, Shapes, hardware
    <3> QED BY <1>2, <1>3, <2>2, <2>3, <3>1, <3>2 DEF Unblamed, AllHealthy, AllLeft
  <2>4. CASE u # t
    BY <1>2, <1>3, <2>1, <2>2, <2>4 DEF Unblamed, AllHealthy, AllLeft, hardware
  <2> QED BY <2>3, <2>4
<1>6. ~blind' => ~blind
  BY <1>1
<1>7. HealthInv'
  BY <1>2, <1>5, <1>6 DEF HealthInv, AllHealthy, AllLeft, hardware
<1> QED BY <1>4, <1>7

\* So it is with the list of what is left.
LEMMA HealthRemain ==
  ASSUME LockInv, Shapes, HealthInv, NEW t \in Registrar, RemainingList(t)
  PROVE  Shapes' /\ HealthInv'
<1>1. PICK list :
        /\ remain' = [remain EXCEPT ![t] = list]
        /\ DOMAIN list \subseteq hcus
        /\ \A c \in DOMAIN list : list[c].health \/ c \in sick
        /\ blind' = (blind \/ DOMAIN list # hcus)
  <2>1. PICK cards \in Listable, told \in BOOLEAN : \E mute \in SUBSET cards :
          /\ remain' = [remain EXCEPT ![t] =
               [c \in cards |-> [left |-> Left(c, mute), health |-> Health(c, told, TRUE)]]]
          /\ blind' = (blind \/ cards # hcus)
    BY DEF RemainingList
  <2>2. PICK mute \in SUBSET cards :
          /\ remain' = [remain EXCEPT ![t] =
               [c \in cards |-> [left |-> Left(c, mute), health |-> Health(c, told, TRUE)]]]
          /\ blind' = (blind \/ cards # hcus)
    BY <2>1
  <2> DEFINE list == [c \in cards |-> [left |-> Left(c, mute), health |-> Health(c, told, TRUE)]]
  <2>3. DOMAIN list = cards /\ cards \subseteq hcus
    BY DEF Listable
  <2>4. \A c \in DOMAIN list : list[c].health \/ c \in sick
    BY DEF Health
  <2>5. remain' = [remain EXCEPT ![t] = list]
    BY <2>2
  <2> HIDE DEF list
  <2> QED BY <2>2, <2>3, <2>4, <2>5
<1>2. /\ pc[t] = "remain" /\ Goto(t, "patch")
      /\ UNCHANGED <<hardware, seen, incomplete, hcus, full, node>>
  BY DEF RemainingList, library
<1>3. \A u \in Registrar : remain'[u] = IF u = t THEN list ELSE remain[u]
  BY <1>1 DEF Shapes
<1>4. Shapes'
  <2>1. remain' = [u \in Registrar |-> remain'[u]]
    BY <1>1 DEF Shapes
  <2>2. \A u \in Registrar : DOMAIN remain'[u] \subseteq present
    BY <1>1, <1>3 DEF Shapes
  <2>3. blind' \in BOOLEAN
    BY <1>1 DEF Shapes
  <2> QED BY <1>2, <2>1, <2>2, <2>3 DEF Shapes, hardware
<1>5. ASSUME ~blind', NEW u \in Registrar PROVE Unblamed(u)'
  <2>1. Unblamed(u) /\ DOMAIN list = hcus
    BY <1>1, <1>5 DEF HealthInv
  <2>2. pc'[u] = IF u = t THEN "patch" ELSE pc[u]
    BY <1>2 DEF Goto, LockInv, Thread
  <2>3. CASE u = t
    <3>1. AtStart \subseteq hcus /\ AllHealthy(full[t])
      BY <1>2, <2>1, <2>3 DEF Unblamed
    <3>2. AllLeft(list)'
      BY <1>1, <1>2, <2>1, <3>1 DEF AllLeft, Shapes, hardware
    <3>3. (AtStart \subseteq hcus /\ AllHealthy(full[t]))'
      BY <1>2, <3>1 DEF AllHealthy, hardware
    <3> QED BY <1>2, <1>3, <2>2, <2>3, <3>2, <3>3 DEF Unblamed, AllLeft
  <2>4. CASE u # t
    BY <1>2, <1>3, <2>1, <2>2, <2>4 DEF Unblamed, AllHealthy, AllLeft, hardware
  <2> QED BY <2>3, <2>4
<1>6. ~blind' => ~blind
  BY <1>1
<1>7. HealthInv'
  BY <1>2, <1>5, <1>6 DEF HealthInv, AllHealthy, AllLeft, hardware
<1> QED BY <1>4, <1>7

\* A patch brings a goroutine's lists, or nothing, into the annotations.
LEMMA HealthPatch ==
  ASSUME LockInv, Shapes, HealthInv, NEW t \in Registrar, PatchNode(t) \/ ApiFails(t)
  PROVE  Shapes' /\ HealthInv'
<1>1. /\ Goto(t, "idle")
      /\ UNCHANGED <<hardware, seen, incomplete, hcus, results, blind>>
      /\ \/ node' = node
         \/ pc[t] = "patch" /\ node' = [full |-> full[t], remain |-> remain[t]]
  BY DEF PatchNode, ApiFails, library, history
<1>2. Shapes'
  BY <1>1 DEF Shapes, hardware, results
<1>3. ASSUME ~blind', NEW u \in Registrar PROVE Unblamed(u)'
  <2>1. Unblamed(u)
    BY <1>1, <1>3 DEF HealthInv
  <2>2. pc'[u] = IF u = t THEN "idle" ELSE pc[u]
    BY <1>1 DEF Goto, LockInv, Thread
  <2> QED BY <1>1, <2>1, <2>2 DEF Unblamed, AllHealthy, AllLeft, hardware, results
<1>4. ASSUME ~blind', node' # NoList
      PROVE  (AllHealthy(node.full) /\ AllLeft(node.remain))'
  <2>1. CASE node' = node
    BY <1>1, <1>4, <2>1 DEF HealthInv, AllHealthy, AllLeft, hardware
  <2>2. CASE pc[t] = "patch" /\ node' = [full |-> full[t], remain |-> remain[t]]
    <3>1. Unblamed(t)
      BY <1>1, <1>4 DEF HealthInv
    <3> QED BY <1>1, <2>2, <3>1 DEF Unblamed, AllHealthy, AllLeft, hardware
  <2> QED BY <1>1, <2>1, <2>2
<1>5. HealthInv'
  BY <1>3, <1>4 DEF HealthInv
<1> QED BY <1>2, <1>5

\* Cards come, fall ill and recover; those of the start stay.
LEMMA HealthChange ==
  ASSUME Shapes, HealthInv, NEW c \in Card, UseVhcu(c) \/ FallIll(c) \/ Plug(c)
  PROVE  Shapes' /\ HealthInv'
<1>1. /\ UNCHANGED <<hcus, pc, results, node, blind>>
      /\ present \subseteq present' /\ everSick \subseteq everSick'
  BY DEF UseVhcu, FallIll, Plug, rest, history
<1>2. Shapes'
  <2>1. CASE UseVhcu(c)
    BY <2>1 DEF UseVhcu, rest, library, history, results, Shapes
  <2>2. CASE FallIll(c)
    BY <2>2 DEF FallIll, rest, library, history, results, Shapes
  <2>3. CASE Plug(c)
    BY <2>3 DEF Plug, rest, history, results, Shapes
  <2> QED BY <2>1, <2>2, <2>3
<1>3. HealthInv'
  BY <1>1 DEF HealthInv, Unblamed, AllHealthy, AllLeft, results
<1> QED BY <1>2, <1>3

LEMMA HealthInit == Init => Shapes /\ HealthInv
<1> SUFFICES ASSUME Init PROVE Shapes /\ HealthInv
  OBVIOUS
<1>1. Shapes
  <2>1. \A t \in Registrar : full[t] = NoCards /\ remain[t] = NoCards
    BY DEF Init
  <2>2. full = [t \in Registrar |-> full[t]] /\ remain = [t \in Registrar |-> remain[t]]
    BY DEF Init
  <2>3. \A t \in Registrar : DOMAIN full[t] = {} /\ DOMAIN remain[t] = {}
    BY <2>1 DEF NoCards
  <2>4. used \in [Card -> 0 .. SplitCount]
    BY RegistrationAssumption DEF Init
  <2>5. /\ seen = AtStart /\ present = AtStart /\ incomplete = {} /\ hcus = {} /\ sick = {}
        /\ blind = FALSE /\ node = NoList /\ AtStart \subseteq Card
    BY RegistrationAssumption DEF Init
  <2>6. \A t \in Registrar : DOMAIN full[t] \cup DOMAIN remain[t] \subseteq present
    BY <2>3
  <2> QED BY <2>2, <2>4, <2>5, <2>6 DEF Shapes
<1>2. HealthInv
  BY DEF Init, HealthInv, Unblamed, Thread
<1> QED BY <1>1, <1>2

LEMMA HealthNext == ClosedInv /\ Shapes /\ HealthInv /\ [Next]_vars => Shapes' /\ HealthInv'
<1> SUFFICES ASSUME ClosedInv, Shapes, HealthInv, [Next]_vars PROVE Shapes' /\ HealthInv'
  OBVIOUS
<1>0. LockInv
  BY DEF ClosedInv
<1>1. ASSUME NEW t \in Thread, Reconcile(t) PROVE Shapes' /\ HealthInv'
  BY <1>0, <1>1, HealthReconcile
<1>2. ASSUME NEW t \in Registrar, Register(t) PROVE Shapes' /\ HealthInv'
  BY <1>0, <1>2, HealthSnapshot, HealthFull, HealthRemain, HealthPatch DEF Register
<1>3. ASSUME NEW c \in Card, UseVhcu(c) \/ FallIll(c) \/ Plug(c) PROVE Shapes' /\ HealthInv'
  BY <1>3, HealthChange
<1>4. CASE UNCHANGED vars
  BY <1>4 DEF vars, hardware, library, results, history, Shapes, HealthInv, Unblamed, AllHealthy, AllLeft
<1> QED BY <1>1, <1>2, <1>3, <1>4 DEF Next

LEMMA HealthAlways == Spec => [](ClosedInv /\ Shapes /\ HealthInv)
  BY InitClosed, ClosedNext, HealthInit, HealthNext, PTL DEF Spec

\* The variables keep their shapes, and the mutex is held exactly by the
\* goroutine that counts the cards, closes or opens DCGM.
THEOREM TypeCorrect == Spec => []TypeOK
<1>1. ClosedInv /\ Shapes => TypeOK
  BY DEF ClosedInv, LockInv, Shapes, TypeOK, Users
<1> QED BY <1>1, HealthAlways, PTL

\* A card that was there and healthy all the time is registered as healthy,
\* whatever queries of its health or of what is left of it fail, as long as
\* DCGM lists it.
THEOREM HealthyStaysHealthy == Spec => []HealthNotBlamed
<1>1. HealthInv => HealthNotBlamed
  BY DEF HealthInv, HealthNotBlamed, AllHealthy, AllLeft
<1> QED BY <1>1, HealthAlways, PTL
=============================================================================
