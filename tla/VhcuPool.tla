------------------------------- MODULE VhcuPool -------------------------------
(***************************************************************************)
(* What the life cycle of vHCUs promises, without marks, passes or API     *)
(* server: a pool of vHCUs, each cut out of a card when it is needed, put   *)
(* on record, given to one container, and taken back only when that        *)
(* container has ended.  The driver hands out indices as it likes: one     *)
(* that is handed out while its former bearer is still on record goes      *)
(* astray, and nothing is promised of it.  VhcuLifecycle implements this.  *)
(***************************************************************************)
CONSTANTS
  Vdev,  \* vHCU indices
  User   \* containers

VARIABLES
  work,  \* work[v]: "free", "up" (it exists and works), "stopped" or "astray"
  user,  \* user[v]: the containers that use v
  due    \* the vHCUs on record: whoever finds the record may take them back

vars == <<work, user, due>>

Cut(v) ==
  /\ work[v] = "free" /\ user[v] = {}
  /\ work' = [work EXCEPT ![v] = IF v \in due THEN "astray" ELSE "up"]
  /\ UNCHANGED <<user, due>>

\* Nothing is put on record that does not exist.
Record(v) ==
  /\ work[v] # "free"
  /\ due' = due \cup {v}
  /\ UNCHANGED <<work, user>>

\* Only what works, is on record and has no user yet is given away.
Give(v, x) ==
  /\ work[v] = "up" /\ v \in due /\ user[v] = {}
  /\ user' = [user EXCEPT ![v] = {x}]
  /\ UNCHANGED <<work, due>>

\* Containers end, perhaps all those of a pod at once, and records go, but for
\* those of vHCUs in use.
End(ended, lost) ==
  /\ user' = [v \in Vdev |-> user[v] \ ended]
  /\ due' = due \ lost
  /\ \A v \in lost : user[v] \subseteq ended
  /\ UNCHANGED work

\* A vHCU that nobody uses is stopped or destroyed.
TakeBack(v) ==
  /\ user[v] = {} /\ work[v] \in {"up", "stopped"}
  /\ work' \in {[work EXCEPT ![v] = "stopped"], [work EXCEPT ![v] = "free"]}
  /\ UNCHANGED <<user, due>>

Init ==
  /\ work = [v \in Vdev |-> "free"]
  /\ user = [v \in Vdev |-> {}]
  /\ due = {}

Next ==
  \/ \E v \in Vdev : Cut(v) \/ Record(v) \/ TakeBack(v) \/ \E x \in User : Give(v, x)
  \/ \E ended \in SUBSET User, lost \in SUBSET Vdev : End(ended, lost)

Spec == Init /\ [][Next]_vars
=============================================================================
