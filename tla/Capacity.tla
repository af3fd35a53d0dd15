------------------------------ MODULE Capacity ------------------------------
(***************************************************************************)
(* Rounding of compute units.  Pods ask for a percentage of a card, which  *)
(* Allocate rounds up to compute units; the node annotation offers what is *)
(* left of the card, which apiDevicesRemain rounds down to a percentage.   *)
(*                                                                         *)
(* Code: internal/pkg/plugin/plugin.go (AllocateHAMiHCUs: actualCores),    *)
(* internal/pkg/plugin/register.go (apiDevicesRemain: devcore).            *)
(* The driver that cuts the units out of the card is external.             *)
(***************************************************************************)
EXTENDS Integers, FiniteSets, Functions

CONSTANTS
  Units,   \* compute units of the card
  Slot,    \* its vHCUs, at most DeviceSplitCount
  NoVhcu,  \* the slot is free
  Shares   \* percentages that pods ask for

ASSUME CapacityAssumption ==
  /\ Units \in Nat \ {0}
  /\ Shares \subseteq 1 .. 100 /\ NoVhcu \notin 0 .. 100

VARIABLES
  share,    \* share[s]: the percentage of vHCU s, or NoVhcu
  free,     \* units of the card that are not cut out
  devcore,  \* the percentage that is registered as left
  fresh,    \* nothing was created since it was computed
  asked,    \* the last request
  promised, \* it was within a fresh remainder
  fair,     \* with it, the shares of all vHCUs are at most 100
  created   \* the driver had enough units for it

request == <<asked, promised, fair, created>>
vars == <<share, free, devcore, fresh, request>>

\* math.Ceil(usedcores * units / 100)
ActualCores(q) == (q * Units + 99) \div 100

\* Mutant of Devcore: rounded to the nearest percentage.
DevcoreNearest(r) == {(200 * r + Units) \div (2 * Units)}

\* int32(float64(r) / units * 100): rounded down, and when it is a whole number
\* the quotient may come out just below it.
Devcore(r) ==
  LET d == (100 * r) \div Units
  IN  {d} \cup (IF 100 * r = d * Units /\ d > 0 THEN {d - 1} ELSE {})

Given == {s \in Slot : share[s] # NoVhcu}
Granted == FoldFunctionOnSet(LAMBDA x, y : x + y, 0, share, Given)

\* apiDevicesRemain
Register ==
  /\ devcore' \in Devcore(free)
  /\ fresh' = TRUE
  /\ UNCHANGED <<share, free, request>>

\* CreateVDevices with actualCores
Create(s, q) ==
  /\ share[s] = NoVhcu
  /\ asked' = q
  /\ promised' = (fresh /\ q <= devcore)
  /\ fair' = (Granted + q <= 100)
  /\ \/ /\ ActualCores(q) <= free
        /\ created' = TRUE
        /\ share' = [share EXCEPT ![s] = q] /\ free' = free - ActualCores(q)
        /\ fresh' = FALSE
     \/ /\ ActualCores(q) > free
        /\ created' = FALSE
        /\ UNCHANGED <<share, free, fresh>>
  /\ UNCHANGED devcore

\* DestroySingleVDevice
Destroy(s) ==
  /\ share[s] # NoVhcu
  /\ share' = [share EXCEPT ![s] = NoVhcu]
  /\ free' = free + ActualCores(share[s])
  /\ UNCHANGED <<devcore, fresh, request>>

Init ==
  /\ share = [s \in Slot |-> NoVhcu] /\ free = Units
  /\ devcore = 0 /\ fresh = FALSE
  /\ asked = 0 /\ promised = FALSE /\ fair = TRUE /\ created = TRUE

Next ==
  \/ Register
  \/ \E s \in Slot : Destroy(s) \/ \E q \in Shares : Create(s, q)

Spec == Init /\ [][Next]_vars

-----------------------------------------------------------------------------
\* What the annotation offers can be had: a request within the registered
\* remainder is not refused, although one side rounds down and the other up,
\* and vHCUs may have been given back in between.
RemainderCanBeHad == promised => created

\* "Share of compute: 1-100, where 100 means exclusive use of the whole card's
\* compute": vHCUs whose shares are at most 100 together fit on a card.
SharesFit == fair => created
=============================================================================
