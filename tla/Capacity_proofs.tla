-------------------------- MODULE Capacity_proofs --------------------------
(***************************************************************************)
(* Proof that a request within the registered remainder is never refused,  *)
(* for a card of any number of compute units.                              *)
(***************************************************************************)
EXTENDS Capacity, TLAPS

\* A number times a percentage that fits into the remainder, rounded down, is
\* at most a hundred times the remainder.
LEMMA FloorBound ==
  ASSUME NEW r \in Nat, NEW d \in Nat, d <= (100 * r) \div Units
  PROVE  d * Units <= 100 * r
<1>1. Units \in Nat /\ Units > 0
  BY CapacityAssumption
<1> DEFINE f == (100 * r) \div Units
<1>2. f \in Nat /\ f * Units <= 100 * r
  BY <1>1, SMT
<1>3. d * Units <= f * Units
  BY <1>1, <1>2, SMT
<1> QED BY <1>1, <1>2, <1>3, SMT

\* Rounding up a percentage stays within what it was rounded down from.
LEMMA CeilBound ==
  ASSUME NEW r \in Nat, NEW q \in Nat, q * Units <= 100 * r
  PROVE  ActualCores(q) <= r
<1>1. Units \in Nat
  BY CapacityAssumption
<1> DEFINE n == q * Units
<1>2. n \in Nat
  BY <1>1
<1>3. (n + 99) \div 100 <= r
  <2>1. n + 99 < 100 * (r + 1)
    BY <1>2
  <2> HIDE DEF n
  <2> QED BY <1>2, <2>1, SMT
<1> QED BY <1>3 DEF ActualCores

\* Units are never negative numbers of units.
LEMMA CoresAreUnits ==
  ASSUME NEW q \in 1 .. 100
  PROVE  ActualCores(q) \in Nat
<1> DEFINE n == q * Units
<1>1. n \in Nat
  BY CapacityAssumption
<1>2. (n + 99) \div 100 \in Nat
  <2> HIDE DEF n
  <2> QED BY <1>1
<1> QED BY <1>2 DEF ActualCores

\* A remainder that was registered after the last creation still holds: only
\* vHCUs given back can have changed it.
Remainder ==
  /\ share \in [Slot -> Shares \cup {NoVhcu}]
  /\ free \in Nat /\ devcore \in Nat
  /\ fresh \in BOOLEAN /\ promised \in BOOLEAN /\ created \in BOOLEAN
  /\ fresh => devcore * Units <= 100 * free
  /\ promised => created

\* The card starts whole, and nothing is promised.
LEMMA InitRemainder == Init => Remainder
<1> SUFFICES ASSUME Init PROVE Remainder
  OBVIOUS
<1>1. free \in Nat /\ devcore \in Nat
  BY CapacityAssumption DEF Init
<1>2. fresh \in BOOLEAN /\ promised \in BOOLEAN /\ created \in BOOLEAN /\ ~fresh /\ ~promised
  BY DEF Init
<1>3. share \in [Slot -> Shares \cup {NoVhcu}]
  BY DEF Init
<1> QED BY <1>1, <1>2, <1>3 DEF Remainder

\* Every step keeps the remainder true.
LEMMA NextRemainder == Remainder /\ [Next]_vars => Remainder'
<1> SUFFICES ASSUME Remainder, [Next]_vars PROVE Remainder'
  OBVIOUS
<1>0. Units \in Nat \ {0} /\ Shares \subseteq 1 .. 100
  BY CapacityAssumption
<1>1. CASE Register
  <2>1. devcore' \in Nat /\ devcore' <= (100 * free) \div Units
    <3> DEFINE d == (100 * free) \div Units
    <3>1. d \in Nat
      BY <1>0 DEF Remainder
    <3>2. devcore' = d \/ (d > 0 /\ devcore' = d - 1)
      BY <1>1 DEF Register, Devcore
    <3> HIDE DEF d
    <3>3. devcore' \in Nat /\ devcore' <= d
      BY <3>1, <3>2
    <3> QED BY <3>3 DEF d
  <2>2. devcore' * Units <= 100 * free
    BY <2>1, FloorBound DEF Remainder
  <2> QED BY <1>1, <2>1, <2>2 DEF Register, Remainder, request
<1>2. ASSUME NEW s \in Slot, Destroy(s) PROVE Remainder'
  <2>1. share[s] \in 1 .. 100
    BY <1>0, <1>2 DEF Destroy, Remainder
  <2>2. ActualCores(share[s]) \in Nat
    BY <2>1, CoresAreUnits
  <2> DEFINE n == devcore * Units
  <2>3. n \in Nat
    BY <1>0 DEF Remainder
  <2>4. fresh => n <= 100 * free
    BY DEF Remainder
  <2>5. free' = free + ActualCores(share[s]) /\ free \in Nat
    BY <1>2 DEF Destroy, Remainder
  <2> HIDE DEF n
  <2>6. fresh => n <= 100 * free'
    BY <2>2, <2>3, <2>4, <2>5
  <2> USE DEF n
  <2>7. free' \in Nat
    BY <2>2, <2>5
  <2> QED BY <1>2, <2>6, <2>7 DEF Destroy, Remainder, request
<1>3. ASSUME NEW s \in Slot, NEW q \in Shares, Create(s, q) PROVE Remainder'
  <2>1. q \in 1 .. 100
    BY <1>0
  <2>2. ActualCores(q) \in Nat
    BY <2>1, CoresAreUnits
  <2>3. promised' \in BOOLEAN /\ created' \in BOOLEAN
    BY <1>3 DEF Create
  <2>4. promised' => ActualCores(q) <= free
    <3>1. SUFFICES ASSUME promised' PROVE ActualCores(q) <= free
      OBVIOUS
    <3>2. fresh /\ q <= devcore
      BY <1>3, <3>1 DEF Create
    <3> DEFINE n == devcore * Units
               m == q * Units
    <3>3. m <= n /\ m \in Nat /\ n \in Nat
      BY <1>0, <2>1, <3>2, SMT DEF Remainder
    <3>4. n <= 100 * free /\ free \in Nat
      BY <3>2 DEF Remainder
    <3> HIDE DEF n, m
    <3>5. m <= 100 * free
      BY <3>3, <3>4
    <3> USE DEF n, m
    <3>6. q \in Nat
      BY <2>1
    <3> QED BY <3>4, <3>5, <3>6, CeilBound
  <2>5. promised' => created'
    BY <1>3, <2>2, <2>4 DEF Create, Remainder
  <2>6. free' \in Nat /\ share' \in [Slot -> Shares \cup {NoVhcu}]
    BY <1>3, <2>2 DEF Create, Remainder
  <2>7. fresh' \in BOOLEAN /\ devcore' \in Nat /\ (fresh' => devcore' * Units <= 100 * free')
    <3>1. devcore' = devcore /\ devcore \in Nat
      BY <1>3 DEF Create, Remainder
    <3>2. fresh' \in BOOLEAN
      BY <1>3 DEF Create, Remainder
    <3>3. fresh' => fresh /\ free' = free
      BY <1>3 DEF Create
    <3>4. fresh' => devcore' * Units <= 100 * free'
      <4>1. SUFFICES ASSUME fresh' PROVE devcore' * Units <= 100 * free'
        OBVIOUS
      <4>2. devcore * Units <= 100 * free
        BY <3>3, <4>1 DEF Remainder
      <4> QED BY <3>1, <3>3, <4>1, <4>2, Zenon
    <3> QED BY <3>1, <3>2, <3>4
  <2> QED BY <2>3, <2>5, <2>6, <2>7 DEF Remainder
<1>4. CASE UNCHANGED vars
  BY <1>4 DEF vars, request, Remainder
<1> QED BY <1>1, <1>2, <1>3, <1>4 DEF Next

\* A request within a remainder that was registered after the last creation is
\* never refused (AllocateHAMiHCUs, apiDevicesRemain), whatever the number of
\* compute units of the card and the percentages asked for.
THEOREM Honest == Spec => []RemainderCanBeHad
<1>1. Remainder => RemainderCanBeHad
  BY DEF Remainder, RemainderCanBeHad
<1> QED BY <1>1, InitRemainder, NextRemainder, PTL DEF Spec
=============================================================================
