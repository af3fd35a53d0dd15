-------------------------- MODULE MCStaticDevices --------------------------
(***************************************************************************)
(* Small instances of StaticDevices for TLC.                               *)
(***************************************************************************)
EXTENDS StaticDevices, TLC

CONSTANTS a, b, v1, v2, s1, s2

StaticSymmetry ==
  Permutations({a, b}) \cup Permutations({v1, v2}) \cup Permutations({s1, s2})
=============================================================================
