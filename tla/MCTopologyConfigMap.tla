------------------------ MODULE MCTopologyConfigMap ------------------------
(***************************************************************************)
(* Small instances of TopologyConfigMap for TLC.                           *)
(***************************************************************************)
EXTENDS TopologyConfigMap, TLC

CONSTANTS a, b, ta, tb, tc

TwoOnOne == ta :> a @@ tb :> b @@ tc :> a
=============================================================================
