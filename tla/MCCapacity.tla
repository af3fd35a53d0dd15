----------------------------- MODULE MCCapacity -----------------------------
(***************************************************************************)
(* Small instances of Capacity for TLC.                                    *)
(***************************************************************************)
EXTENDS Capacity

CONSTANTS c1, c2, c3
=============================================================================
