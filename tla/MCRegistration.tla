--------------------------- MODULE MCRegistration ---------------------------
(***************************************************************************)
(* Small instances of Registration for TLC.                                *)
(***************************************************************************)
EXTENDS Registration

CONSTANTS a, b, w, i, k
=============================================================================
