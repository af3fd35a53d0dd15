--------------------------- MODULE MCDeviceWatch ---------------------------
(***************************************************************************)
(* Small instances of DeviceWatch for TLC.                                 *)
(***************************************************************************)
EXTENDS DeviceWatch

CONSTANTS a, b, s1, s2, s3
=============================================================================
