------------------------- MODULE MCAnnotationServer -------------------------
(***************************************************************************)
(* A small instance of AnnotationServer for TLC.                           *)
(***************************************************************************)
EXTENDS AnnotationServer

CONSTANTS d1, d2, d3

MCDev == {d1, d2, d3}
MCChoice == {<<>>, <<d1>>, <<d2>>, <<d3, d1>>}
=============================================================================
