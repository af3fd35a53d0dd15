--------------------------- MODULE MCBindProtocol ---------------------------
(***************************************************************************)
(* Small instances of BindProtocol for TLC.                                *)
(***************************************************************************)
EXTENDS BindProtocol, TLC

CONSTANTS p1, p2, n1, n2, h1, h2, d1, d2, d3, d4

MCDev == {d1, d2, d3, d4}
TwoNames == p1 :> n1 @@ p2 :> n2
OneName == p1 :> n1 @@ p2 :> n1

\* Two containers each; a pod whose first container asks for cores only.
TwoEach == p1 :> <<<<d1>>, <<d2>>>> @@ p2 :> <<<<d3>>, <<d4>>>>
OneOrTwo == p1 :> <<<<d1>>, <<d2>>>> @@ p2 :> <<<<>>, <<d3>>>>
NoOther == p1 :> {} @@ p2 :> {}
CoresOnly == p1 :> {} @@ p2 :> {1}
=============================================================================
