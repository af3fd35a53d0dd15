-------------------------- MODULE MCVhcuLifecycle --------------------------
(***************************************************************************)
(* Small instances of VhcuLifecycle for TLC.                               *)
(***************************************************************************)
EXTENDS VhcuLifecycle, TLC

CONSTANTS p1, p2, n1, n2, w1, i1, alloc, v1, v2

TwoNames == p1 :> n1 @@ p2 :> n2
OneName == p1 :> n1 @@ p2 :> n1
OnePodName == p1 :> n1

\* Pods with one app container.
AppOnly == <<"app">>
PartApp == p1 :> <<"part">> @@ p2 :> <<"part">>
BareApp == p1 :> <<"bare">> @@ p2 :> <<"bare">>
OnePart == p1 :> <<"part">>

\* Pods with an init container, perhaps a sidecar, and an app.
InitApp == <<"init", "app">>
EveryKind == <<"init", "sidecar", "app">>
PartPartWhole == p1 :> <<"part", "part", "whole">>
TwoApps == <<"app", "app">>
OneThenTwo == p1 :> <<"part", "none">> @@ p2 :> <<"part", "part">>
BothPart == p1 :> <<"part", "part">>
InitOrWhole == p1 :> <<"part", "bare">> @@ p2 :> <<"whole", "part">>
InitOrCards == p1 :> <<"part", "part">> @@ p2 :> <<"part", "cards">>

VdevSymmetry == Permutations({v1, v2})
=============================================================================
