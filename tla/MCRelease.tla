----------------------------- MODULE MCRelease -----------------------------
(***************************************************************************)
(* Versions for TLC: <<2, p>> is v2.0.p, <<3, p>> is v3.0.p. The release   *)
(* from before signing is the first floor, as v2.0.30 is. The floor may be *)
(* raised to any release or, in a rotation, to the one in its middle.      *)
(***************************************************************************)
EXTENDS Release

BothSeries == {2, 3}
OneSeries == {2}
MCLegacy == {<<2, 0>>}
MCFloor == <<2, 0>>
AnyFloor == Versions
BridgeFloor == {<<2, 2>>}

=============================================================================
